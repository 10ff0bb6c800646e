SPECIFICATION Spec

CONSTANTS
    Trade = {1}
    Size = 1
    MaxQueue = 2
    Faults = {"link", "call", "crash", "lag", "foreign"}

INVARIANTS
    
    NoTradeLost

CHECK_DEADLOCK FALSE
