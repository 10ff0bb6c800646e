SPECIFICATION FairSpec
CONSTANTS
    Target = 1
    MaxHedges = 2
    Runner = {r1}
    Faults = {"abort", "restart"}
    DeliverEarly = FALSE
PROPERTIES
    
    OrphanSettles
CHECK_DEADLOCK FALSE
