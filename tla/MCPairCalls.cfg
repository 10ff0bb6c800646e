SPECIFICATION Spec
CONSTANTS
    Target = 2
    MaxHedges = 1
    Runner = {r1, r2}
    Faults = {"abort", "restart"}
    DeliverEarly = FALSE
SYMMETRY CallSymmetry
INVARIANTS
    CurrentIsAccepted
    InventoryExact
    
    
CHECK_DEADLOCK FALSE
