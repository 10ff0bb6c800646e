SPECIFICATION FairSpec

CONSTANTS
    Trade = {1}
    Size = 1
    MaxQueue = 2
    Faults = {"fail"}

PROPERTIES
    FillsConverge
    RowSettles

CHECK_DEADLOCK FALSE
