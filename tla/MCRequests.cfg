SPECIFICATION FairSpec

CONSTANTS
    Mode = {"paper", "live"}
    Real = {"live"}
    FirstMode = "paper"
    Key = {k1, k2}
    Caller = {c1}
    Saver = {s1}
    NoMode = NoMode
    MaxEntries = 1
    MaxRequests = 2
    MaxCycles = 2
    Fault = {"gate", "fail", "lapse", "stop", "abort"}
INVARIANTS
    ReportIsTrue
    NoOrphans
PROPERTIES
    AcceptedIsServed
CHECK_DEADLOCK FALSE
