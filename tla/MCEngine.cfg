SPECIFICATION MCSpec

CONSTANTS
    Market = {"a", "b", "c"}
    Held = {"a", "b"}
    Filtered = {"b"}
    MaxAI = 1
    Providers = 1
    EvidenceCalls = 0
    Tenant = FALSE
    Limits = {2, 3}
    DefaultLimit = 3
    MaxCycles = 2
    MaxDays = 2
    MaxEdits = 1
    MaxDiag = 1
    Faults = {"budget", "evidence", "provider", "save", "market", "portfolio", "crash", "breach", "lookup"}
    Ticks = 4
    SizeStep = 2
    FeesEnabled = TRUE
    RateNum = 1
    RateDen = 4
    Exponent = 1
    FeeQuantum = 96
    Scenarios <- Scenes
    MinSize = 2
    MaxOrder = 4200
    TradeCap = 4000
    EventCap = 3600
    BucketCap = 3500
    GrossCap = 3700
    KellyNum = 9000
    KellyDen = 1
    UncertaintyReserve = 0
    MinEdge = 100
    Markets <- BothMarkets
    Ends <- InThisOrder
    Voids = {}
    Passes <- ThreePasses
    Unit = 16
    Quantum = 2
    BinCount = 4
    MinTotal = 2
    MinBin = 1
    Shrinkage = 1
    MaxShift = 4
    MaxForecasts = 3
    MaxFaults = 0
    Batch = 2
    RowLimit = 3
    m1 = m1
    m2 = m2
INVARIANTS
    BudgetIsKept
    FillsWithinCommitment
    CapsHoldAfterFills
    CorrectionIsSound
    ScoredOnceAndRight
CHECK_DEADLOCK FALSE
