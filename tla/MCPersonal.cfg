SPECIFICATION MCSpec
CONSTANTS
    Worker = {w1, w2}
    NoWorker = NoWorker
    Intent = {"i1", "i2"}
    MaxGrants = 2
    MaxVersion = 3
    Allow = {"release", "errorWithId"}
    p1 = p1
    p2 = p2
    t1 = t1
    t2 = t2
    e1 = e1
    e2 = e2
    Orders = {o1}
    Policies = {p1, p2}
    NoPolicy = NoPolicy
    Requested <- Asked
    Ceiling = 7
    CanaryCap = 5
    LiveEnabled = TRUE
    StartModes = {"paper", "live"}
    Former = "paper"
    FirstMode = "paper"
    Selectable = {"paper", "canary", "live"}
    Overlap = FALSE
    MaxSwitch = 2
    MaxToken = 2
    MaxFaults = 1
    Tokens = {t1, t2}
    Events = {e1, e2}
    EventOf <- OneEach
    Bankroll = 12
    BuyPrices = {6}
    SellPrices = {8}
    MaxShares = 2
    MaxTrades = 2
    MaxDay = 1
    MaxFence = 2
    MaxFailures = 1
    Renewal = FALSE
INVARIANTS
    InFlightIsUnresolved
    
    RestingWithinLimits
    

    
    
CHECK_DEADLOCK FALSE
