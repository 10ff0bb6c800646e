SPECIFICATION MCSpec
CONSTANTS
    Owner = {o1, o2}
    NoOwner = NoOwner
    MaxAttempts = 2
    Account = {a1}
    Key = {1}
    NoKey = NoKey
    Ids = {1}
    MaxUpdates = 1
    MaxConcurrency = 2
    Faults <- AnyFault
    Survivor = {o1}
    Worker = {o1, o2}
    NoWorker = NoWorker
    WalletKey = {w1, w2}
    Signer = {s1}
    Order = {order1}
    None = None
    MaxTries = 2
    MaxEdits = 2
    MaxJobs = 2
    WalletFaults = {"claim", "client", "lease", "crash"}
    Lasting = {o1}
    Traded = w1
INVARIANTS
    SuccessIsSaved
    RevokedIsQuiet
    KeyFollowsWallet
PROPERTIES
    ImplementsBoard
    JobSettles
    
CHECK_DEADLOCK FALSE
