SPECIFICATION MCSpec
CONSTANTS
    Token = {"yes", "no", "far"}
    Condition = {1, 2}
    CondOf <- Markets
    Scale = 1
    Fee = 0
    BotToken = {"yes"}
    HumanToken = {"no"}
    Quarantine = TRUE
    MaxEvents = 2
    MaxBaseline = 0
    Faults = {"call", "redeem", "merge", "lag"}
    Price = {1, 3}
    Size = {1}
    HistoryLength = 4
INVARIANTS
    AuditFirst
    ForeignStaysOut
    LedgerIsTrue
PROPERTIES
    ScopeSettles
CHECK_DEADLOCK FALSE
