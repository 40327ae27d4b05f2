SPECIFICATION Spec
CONSTANTS
    None = None
    Last = 2
    TTL = 2
    Settle = 1
    Lookback = 1
    CatchUp = 4
    PruneAfter = 5
    ProjectToken = FALSE
    Staged = FALSE
    FetchTime = 1
    MaxTroubles = 0
    MaxTime = 8
INVARIANTS NothingPassedOver
CHECK_DEADLOCK TRUE
