SPECIFICATION Spec
CONSTANTS
    None = None
    Last = 2
    TTL = 2
    Settle = 1
    Lookback = 1
    CatchUp = 4
    PruneAfter = 5
    ProjectToken = FALSE
    Staged = TRUE
    FetchTime = 0
    MaxTroubles = 0
    MaxTime = 8
INVARIANTS ReadToHandover
CHECK_DEADLOCK TRUE
