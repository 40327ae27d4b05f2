SPECIFICATION Spec
CONSTANTS
    None = None
    Last = 2
    TTL = 2
    Settle = 1
    Lookback = 1
    CatchUp = 3
    PruneAfter = 3
    ProjectToken = FALSE
    Staged = TRUE
    FetchTime = 1
    MaxTroubles = 1
    MaxTime = 4
INVARIANTS TypeOK LossesExplained 
PROPERTIES DrainedBeforeLeaving DeploySavesJoin
CHECK_DEADLOCK TRUE
