SPECIFICATION Spec
CONSTANTS
    None = None
    Settle = 0
    CatchUp = 3
    PruneAfter = 2
    Lookback = 0
    KindSkew = 1
    KindLag = 1
    Window = 1
    MaxTime = 4
    MaxCrashes = 0
INVARIANTS HttpInWindow
CHECK_DEADLOCK TRUE
