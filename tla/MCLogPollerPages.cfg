SPECIFICATION FairSpec
CONSTANTS
    None = None
    Sinks = {s1}
    Hashes = {a, b}
    Ignored = {}
    Garbled = {}
    PageSize = 2
    Settle = 2
    CatchUp = 3
    Lookback = 2
    PruneAfter = 6
    Http = FALSE
    KindSkew = 0
    KindLag = 0
    MaxTime = 4
    MaxLines = 3
    MaxFaults = 1
INVARIANTS TypeOK NoDuplicates
PROPERTIES CursorNeverBack EventuallyDelivered ImplementsDrain
