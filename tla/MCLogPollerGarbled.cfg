SPECIFICATION Spec
CONSTANTS
    None = None
    Sinks = {s1}
    Hashes = {a, b}
    Ignored = {}
    Garbled = {b}
    PageSize = 2
    Settle = 1
    CatchUp = 4
    Lookback = 1
    PruneAfter = 8
    Http = FALSE
    KindSkew = 0
    KindLag = 0
    MaxTime = 3
    MaxLines = 3
    MaxFaults = 0
INVARIANTS NothingLost
