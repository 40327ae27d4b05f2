SPECIFICATION Spec
CONSTANTS
    None = None
    Sinks = {s1, s2}
    Hashes = {a, b}
    Ignored = {b}
    Garbled = {}
    PageSize = 1
    Settle = 1
    CatchUp = 3
    Lookback = 1
    PruneAfter = 8
    Http = TRUE
    KindSkew = 1
    KindLag = 2
    MaxTime = 4
    MaxLines = 2
    MaxFaults = 1
SYMMETRY SinkSymmetry
INVARIANTS NothingLost DrainedBeforeGone
