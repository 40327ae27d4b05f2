SPECIFICATION FairSpec
CONSTANTS
    None = None
    Builds = {b1, b2}
    Slots = 1
    LogBackfill = 0
    NHosts = 2
    MaxLines = 2
    MaxTs = 2
    MaxFaults = 2
INVARIANTS TypeOK NoDuplicates
PROPERTIES StaysSubscribed FoundIsStarted ShutdownCompletes
CHECK_DEADLOCK FALSE
