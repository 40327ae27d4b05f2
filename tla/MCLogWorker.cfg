SPECIFICATION FairSpec
CONSTANTS
    Pollers = {p1}
    Streamers = {s1}
    QueueSize = 1
    BatchSize = 2
    MaxAttempts = 2
    Budget = 3
    None = None
INVARIANTS
    TypeOK
    QueueInSeqOrder
    SettledUpToWritten
    VerdictSound
    NoLostWakeup
    FlushedBeforeClose
PROPERTIES
    ImplementsHandoff
    PageDecided
    ShutdownCompletes
