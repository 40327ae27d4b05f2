SPECIFICATION FairSpec
CONSTANTS
    None = None
    Configs <- MCConfigs
    Targets = {t1, t2}
    Concurrency = 1
    MaxFailures = 1
INVARIANTS TypeOK HealthyStayVisible NoShutdownGap ConfigSound
PROPERTIES ShutdownCompletes
CHECK_DEADLOCK FALSE
