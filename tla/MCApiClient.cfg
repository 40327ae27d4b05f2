SPECIFICATION FairSpec
CONSTANTS
    Calls = {c1, c2}
    NHosts = 2
    MaxRetries = 2
    Burst = 1
    Limit = 2
    MaxFaults = 2
INVARIANTS TypeOK NoFalseExhaustion WaitsPaced
PROPERTIES CallsReturn BudgetRecovers
CHECK_DEADLOCK FALSE
