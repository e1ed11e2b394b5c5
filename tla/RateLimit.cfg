CONSTANTS
    Threads = {t1, t2}
    Advertised = 4
    Minute = 3
    MaxWait = 2
    Nap = 1
    Latency = 1
    MaxTime = 3
    MaxBudgets = 2
SPECIFICATION Spec
SYMMETRY Interchangeable
CHECK_DEADLOCK FALSE
INVARIANTS WithinBudget SleepsWithinMaxWait OneDiscoveryIsSafe
