SPECIFICATION Spec
CONSTANTS
    NServices = 2
    AutoStart = {1, 2}
    NHooks = 2
    Keys = {k1, k2, k3}
    CacheLimit = 2
    MaxSets = 6
    Edges = {e1, e2}
    MaxTurns = 3
    MaxCrashes = 1
    MaxFailures = 1
    NJobs = 3
    Graphs <- AllGraphs
    Missing = Missing
    NTasks = 6
    PoolSizes = {1, 2, 3}
    Callers = {c1, c2, c3}
    Threshold = 2
    Timeout = 2
    MaxTime = 5
    MaxCalls = 6
    FlashKeys = {f1, f2}
    Values = {v1, v2}
    Deleted = Deleted
    NoHash = NoHash
    MaxChanges = 4
    MaxFlashes = 3
INVARIANTS
    WorkerSafety
    CacheSafety
    
    JobSafety
    PoolSafety
    BreakerSafety
    FlashSafety
PROPERTIES
    ServicesSettle
CHECK_DEADLOCK FALSE
