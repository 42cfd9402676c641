CONSTANTS
    NoJob = NoJob
    Tip = 6
    FactoryLogs = {1, 2, 3, 5}
    PoolLogs = {1, 2, 3, 4, 6}
    Creations = {1, 2, 3}
    LogsBlockRange = 2
    FetchAhead = 4
    FaultKinds = {"events", "fetch", "crash"}
    MaxFaults = 1
SPECIFICATION FairSpec
INVARIANTS AppliedOnce HistoryComplete
PROPERTY HistoryEnds
CHECK_DEADLOCK FALSE
