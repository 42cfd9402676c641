CONSTANTS
    NoJob = NoJob
    Tip = 6
    FactoryLogs = {1, 2, 3, 5}
    PoolLogs = {1, 2, 3, 4, 6}
    Creations = {1, 2, 3}
    LogsBlockRange = 2
    FetchAhead = 4
    FaultKinds = {}
    MaxFaults = 0
SPECIFICATION FairSpec
PROPERTY TemplateRestarts
CHECK_DEADLOCK FALSE
