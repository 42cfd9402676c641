CONSTANTS
    r = r
    a2 = a2
    a3 = a3
    b2 = b2
    b3 = b3
    b4 = b4
    c5 = c5
    c6 = c6
    c7 = c7
    NoBlock = NoBlock
    Root = r
    Block <- SmallFork
    Number <- SmallForkNumber
    Parent <- SmallForkParent
    MaxReorgDepth = 2
    TeamSize = 2
    AllBranches = FALSE
    WithEvents = {b3}
    WithUnknown = {}
    WithContract = {b3}
    FaultKinds = {"index", "prune", "events", "crash", "server"}
    MaxFaults = 1
SPECIFICATION Spec
INVARIANTS CanonicalIsOneBranch ParentProcessedFirst ChainNeverPruned CanonicalBlockUnpruned ProcessedIsComplete
PROPERTY FollowsChain
CHECK_DEADLOCK FALSE
