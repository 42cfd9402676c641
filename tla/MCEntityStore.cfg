CONSTANTS
    r = r
    c2 = c2
    a3 = a3
    b3 = b3
    a4 = a4
    b4 = b4
    b5 = b5
    b6 = b6
    pair = pair
    swap = swap
    user = user
    NoBlock = NoBlock
    NoVersion = NoVersion
    Root = r
    Block <- Fork
    Number <- ForkNumber
    Parent <- ForkParent
    Entity = {pair, swap, user}
    Operations <- SharedOperations
    MaxReorgDepth = 3
    ClearInterval = 5
    FaultKinds = {"handler", "status", "prune", "crash", "back"}
    MaxFaults = 1
SPECIFICATION Spec
INVARIANTS VersionsFollowBranch ReadsFollowBranch ListsFollowBranch TablesAgree
CHECK_DEADLOCK FALSE
