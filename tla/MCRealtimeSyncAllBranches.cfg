CONSTANTS
    r = r
    a2 = a2
    a3 = a3
    b2 = b2
    b3 = b3
    b4 = b4
    c5 = c5
    c6 = c6
    c7 = c7
    NoBlock = NoBlock
    Root = r
    Block <- SmallFork
    Number <- SmallForkNumber
    Parent <- SmallForkParent
    MaxReorgDepth = 2
    TeamSize = 5
    AllBranches = TRUE
    WithEvents = {a2, b2}
    WithUnknown = {}
    WithContract = {a2, b2}
    FaultKinds = {}
    MaxFaults = 0
SPECIFICATION FairSpec
PROPERTIES FollowsChain HeadHeightProcessed
