CONSTANTS
    r = r
    a2 = a2
    a3 = a3
    b2 = b2
    b3 = b3
    b4 = b4
    c5 = c5
    c6 = c6
    c7 = c7
    NoBlock = NoBlock
    Root = r
    Block <- NullRounds
    Number <- NullRoundsNumber
    Parent <- NullRoundsParent
    MaxReorgDepth = 2
    TeamSize = 5
    AllBranches = FALSE
    WithEvents <- NullRounds
    WithUnknown <- NullRounds
    WithContract = {}
    FaultKinds = {"prune"}
    MaxFaults = 1
SPECIFICATION FairSpec
INVARIANTS TypeOK ReorgWindowOpen OneBlockInFlight
PROPERTY ProcessedUnlessBlocked
