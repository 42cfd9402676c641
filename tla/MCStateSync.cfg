CONSTANTS
    r = r
    s3 = s3
    s4 = s4
    a4 = a4
    b5 = b5
    b6 = b6
    b7 = b7
    token = token
    pool = pool
    job1 = job1
    job2 = job2
    cli = cli
    NoBlock = NoBlock
    NoState = NoState
    NoJob = NoJob
    Root = r
    Block <- Fork
    Number <- ForkNumber
    Parent <- ForkParent
    Contract = {token, pool}
    StartingBlock <- ForkStarts
    FirstContract = token
    Updates <- ForkUpdates
    MaxReorgDepth = 2
    CheckpointInterval = 2
    Caller = {job1, job2, cli}
    Command = {cli}
    MaxFaults = 1
SPECIFICATION FairSpec
INVARIANTS IndexedIsSettled CheckpointsMergeDiffs
PROPERTY HooksCatchUp
CHECK_DEADLOCK FALSE
