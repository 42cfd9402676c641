-------------------------- MODULE RealtimeSyncProofs --------------------------
(***************************************************************************)
(* Theorems about RealtimeSync, for every tree of blocks and every value of *)
(* the other constants.                                                     *)
(***************************************************************************)
EXTENDS RealtimeSync, BlockTreeProofs, FiniteSetTheorems, SequenceTheorems, TLAPS

-------------------------------------------------------------------------------
(* The jobs, the rows and the blocks the actions compute.                   *)

LEMMA JobsTyped ==
    ASSUME NEW n \in Nat, NEW p \in Nat, NEW b \in Block
    PROVE  /\ ByNumber(n) \in Job
           /\ ByHash(b, p) \in Job
           /\ Prune(n, p) \in Job
BY BlockTreeAssumption DEF ByNumber, ByHash, Prune, Job

LEMMA RecordsTyped == Idle \in Worker /\ NoEvents \in EventWorker
BY DEF Worker, EventWorker

LEMMA SyncTyped ==
    ASSUME sync \in SyncStatus,
           NEW n \in Nat, NEW b \in Block, NEW c \in Block \cup {NoBlock}
    PROVE  /\ WithChainHead(n, c) \in SyncStatus
           /\ WithIndexed(n) \in SyncStatus
           /\ WithCanonical(n, c) \in SyncStatus
           /\ WithProcessed(b) \in SyncStatus
           /\ ResetTo(b) \in SyncStatus
<1>1. NoSync \in SyncStatus
  BY DEF NoSync, SyncStatus
<1>2. Number[b] \in Nat
  BY BlockTreeAssumption
<1>3. WithChainHead(n, c) \in SyncStatus
  BY <1>1 DEF WithChainHead, SyncStatus
<1>4. WithIndexed(n) \in SyncStatus
  BY DEF WithIndexed, SyncStatus
<1>5. WithCanonical(n, c) \in SyncStatus
  BY DEF WithCanonical, SyncStatus
<1>6. WithProcessed(b) \in SyncStatus
  BY <1>2 DEF WithProcessed, SyncStatus
<1>7. ResetTo(b) \in SyncStatus
  BY <1>2 DEF ResetTo, SyncStatus
<1> QED
  BY <1>3, <1>4, <1>5, <1>6, <1>7

LEMMA FetchedTyped ==
    ASSUME head \in Block, published \subseteq Block, NEW n \in Nat
    PROVE  FetchedFrom(n) \subseteq Block
BY AncestorsTyped DEF FetchedFrom, Lowest

LEMMA CanonicalTyped ==
    ASSUME saved \subseteq Block, NEW h \in Nat
    PROVE  Canonical(h, BlocksAtHeight(h)) \subseteq Block \cup {NoBlock}
<1>1. \A b \in Block : StoredAncestor(b, h) \subseteq Block
  BY AncestorsTyped DEF StoredAncestor, Lowest
<1>2. IndexedForPrune(h) \subseteq Block
  BY DEF IndexedForPrune, Highest, Unpruned
<1>3. BlocksAtHeight(h) \subseteq Block
  BY DEF BlocksAtHeight, AtHeight, Unpruned
<1> QED
  BY <1>1, <1>2, <1>3 DEF Canonical

-------------------------------------------------------------------------------
(* Type correctness.                                                        *)

LEMMA TaskTyped ==
    ASSUME TypeOK, NEW t \in tasks
    PROVE  /\ t.block \in Block
           /\ t.job \in Job
           /\ t.job.priority \in Nat
<1>1. t \in Task
  BY DEF TypeOK
<1> QED
  BY <1>1 DEF Task, Job

LEMMA ActiveTyped ==
    ASSUME TypeOK
    PROVE  /\ active.job \in Job
           /\ active.job.height \in Nat
           /\ active.keep \in Block \cup {NoBlock}
<1>1. ByNumber(0) \in Job
  BY DEF ByNumber, Job
<1>2. active.job \in Job /\ active.keep \in Block \cup {NoBlock}
  BY <1>1 DEF TypeOK, Worker, Idle
<1> QED
  BY <1>2 DEF Job

LEMMA FailedJobTyped ==
    ASSUME TypeOK, FailBlockJob
    PROVE  active' \in Worker /\ blockRetries' \subseteq Job
BY ActiveTyped, RecordsTyped DEF TypeOK, FailBlockJob

LEMMA FailedTaskTyped ==
    ASSUME TypeOK, NEW t \in tasks, FailTask(t)
    PROVE  tasks' \subseteq Task /\ active' \in Worker /\ blockRetries' \subseteq Job
<1>1. \A u \in Task : [u EXCEPT !.waited = FALSE] \in Task
  BY DEF Task
<1> QED
  BY <1>1, FailedJobTyped DEF TypeOK, FailTask

LEMMA MovedTaskTyped ==
    ASSUME TypeOK, NEW t \in tasks,
           NEW stage \in {"check", "load", "save", "push"}
    PROVE  Move(t, stage) \subseteq Task
BY DEF TypeOK, Move, Task

LEMMA ResetTyped ==
    ASSUME TypeOK, NEW n \in Nat, ResetWatcherToBlock(n)
    PROVE  /\ saved' \subseteq Block
           /\ complete' \subseteq saved'
           /\ pruned' \subseteq saved'
           /\ trimmed' \subseteq saved'
           /\ sync' \in SyncStatus
<1>1. BlocksAtHeight(n) \subseteq Block
  BY DEF TypeOK, BlocksAtHeight, AtHeight, Unpruned
<1>2. sync' \in SyncStatus
  BY <1>1, SyncTyped DEF TypeOK, ResetWatcherToBlock
<1> QED
  BY <1>2 DEF TypeOK, ResetWatcherToBlock, KeptByReset

\* Each step of the system keeps every variable in its type.
LEMMA TypeStep == TypeOK /\ [Next]_vars => TypeOK'
<1> SUFFICES ASSUME TypeOK, [Next]_vars
             PROVE  TypeOK'
  OBVIOUS
<1>a. /\ active.job \in Job
      /\ active.job.height \in Nat
      /\ active.keep \in Block \cup {NoBlock}
  BY ActiveTyped
<1> USE DEF TypeOK, chainVars, tableVars, dbVars, blockQueue, eventQueue,
            completions, queueVars, blockWorker, memoryVars, processVars
<1>1. ASSUME NEW b \in Block, AdvanceHead(b)
      PROVE  TypeOK'
  BY <1>1, AncestorsTyped DEF AdvanceHead
<1>2. CASE FetchBatch
  BY <1>2 DEF FetchBatch
<1>3. ASSUME NEW j \in batch, TakeBlockJob(j)
      PROVE  TypeOK'
  <2>1. j \in Job /\ j.kind \in {"number", "hash", "prune"}
    BY DEF Job
  <2>2. active' \in Worker
    BY <1>3, <2>1 DEF TakeBlockJob, Worker
  <2>3. tasks' \subseteq Task
    <3> DEFINE t == Call(j, j.block)
    <3>1. j.kind = "hash" => j.block \in Block
      BY <2>1 DEF Job
    <3>2. j.kind = "hash" => t \in Task
      BY <2>1, <3>1 DEF Call, Task
    <3>3. tasks' = IF j.kind = "hash" THEN tasks \cup {t} ELSE tasks
      BY <1>3 DEF TakeBlockJob
    <3> QED
      BY <3>2, <3>3
  <2> QED
    BY <1>3, <2>2, <2>3 DEF TakeBlockJob
<1>4. CASE FetchBlocksAtHeight
  <2> DEFINE blocks == FetchedFrom(active.job.height)
  <2>1. active.job \in Job /\ active.job.height \in Nat
    BY <1>a
  <2>2. blocks \subseteq Block
    BY <2>1, FetchedTyped
  <2>3. sync' \in SyncStatus
    BY <1>4, <2>2, SyncTyped, BlockTreeAssumption DEF FetchBlocksAtHeight
  <2>4. tasks' \subseteq Task
    <3>1. \A b \in blocks : Call(active.job, b) \in Task
      BY <2>1, <2>2 DEF Call, Task
    <3> QED
      BY <1>4, <3>1 DEF FetchBlocksAtHeight
  <2>5. active' \in Worker
    BY <1>4 DEF FetchBlocksAtHeight, Worker, Idle
  <2>6. prefetched' \in [Block -> {"absent", "fetched", "saved"}]
    BY <1>4 DEF FetchBlocksAtHeight
  <2> QED
    BY <1>4, <2>3, <2>4, <2>5, <2>6 DEF FetchBlocksAtHeight
<1>5. CASE GiveUpOnNewBlock
  BY <1>5, FailedJobTyped DEF GiveUpOnNewBlock
<1>6. ASSUME NEW t \in tasks, IndexBlockStep(t)
      PROVE  TypeOK'
  <2>1. /\ t.block \in Block
        /\ t.job.priority \in Nat
    BY TaskTyped
  <2>2. CASE CheckPruning(t)
    <3>1. Prune(sync.canonical + 1, t.job.priority + 1) \in Job
      BY <2>1 DEF Prune, Job, SyncStatus
    <3> QED
      BY <2>2, <3>1, FailedTaskTyped DEF CheckPruning
  <2>3. CASE IndexParentFirst(t)
    <3> DEFINE p == Parent[t.block]
    <3>1. ASSUME p \in Block
          PROVE  ByHash(p, t.job.priority + 1) \in Job
      BY <2>1, <3>1, JobsTyped
    <3>2. prefetched' \in [Block -> {"absent", "fetched", "saved"}]
      BY <2>3 DEF IndexParentFirst
    <3> QED
      BY <2>3, <3>1, <3>2 DEF IndexParentFirst, EndTask
  <2>4. CASE CheckBlock(t)
    BY <2>4, FailedTaskTyped, MovedTaskTyped DEF CheckBlock
  <2>5. CASE LoadBlock(t)
    BY <2>5, MovedTaskTyped DEF LoadBlock
  <2>6. CASE SaveBlock(t)
    BY <2>6, <2>1, MovedTaskTyped DEF SaveBlock
  <2>7. CASE SaveBlockAgain(t)
    BY <2>7, FailedTaskTyped DEF SaveBlockAgain
  <2>8. CASE PushEventsJob(t)
    BY <2>8, <2>1, AppendProperties DEF PushEventsJob, EndTask
  <2> QED
    BY <1>6, <2>2, <2>3, <2>4, <2>5, <2>6, <2>7, <2>8 DEF IndexBlockStep
<1>7. CASE FinishIndexJob
  BY <1>7, <1>a, RecordsTyped DEF FinishIndexJob
<1>8. CASE PruneThrows
  BY <1>8, FailedJobTyped DEF PruneThrows
<1>9. CASE PruneSkip
  BY <1>9, RecordsTyped DEF PruneSkip
<1>10. CASE PruneMark
  <2> DEFINE h == active.job.height
  <2>1. h \in Nat
    BY <1>a
  <2>2. BlocksAtHeight(h) \subseteq saved
    BY DEF BlocksAtHeight, AtHeight, Unpruned
  <2>3. pruned' \subseteq saved
    BY <1>10, <2>2 DEF PruneMark, Discarded
  <2>4. active' \in Worker
    <3>1. PICK b \in Canonical(h, BlocksAtHeight(h)) :
              active' = [active EXCEPT !.stage = "commit", !.keep = b]
      BY <1>10 DEF PruneMark
    <3>2. b \in Block \cup {NoBlock}
      BY <2>1, <3>1, CanonicalTyped
    <3>3. active # Idle
      BY <1>10 DEF PruneMark, Idle
    <3> QED
      BY <3>1, <3>2, <3>3 DEF Worker
  <2> QED
    BY <1>10, <2>3, <2>4 DEF PruneMark
<1>11. CASE PruneCommit
  BY <1>11, <1>a, SyncTyped, RecordsTyped, BlockTreeAssumption
  DEF PruneCommit
<1>12. CASE TakeEventsJob
  <2>1. Head(eventJobs) \in Block /\ Tail(eventJobs) \in Seq(Block)
    BY <1>12, HeadTailProperties DEF TakeEventsJob
  <2>2. eventRetries' \subseteq Block
    BY <1>12, <2>1 DEF TakeEventsJob
  <2>3. eventActive' \in EventWorker
    <3>1. CASE UNCHANGED eventActive
      BY <3>1
    <3>2. CASE StartEvents(Head(eventJobs), FALSE)
      BY <2>1, <3>2 DEF StartEvents, EventWorker
    <3> QED
      BY <1>12, <3>1, <3>2 DEF TakeEventsJob
  <2> QED
    BY <1>12, <2>1, <2>2, <2>3 DEF TakeEventsJob
<1>13. ASSUME NEW b \in eventRetries, RetryEventsJob(b)
       PROVE  TypeOK'
  BY <1>13 DEF RetryEventsJob, StartEvents, EventWorker
<1>14. CASE ProcessEvents
  <2>1. eventActive' \in EventWorker
    BY <1>14 DEF ProcessEvents, EventWorker, NoEvents
  <2>2. prefetched' \in [Block -> {"absent", "fetched", "saved"}]
    BY <1>14 DEF ProcessEvents
  <2> QED
    BY <1>14, <2>1, <2>2 DEF ProcessEvents
<1>15. CASE UpdateProcessed
  <2>1. eventActive.block \in Block
    BY <1>15 DEF UpdateProcessed, EventWorker, NoEvents
  <2>2. sync' \in SyncStatus
    BY <1>15, <2>1, SyncTyped DEF UpdateProcessed
  <2>3. eventActive' \in EventWorker
    BY <1>15 DEF UpdateProcessed, FinishEventsJob, EventWorker, NoEvents
  <2>4. eventsDone' \subseteq Block
    BY <1>15, <2>1 DEF UpdateProcessed, FinishEventsJob
  <2>5. eventJobs' \in Seq(Block) /\ eventRetries' \subseteq Block
    BY <1>15, EmptySeq DEF UpdateProcessed
  <2> QED
    BY <1>15, <2>2, <2>3, <2>4, <2>5 DEF UpdateProcessed
<1>16. CASE ResetAfterRetry
  <2>1. eventActive.block \in Block
    BY <1>16 DEF ResetAfterRetry, EventWorker, NoEvents
  <2>2. Number[eventActive.block] \in Nat
    BY <2>1, BlockTreeAssumption
  <2> QED
    BY <1>16, <2>1, <2>2, ResetTyped, RecordsTyped
    DEF ResetAfterRetry, FinishEventsJob
<1>17. ASSUME CatchEventsError, eventActive.stage # "idle",
              faults' \in 0..MaxFaults
       PROVE  TypeOK'
  <2>1. eventActive.block \in Block
    BY <1>17 DEF EventWorker, NoEvents
  <2> QED
    BY <1>17, <2>1, RecordsTyped, EmptySeq DEF CatchEventsError
<1>18. CASE EventsThrow
  BY <1>17, <1>18 DEF EventsThrow
<1>19. ASSUME NEW jobs \in SUBSET blockRetries, Redeliver(jobs)
       PROVE  TypeOK'
  BY <1>19 DEF Redeliver
<1>20. ASSUME NEW j \in indexDone, HandleIndexDone(j)
       PROVE  TypeOK'
  <2>1. j.height \in Nat /\ j.priority \in Nat
    BY DEF Job
  <2>2. sync' \in SyncStatus
    BY <1>20, <2>1, SyncTyped, BlockTreeAssumption DEF HandleIndexDone
  <2>3. Prune(sync.canonical + 1, j.priority + 1) \in Job
    BY <2>1 DEF Prune, Job, SyncStatus
  <2> QED
    BY <1>20, <2>2, <2>3 DEF HandleIndexDone
<1>21. ASSUME NEW b \in eventsDone, HandleEventsDone(b)
       PROVE  TypeOK'
  <2>1. ByNumber(Number[b] + 1) \in Job
    BY BlockTreeAssumption DEF ByNumber, Job
  <2> QED
    BY <1>21, <2>1 DEF HandleEventsDone
<1>22. CASE StartRunner
  <2>1. ASSUME HasSync
        PROVE  Number[sync.processedBlock] \in Nat
    BY <1>22, <2>1, BlockTreeAssumption DEF StartRunner, CanStart
  <2> QED
    BY <1>22, <2>1, ResetTyped, EmptySeq DEF StartRunner, DeleteAllJobs
<1>23. CASE StartServer
  <2>1. ByNumber(IF HasSync THEN sync.chainHead + 1 ELSE Number[Root]) \in Job
    BY BlockTreeAssumption DEF ByNumber, Job, SyncStatus
  <2>2. eventActive' \in EventWorker
    <3>1. eventActive' = [eventActive EXCEPT !.live = FALSE]
      BY <1>23 DEF StartServer
    <3>2. [NoEvents EXCEPT !.live = FALSE] = NoEvents
      <4>1. NoEvents.live = FALSE
        BY DEF NoEvents
      <4>2. NoEvents = [x \in DOMAIN NoEvents |-> NoEvents[x]]
        BY DEF NoEvents
      <4> QED
        BY <4>1, <4>2
    <3>3. CASE eventActive = NoEvents
      BY <3>1, <3>2, <3>3, RecordsTyped
    <3>4. CASE eventActive # NoEvents
      BY <3>1, <3>4 DEF EventWorker
    <3> QED
      BY <3>3, <3>4
  <2> QED
    BY <1>23, <2>1, <2>2, EmptySeq DEF StartServer, DeleteAllJobs
<1>24. ASSUME NEW kind, Faulty(kind)
       PROVE  faults' \in 0..MaxFaults
  BY <1>24, RealtimeSyncAssumption DEF Faulty
<1>25. CASE Fault
  <2>1. ASSUME NEW t \in tasks, TaskFails(t)
        PROVE  TypeOK'
    BY <1>24, <2>1, FailedTaskTyped DEF TaskFails
  <2>2. CASE FinishIndexJobFails
    BY <1>24, <2>2, FailedJobTyped DEF FinishIndexJobFails
  <2>3. CASE PruneFails
    BY <1>24, <2>3, FailedJobTyped DEF PruneFails
  <2>4. CASE EventsFail
    BY <1>17, <1>24, <2>4 DEF EventsFail
  <2>5. CASE Crash
    BY <1>24, <2>5, RecordsTyped DEF Crash
  <2>6. CASE ServerCrash
    BY <1>24, <2>6 DEF ServerCrash
  <2> QED
    BY <1>25, <2>1, <2>2, <2>3, <2>4, <2>5, <2>6 DEF Fault
<1>26. CASE UNCHANGED vars
  BY <1>26 DEF vars
<1> QED
  BY <1>1, <1>2, <1>3, <1>4, <1>5, <1>6, <1>7, <1>8, <1>9, <1>10, <1>11,
     <1>12, <1>13, <1>14, <1>15, <1>16, <1>18, <1>19, <1>20, <1>21, <1>22,
     <1>23, <1>25, <1>26
  DEF Next, BlockWorkerStep, EventWorkerStep, RetryDelayOver, ServerStep,
      Restart

\* Every variable keeps its type: the rows of the three block tables stay in
\* block_progress, a hash job and an events job always name a block, and the
\* status row holds heights and hashes.
THEOREM TypeCorrect == Spec => []TypeOK
<1>1. Init => TypeOK
  <2> SUFFICES ASSUME Init
               PROVE  TypeOK
    OBVIOUS
  <2>1. ByNumber(Number[Root]) \in Job
    BY BlockTreeAssumption DEF ByNumber, Job
  <2>2. NoSync \in SyncStatus
    BY DEF NoSync, SyncStatus
  <2>3. eventJobs \in Seq(Block)
    BY EmptySeq DEF Init
  <2>4. prefetched \in [Block -> {"absent", "fetched", "saved"}]
    BY DEF Init
  <2>5. head \in Block /\ published \subseteq Block
    BY BlockTreeAssumption DEF Init
  <2>6. faults \in 0..MaxFaults
    BY RealtimeSyncAssumption DEF Init
  <2>7. /\ sync \in SyncStatus
        /\ blockJobs \subseteq Job
        /\ active \in Worker
        /\ eventActive \in EventWorker
    BY <2>1, <2>2, RecordsTyped DEF Init
  <2>8. live \in BOOLEAN /\ runnerUp \in BOOLEAN /\ serverUp \in BOOLEAN
    BY DEF Init
  <2> QED
    BY <2>3, <2>4, <2>5, <2>6, <2>7, <2>8 DEF Init, TypeOK
<1> QED
  BY <1>1, TypeStep, PTL DEF Spec

-------------------------------------------------------------------------------
(***************************************************************************)
(* Pruning never reaches into the heights a reorg may still replace, with   *)
(* both kinds of upstream, and whatever fails.                              *)
(***************************************************************************)

Jobs == blockJobs \cup blockRetries \cup batch \cup indexDone

\* the upstream had the ancestors of a block when it had the block
ChainKnown ==
    /\ head \in published
    /\ \A b \in published : /\ Ancestors[b] \subseteq published
                            /\ Number[b] <= Number[head]

\* every block a row, a job or a call names comes from the upstream
BlocksKnown ==
    /\ saved \subseteq published
    /\ \A j \in Jobs \cup {active.job} :
           j.kind = "hash" => j.block \in published
    /\ \A t \in tasks : t.block \in published

HeightsReached ==
    /\ sync.indexed <= Number[head]
    /\ active.stage = "commit"
           => active.job.height + MaxReorgDepth <= Number[head]

\* before the row of the sync status is created there is but the first job
FirstJob == ByNumber(Number[Root])

FreshStart ==
    ~HasSync => /\ saved = {}
                /\ tasks = {}
                /\ Jobs \subseteq {FirstJob}
                /\ active = Idle \/ active.job = FirstJob

WindowInv ==
    ChainKnown /\ BlocksKnown /\ HeightsReached /\ ReorgWindowOpen /\ FreshStart

-------------------------------------------------------------------------------
\* the blocks a request by number returns are the upstream's
LEMMA FetchedKnown ==
    ASSUME TypeOK, ChainKnown, NEW n \in Nat
    PROVE  FetchedFrom(n) \subseteq published
BY DEF ChainKnown, FetchedFrom, Lowest

\* the first request returns blocks of the number of the root
LEMMA FirstFetched ==
    ASSUME TypeOK, ChainKnown, NEW b \in FetchedFrom(Number[Root])
    PROVE  Number[b] = Number[Root]
<1> DEFINE served == IF AllBranches THEN published ELSE Ancestors[head]
<1>1. head \in Block /\ Root \in Ancestors[head] /\ Root \in Block
  BY RootAssumption, BlockTreeAssumption DEF TypeOK
<1>2. Root \in served /\ served \subseteq Block
  BY <1>1, AncestorsTyped DEF TypeOK, ChainKnown
<1>3. Number[Root] \in Nat
  BY <1>1, BlockTreeAssumption
<1>4. Root \in {a \in served : Number[a] >= Number[Root]}
  BY <1>2, <1>3
<1>5. /\ b \in served /\ Number[b] >= Number[Root]
      /\ Number[b] <= Number[Root]
  BY <1>4 DEF FetchedFrom, Lowest
<1>6. Number[b] \in Nat
  BY <1>2, <1>5, BlockTreeAssumption
<1> QED
  BY <1>3, <1>5, <1>6

\* a reset does not raise a height, and finds the sync status in its table
LEMMA ResetKeepsWindow ==
    ASSUME TypeOK, WindowInv, NEW n \in Nat, ResetWatcherToBlock(n),
           UNCHANGED <<head, published>>
    PROVE  /\ HasSync /\ HasSync'
           /\ saved' \subseteq saved
           /\ sync'.indexed <= Number[head]
           /\ ReorgWindowOpen'
<1>1. PICK b \in BlocksAtHeight(n) : sync' = ResetTo(b)
  BY DEF ResetWatcherToBlock
<1>2. b \in saved /\ b \in published /\ Number[b] = n
  BY <1>1 DEF BlocksAtHeight, AtHeight, Unpruned, WindowInv, BlocksKnown
<1>3. b \in Block /\ head \in Block
  BY <1>2 DEF TypeOK
<1>4. HasSync
  BY <1>2 DEF WindowInv, FreshStart
<1>5. Number[Root] <= n /\ n <= Number[head] /\ n # 0
  <2>1. Number[Root] <= n
    BY <1>2, <1>3, RootLowest, BlockTreeAssumption
  <2> QED
    BY <1>2, <1>3, <2>1, BlockTreeAssumption DEF WindowInv, ChainKnown
<1>6. Number[Root] \in Nat /\ Number[head] \in Nat /\ MaxReorgDepth \in Nat
  BY <1>3, BlockTreeAssumption, RealtimeSyncAssumption
<1>7. /\ sync.indexed \in Int /\ sync.indexed <= Number[head]
      /\ sync.canonical \in Nat
      /\ \/ sync.canonical = Number[Root]
         \/ sync.canonical + MaxReorgDepth <= Number[head]
  BY <1>4 DEF TypeOK, SyncStatus, WindowInv, HeightsReached, ReorgWindowOpen
<1>8. /\ sync'.chainHead = n
      /\ sync'.indexed = IF sync.indexed > n THEN n ELSE sync.indexed
      /\ sync'.canonical = IF sync.canonical > n THEN n ELSE sync.canonical
  BY <1>1, <1>2 DEF ResetTo
<1>9. saved' \subseteq saved
  BY DEF ResetWatcherToBlock, KeptByReset
<1>10. HasSync'
  BY <1>5, <1>8 DEF HasSync
<1>11. /\ sync'.indexed <= Number[head]
       /\ \/ sync'.canonical = Number[Root]
          \/ sync'.canonical + MaxReorgDepth <= Number[head]
  BY <1>5, <1>6, <1>7, <1>8
<1> QED
  BY <1>4, <1>9, <1>10, <1>11 DEF ReorgWindowOpen

\* what every step but those of the upstream and of a reset has to show
LEMMA QuietStep ==
    ASSUME TypeOK, WindowInv,
           UNCHANGED <<head, published, saved>>,
           UNCHANGED <<sync.chainHead, sync.canonical>>,
           sync'.indexed <= Number[head],
           \/ active' \in {Idle, active}
           \/ /\ active'.stage # "commit"
              /\ \/ active'.job = active.job /\ active # Idle
                 \/ active'.job \in batch,
           \A j \in Jobs' : \/ j \in Jobs
                            \/ j = active.job /\ active # Idle
                            \/ j.kind # "hash" /\ HasSync
                            \/ j.block \in published /\ HasSync,
           \A t \in tasks' : t.block \in published /\ HasSync
    PROVE  WindowInv'
<1>1. ChainKnown'
  BY DEF WindowInv, ChainKnown
<1>2. HasSync' <=> HasSync
  BY DEF HasSync
<1>3. BlocksKnown'
  <2>1. Idle.job.kind # "hash"
    BY DEF Idle, ByNumber
  <2>2. ASSUME NEW j \in Jobs' \cup {active'.job}, j.kind = "hash"
        PROVE  j.block \in published
    BY <2>1, <2>2 DEF WindowInv, BlocksKnown, Jobs
  <2> QED
    BY <2>2 DEF WindowInv, BlocksKnown
<1>4. HeightsReached'
  BY DEF WindowInv, HeightsReached, Idle
<1>5. ReorgWindowOpen'
  BY <1>2 DEF WindowInv, ReorgWindowOpen
<1>6. FreshStart'
  BY <1>2 DEF WindowInv, FreshStart, Jobs
<1> QED
  BY <1>1, <1>3, <1>4, <1>5, <1>6 DEF WindowInv

\* a failing job goes back to its queue
LEMMA FailedJobQuiet ==
    ASSUME FailBlockJob
    PROVE  /\ active' = Idle
           /\ \A j \in blockRetries' : j \in blockRetries \/ j = active.job
BY DEF FailBlockJob

\* a failing call of _indexBlock ends, and fails the job that waits for it
LEMMA FailedTaskQuiet ==
    ASSUME TypeOK, WindowInv, NEW t \in tasks, FailTask(t)
    PROVE  /\ active' = active \/ active' = Idle
           /\ \A j \in blockRetries' : j \in blockRetries \/ j = active.job
           /\ \A u \in tasks' : u.block \in published
<1>1. \A u \in tasks : u \in Task
  BY DEF TypeOK
<1>2. \A u \in tasks : [u EXCEPT !.waited = FALSE].block = u.block
  BY <1>1 DEF Task
<1>3. ASSUME NEW u \in tasks'
      PROVE  u.block \in published
  <2>1. PICK v \in tasks : u = v \/ u = [v EXCEPT !.waited = FALSE]
    BY <1>3 DEF FailTask
  <2> QED
    BY <1>2, <2>1 DEF WindowInv, BlocksKnown
<1> QED
  BY <1>3 DEF FailTask, FailBlockJob


\* Each step keeps the window open.
LEMMA WindowStep == TypeOK /\ WindowInv /\ [Next]_vars => WindowInv'
<1> SUFFICES ASSUME TypeOK, WindowInv, [Next]_vars
             PROVE  WindowInv'
  OBVIOUS
<1>a. /\ sync.indexed <= Number[head]
      /\ \A t \in tasks : t.block \in published /\ HasSync
      /\ \A j \in Jobs \cup {active.job} :
             j.kind = "hash" => j.block \in published
  BY DEF WindowInv, HeightsReached, BlocksKnown, FreshStart
<1>b. /\ head \in Block
      /\ active.job \in Job
      /\ active.job.height \in Nat
      /\ \A j \in Jobs : j \in Job
  BY ActiveTyped DEF TypeOK, Jobs
<1> USE DEF chainVars, tableVars, dbVars, blockQueue, eventQueue,
            completions, queueVars, blockWorker, memoryVars, processVars
<1>1. ASSUME NEW b \in Block, AdvanceHead(b)
      PROVE  WindowInv'
  <2>1. Number[head] \in Nat /\ Number[b] \in Nat /\ Number[head] <= Number[b]
    BY <1>b, <1>1, BlockTreeAssumption DEF AdvanceHead
  <2>2. ASSUME NEW a \in Ancestors[b]
        PROVE  Number[a] <= Number[b] /\ Ancestors[a] \subseteq Ancestors[b]
    <3>1. Number[a] <= Number[b]
      BY <2>1, AncestorsBelow, AncestorsTyped, BlockTreeAssumption
    <3>2. Ancestors[a] \subseteq Ancestors[b]
      BY AncestorsTransitive
    <3> QED
      BY <3>1, <3>2
  <2>3. b \in Ancestors[b] /\ Ancestors[b] \subseteq Block
    BY AncestorsClosed, AncestorsTyped
  <2>4. ChainKnown'
    <3>1. ASSUME NEW a \in published
          PROVE  Number[a] <= Number[b]
      BY <2>1, <3>1, BlockTreeAssumption DEF TypeOK, WindowInv, ChainKnown
    <3> QED
      BY <1>1, <2>2, <2>3, <3>1 DEF AdvanceHead, WindowInv, ChainKnown
  <2>5. BlocksKnown'
    BY <1>1 DEF AdvanceHead, WindowInv, BlocksKnown, Jobs
  <2>6. HeightsReached' /\ ReorgWindowOpen'
    BY <1>1, <1>b, <2>1, RealtimeSyncAssumption
    DEF AdvanceHead, WindowInv, HeightsReached, ReorgWindowOpen, HasSync,
        TypeOK, SyncStatus
  <2>7. FreshStart'
    BY <1>1 DEF AdvanceHead, WindowInv, FreshStart, HasSync, Jobs
  <2> QED
    BY <2>4, <2>5, <2>6, <2>7 DEF WindowInv
<1>2. CASE FetchBatch
  BY <1>2, <1>a, QuietStep DEF FetchBatch, Jobs
<1>3. ASSUME NEW j \in batch, TakeBlockJob(j)
      PROVE  WindowInv'
  <2>1. active'.stage # "commit" /\ active'.job = j /\ j \in Job
    BY <1>3, <1>b DEF TakeBlockJob, Job, Jobs
  <2>2. j.kind = "hash" => j.block \in published /\ HasSync
    BY <1>a DEF WindowInv, FreshStart, FirstJob, ByNumber, Jobs
  <2>3. \A t \in tasks' : t.block \in published /\ HasSync
    BY <1>3, <1>a, <2>2 DEF TakeBlockJob, Call
  <2> QED
    BY <1>3, <1>a, <2>1, <2>3, QuietStep DEF TakeBlockJob, Jobs
<1>4. CASE FetchBlocksAtHeight
  <2> DEFINE blocks == FetchedFrom(active.job.height)
  <2>1. blocks \subseteq published /\ blocks \subseteq Block
    BY <1>b, FetchedKnown, FetchedTyped DEF WindowInv, TypeOK
  <2>2. active # Idle /\ active'.stage = "index" /\ active'.job = active.job
    BY <1>4 DEF FetchBlocksAtHeight, Idle, TypeOK, Worker
  <2>3. PICK b \in blocks : sync' = WithChainHead(Number[b], b)
    BY <1>4 DEF FetchBlocksAtHeight
  <2>4. Number[b] \in Nat \ {0}
    BY <2>1, BlockTreeAssumption
  <2>5. /\ sync'.chainHead # 0
        /\ sync'.indexed = sync.indexed \/ sync'.indexed = -1
        /\ IF HasSync THEN sync'.canonical = sync.canonical
                      ELSE sync'.canonical = Number[b]
    BY <2>3, <2>4 DEF WithChainHead, HasSync, NoSync, TypeOK, SyncStatus
  <2>6. ~HasSync => active.job.height = Number[Root]
    BY <2>2 DEF WindowInv, FreshStart, FirstJob, ByNumber
  <2>7. ReorgWindowOpen'
    BY <1>4, <2>5, <2>6, FirstFetched
    DEF FetchBlocksAtHeight, WindowInv, ReorgWindowOpen, HasSync
  <2>8. BlocksKnown'
    <3>1. \A t \in tasks' : t.block \in published
      BY <1>4, <1>a, <2>1 DEF FetchBlocksAtHeight, Call
    <3>2. UNCHANGED <<saved, published, Jobs>>
      BY <1>4 DEF FetchBlocksAtHeight, Jobs
    <3> QED
      BY <2>2, <3>1, <3>2 DEF WindowInv, BlocksKnown
  <2>9. ChainKnown' /\ FreshStart'
    BY <1>4, <2>5
    DEF FetchBlocksAtHeight, WindowInv, ChainKnown, FreshStart, HasSync
  <2>10. HeightsReached'
    <3>1. head' = head /\ Number[head] \in Nat
      BY <1>4, <1>b, BlockTreeAssumption DEF FetchBlocksAtHeight
    <3> QED
      BY <1>a, <2>2, <2>5, <3>1 DEF HeightsReached
  <2> QED
    BY <2>7, <2>8, <2>9, <2>10 DEF WindowInv
<1>5. CASE GiveUpOnNewBlock
  BY <1>5, <1>a, FailedJobQuiet, QuietStep DEF GiveUpOnNewBlock, Jobs, Idle
<1>7. CASE FinishIndexJob
  BY <1>7, <1>a, QuietStep DEF FinishIndexJob, AllIndexed, Jobs, Idle
<1>8. CASE PruneThrows
  BY <1>8, <1>a, FailedJobQuiet, QuietStep DEF PruneThrows, Jobs, Idle
<1>9. CASE PruneSkip
  BY <1>9, <1>a, QuietStep DEF PruneSkip, Jobs
<1>6. ASSUME NEW t \in tasks, IndexBlockStep(t)
      PROVE  WindowInv'
  <2>1. t \in Task /\ t.block \in Block /\ t.block \in published /\ HasSync
    BY <1>a, TaskTyped DEF TypeOK
  <2>2. ASSUME NEW stage, NEW u \in Move(t, stage)
        PROVE  u.block \in published
    BY <1>a, <2>1, <2>2 DEF Move, Task
  <2>3. CASE CheckPruning(t)
    BY <1>a, <2>1, <2>3, FailedTaskQuiet, QuietStep
    DEF CheckPruning, Jobs, Prune
  <2>4. CASE IndexParentFirst(t)
    <3>1. ASSUME Parent[t.block] \in Block
          PROVE  Parent[t.block] \in published
      <4>1. t.block # Root
        BY <3>1, BlockTreeAssumption
      <4>2. Parent[t.block] \in Ancestors[t.block]
        BY <2>1, <4>1, AncestorsClosed DEF ParentClosed
      <4> QED
        BY <2>1, <4>2 DEF WindowInv, ChainKnown
    <3> QED
      BY <1>a, <2>1, <2>4, <3>1, QuietStep
      DEF IndexParentFirst, EndTask, Jobs, ByHash
  <2>5. CASE CheckBlock(t)
    BY <1>a, <2>1, <2>2, <2>5, FailedTaskQuiet, QuietStep DEF CheckBlock, Jobs
  <2>6. CASE LoadBlock(t)
    BY <1>a, <2>1, <2>2, <2>6, QuietStep DEF LoadBlock, Jobs
  <2>7. CASE SaveBlock(t)
    <3>1. ChainKnown' /\ HeightsReached' /\ ReorgWindowOpen' /\ FreshStart'
      BY <2>1, <2>7
      DEF SaveBlock, WindowInv, ChainKnown, HeightsReached, ReorgWindowOpen,
          FreshStart, HasSync
    <3>2. BlocksKnown'
      BY <2>1, <2>2, <2>7 DEF SaveBlock, WindowInv, BlocksKnown, Jobs
    <3> QED
      BY <3>1, <3>2 DEF WindowInv
  <2>8. CASE SaveBlockAgain(t)
    BY <1>a, <2>1, <2>8, FailedTaskQuiet, QuietStep DEF SaveBlockAgain, Jobs
  <2>9. CASE PushEventsJob(t)
    BY <1>a, <2>1, <2>9, QuietStep DEF PushEventsJob, EndTask, Jobs
  <2> QED
    BY <1>6, <2>3, <2>4, <2>5, <2>6, <2>7, <2>8, <2>9 DEF IndexBlockStep
<1>10. CASE PruneMark
  <2>1. active.job.height + MaxReorgDepth <= Number[head]
    BY <1>10, <1>a, <1>b, BlockTreeAssumption, RealtimeSyncAssumption
    DEF PruneMark, PruneSafe, TypeOK, SyncStatus
  <2>2. active # Idle /\ active'.job = active.job
    BY <1>10 DEF PruneMark, Idle, TypeOK, Worker
  <2>3. HeightsReached'
    BY <1>10, <2>1, <2>2 DEF PruneMark, WindowInv, HeightsReached
  <2> QED
    BY <1>10, <2>2, <2>3
    DEF PruneMark, WindowInv, ChainKnown, BlocksKnown, ReorgWindowOpen,
        FreshStart, HasSync, Jobs
<1>11. CASE PruneCommit
  <2>1. active.job.height + MaxReorgDepth <= Number[head]
    BY <1>11 DEF PruneCommit, WindowInv, HeightsReached
  <2>2. /\ sync'.chainHead = sync.chainHead
        /\ sync'.indexed = sync.indexed
        /\ sync'.canonical \in {sync.canonical, active.job.height}
    BY <1>11 DEF PruneCommit, WithCanonical, TypeOK, SyncStatus
  <2>3. ReorgWindowOpen'
    BY <1>11, <2>1, <2>2 DEF PruneCommit, WindowInv, ReorgWindowOpen, HasSync
  <2>4. BlocksKnown'
    BY <1>11 DEF PruneCommit, WindowInv, BlocksKnown, Jobs, Idle, ByNumber
  <2> QED
    BY <1>11, <2>2, <2>3, <2>4
    DEF PruneCommit, WindowInv, ChainKnown, HeightsReached, FreshStart,
        HasSync, Jobs, Idle
<1>12. CASE TakeEventsJob \/ ProcessEvents \/ EventsThrow
  BY <1>12, <1>a, QuietStep
  DEF TakeEventsJob, ProcessEvents, EventsThrow, CatchEventsError, Jobs
<1>13. ASSUME NEW b \in eventRetries, RetryEventsJob(b)
       PROVE  WindowInv'
  BY <1>13, <1>a, QuietStep DEF RetryEventsJob, Jobs
<1>14. CASE UpdateProcessed
  <2>1. UNCHANGED <<sync.chainHead, sync.canonical, sync.indexed>>
    BY <1>14 DEF UpdateProcessed, WithProcessed, TypeOK, SyncStatus
  <2> QED
    BY <1>14, <1>a, <2>1, QuietStep DEF UpdateProcessed, Jobs
<1>15. ASSUME NEW n \in Nat, ResetWatcherToBlock(n),
              UNCHANGED <<chainVars, active, tasks>>,
              \A j \in Jobs' : j \in Jobs
       PROVE  WindowInv'
  <2>1. /\ HasSync'
        /\ saved' \subseteq saved
        /\ sync'.indexed <= Number[head]
        /\ ReorgWindowOpen'
    BY <1>15, ResetKeepsWindow
  <2> QED
    BY <1>15, <2>1
    DEF WindowInv, ChainKnown, BlocksKnown, HeightsReached, FreshStart
<1>16. CASE ResetAfterRetry
  <2>1. eventActive.block \in Block
    BY <1>16 DEF ResetAfterRetry, TypeOK, EventWorker, NoEvents
  <2> QED
    BY <1>15, <1>16, <2>1, BlockTreeAssumption DEF ResetAfterRetry, Jobs
<1>17. ASSUME NEW jobs \in SUBSET blockRetries, Redeliver(jobs)
       PROVE  WindowInv'
  BY <1>17, <1>a, QuietStep DEF Redeliver, Jobs
<1>18. ASSUME NEW j \in indexDone, HandleIndexDone(j)
       PROVE  WindowInv'
  <2>1. CASE BlocksAtHeight(j.height) = {}
    BY <1>18, <1>a, <2>1, QuietStep DEF HandleIndexDone, Jobs
  <2>2. CASE BlocksAtHeight(j.height) # {}
    <3>1. PICK b \in saved : Number[b] = j.height
      BY <2>2 DEF BlocksAtHeight, AtHeight, Unpruned
    <3>2. j.height <= Number[head] /\ HasSync
      BY <3>1 DEF WindowInv, ChainKnown, BlocksKnown, FreshStart
    <3>3. /\ UNCHANGED <<sync.chainHead, sync.canonical>>
          /\ sync'.indexed \in {sync.indexed, j.height}
      BY <1>18, <2>2 DEF HandleIndexDone, WithIndexed, TypeOK, SyncStatus
    <3>4. \A k \in blockJobs' : k \in blockJobs \/ k.kind # "hash"
      BY <1>18, <2>2 DEF HandleIndexDone, Prune
    <3> QED
      BY <1>18, <1>a, <3>2, <3>3, <3>4, QuietStep DEF HandleIndexDone, Jobs
  <2> QED
    BY <2>1, <2>2
<1>19. ASSUME NEW b \in eventsDone, HandleEventsDone(b)
       PROVE  WindowInv'
  <2>1. HasSync
    BY <1>19 DEF HandleEventsDone, WindowInv, FreshStart
  <2> QED
    BY <1>19, <1>a, <2>1, QuietStep DEF HandleEventsDone, Jobs, ByNumber
<1>20. CASE StartRunner
  <2>1. ASSUME HasSync
        PROVE  Number[sync.processedBlock] \in Nat
    BY <1>20, <2>1, BlockTreeAssumption DEF StartRunner, CanStart, TypeOK
  <2>2. CASE HasSync
    BY <1>15, <1>20, <2>1, <2>2 DEF StartRunner, DeleteAllJobs, Jobs
  <2>3. CASE ~HasSync
    BY <1>20, <1>a, <2>3, QuietStep DEF StartRunner, DeleteAllJobs, Jobs
  <2> QED
    BY <2>2, <2>3
<1>21. CASE StartServer
  <2> DEFINE first == ByNumber(IF HasSync THEN sync.chainHead + 1
                                          ELSE Number[Root])
  <2>1. blockJobs' = {first} /\ first.kind # "hash"
    BY <1>21 DEF StartServer, ByNumber
  <2>2. ~HasSync => first = FirstJob
    BY DEF FirstJob
  <2>3. Jobs' \subseteq {first} \cup batch
    BY <1>21, <2>1 DEF StartServer, DeleteAllJobs, Jobs
  <2>4. BlocksKnown'
    BY <1>21, <2>1, <2>3
    DEF StartServer, WindowInv, BlocksKnown, Jobs
  <2>5. FreshStart'
    BY <1>21, <2>2, <2>3
    DEF StartServer, WindowInv, FreshStart, HasSync, Jobs, FirstJob
  <2> QED
    BY <1>21, <2>4, <2>5
    DEF StartServer, WindowInv, ChainKnown, HeightsReached, ReorgWindowOpen,
        HasSync
<1>22. CASE Fault
  <2>1. ASSUME NEW t \in tasks, TaskFails(t)
        PROVE  WindowInv'
    BY <1>a, <2>1, FailedTaskQuiet, QuietStep DEF TaskFails, Jobs
  <2>2. CASE FinishIndexJobFails \/ PruneFails
    BY <1>a, <2>2, FailedJobQuiet, QuietStep
    DEF FinishIndexJobFails, PruneFails, AllIndexed, Jobs, Idle
  <2>3. CASE EventsFail \/ ServerCrash
    BY <1>a, <2>3, QuietStep
    DEF EventsFail, ServerCrash, CatchEventsError, Jobs
  <2>4. CASE Crash
    BY <1>a, <2>4, QuietStep DEF Crash, Jobs
  <2> QED
    BY <1>22, <2>1, <2>2, <2>3, <2>4 DEF Fault
<1>23. CASE UNCHANGED vars
  BY <1>23, <1>a, QuietStep DEF vars, Jobs
<1> QED
  BY <1>1, <1>2, <1>3, <1>4, <1>5, <1>6, <1>7, <1>8, <1>9, <1>10, <1>11,
     <1>12, <1>13, <1>14, <1>16, <1>17, <1>18, <1>19, <1>20, <1>21, <1>22,
     <1>23
  DEF Next, BlockWorkerStep, EventWorkerStep, RetryDelayOver, ServerStep,
      Restart

\* The strengthened invariant holds at the start, and every step keeps it.
LEMMA WindowInvariant == Spec => []WindowInv
<1>1. Init => WindowInv
  <2> SUFFICES ASSUME Init
               PROVE  WindowInv
    OBVIOUS
  <2>1. published = {Root} /\ Ancestors[Root] \subseteq {Root}
    <3>1. {Root} \in ParentClosed
      BY BlockTreeAssumption DEF ParentClosed
    <3> QED
      BY <3>1, ClosedHoldsAncestors DEF Init
  <2>2. ChainKnown
    BY <2>1, BlockTreeAssumption DEF Init, ChainKnown
  <2>3. BlocksKnown
    BY DEF Init, BlocksKnown, Jobs, ByNumber, Idle
  <2>4. HeightsReached
    BY BlockTreeAssumption DEF Init, HeightsReached, NoSync, Idle
  <2>5. ReorgWindowOpen /\ FreshStart
    BY DEF Init, ReorgWindowOpen, FreshStart, HasSync, NoSync, Jobs, FirstJob
  <2> QED
    BY <2>2, <2>3, <2>4, <2>5 DEF WindowInv
<1> QED
  BY <1>1, TypeCorrect, WindowStep, PTL DEF Spec

\* Whatever the tree, the upstream and the failures, the canonical height
\* stays at least MAX_REORG_DEPTH below the upstream head once it leaves the
\* block the watcher starts from: _pruneChain only settles a height that no
\* reorg can still replace.
THEOREM WindowStaysOpen == Spec => []ReorgWindowOpen
<1>1. WindowInv => ReorgWindowOpen
  BY DEF WindowInv
<1> QED
  BY <1>1, WindowInvariant, PTL

-------------------------------------------------------------------------------
(***************************************************************************)
(* Over an RPC endpoint one block is in flight: between the job that indexes *)
(* it and the handling of its completed events job it is in one of eight    *)
(* places, and in no other.  Crashes of the deployment and failing prune    *)
(* jobs do not change that; other faults may.                               *)
(***************************************************************************)

\* at most one thing is in the places 1 to 8 of P
Single(P) ==
    \A m, n \in 1..8 : \A x \in P[m], y \in P[n] : m = n /\ x = y

\* the entry of the map that the events job of a block will need
EntrySaved ==
    /\ \A t \in tasks : t.stage = "push" => prefetched[t.block] = "saved"
    /\ \A i \in DOMAIN eventJobs : prefetched[eventJobs[i]] = "saved"
    /\ eventActive.stage = "process"
           => prefetched[eventActive.block] = "saved"

InFlightUp ==
    /\ OneBlockInFlight
    /\ EntrySaved
    /\ eventActive.stage # "reset"
    /\ active.stage \in {"prune", "commit"} => active.job.kind = "prune"
    /\ runnerUp /\ serverUp

\* after a crash the memory is lost and the rows of the queues are left, until
\* the job-runner starts and deletes them
InFlightDown ==
    /\ OneBlockInFlight
    /\ batch = {} /\ active = Idle /\ tasks = {} /\ eventActive = NoEvents
    /\ runnerUp => /\ blockJobs = {} /\ blockRetries = {}
                   /\ eventJobs = <<>> /\ eventsDone = {}
    /\ ~serverUp

InFlightInv == InFlightUp \/ InFlightDown

-------------------------------------------------------------------------------
\* the block moves from place m to place n
LEMMA BlockMoves ==
    ASSUME NEW P, NEW Q, Single(P),
           NEW m \in 1..8, NEW n \in 1..8, P[m] # {},
           \A k \in 1..8 : k # n => /\ Q[k] \subseteq P[k]
                                    /\ k = m => Q[k] = {},
           \A x, y \in Q[n] : x = y
    PROVE  Single(Q)
<1>1. \A k \in 1..8 : k # m => P[k] = {}
  BY DEF Single
<1>2. \A k \in 1..8 : k # n => Q[k] = {}
  BY <1>1
<1> QED
  BY <1>2 DEF Single

\* no block moves, but one may be lost
LEMMA BlockStays ==
    ASSUME NEW P, NEW Q, Single(P), \A k \in 1..8 : Q[k] \subseteq P[k]
    PROVE  Single(Q)
BY DEF Single

\* the block stays in place m and changes
LEMMA BlockKept ==
    ASSUME NEW P, NEW Q, Single(P), NEW m \in 1..8, P[m] # {},
           \A k \in 1..8 : k # m => Q[k] = P[k],
           \A x, y \in Q[m] : x = y
    PROVE  Single(Q)
<1>1. \A k \in 1..8 : k # m => Q[k] \subseteq P[k]
  OBVIOUS
<1> QED
  BY <1>1, BlockMoves

LEMMA PlacesNow ==
    /\ DOMAIN Places = 1..8
    /\ Places[1] = IndexJobs(blockJobs)
    /\ Places[2] = IndexJobs(blockRetries)
    /\ Places[3] = IndexJobs(batch)
    /\ Places[4] = {j \in {active.job} : active.stage = "fetch"}
    /\ Places[5] = tasks
    /\ Places[6] = DOMAIN eventJobs
    /\ Places[7] = {x \in {eventActive} : x # NoEvents}
    /\ Places[8] = eventsDone
BY DEF Places

LEMMA PlacesNext ==
    /\ DOMAIN Places' = 1..8
    /\ Places'[1] = IndexJobs(blockJobs')
    /\ Places'[2] = IndexJobs(blockRetries')
    /\ Places'[3] = IndexJobs(batch')
    /\ Places'[4] = {j \in {active'.job} : active'.stage = "fetch"}
    /\ Places'[5] = tasks'
    /\ Places'[6] = DOMAIN eventJobs'
    /\ Places'[7] = {x \in {eventActive'} : x # NoEvents}
    /\ Places'[8] = eventsDone'
BY DEF Places, IndexJobs

LEMMA InFlightIsSingle ==
    OneBlockInFlight <=> Single(Places) /\ eventRetries = {} /\ ~eventActive.retry
BY PlacesNow DEF OneBlockInFlight, Single

LEMMA InFlightIsSingleNext ==
    OneBlockInFlight'
        <=> Single(Places') /\ eventRetries' = {} /\ ~eventActive'.retry
BY PlacesNext DEF OneBlockInFlight, Single

\* when the block is in a place it is in no other, nor is another there
LEMMA NowhereElse ==
    ASSUME OneBlockInFlight, NEW m \in 1..8, NEW x \in Places[m]
    PROVE  /\ Places[m] = {x}
           /\ \A k \in 1..8 : k # m => Places[k] = {}
BY InFlightIsSingle DEF Single

\* an RPC endpoint returns one block at most
LEMMA OneFetched ==
    ASSUME TypeOK, ~AllBranches, NEW n \in Nat,
           NEW x \in FetchedFrom(n), NEW y \in FetchedFrom(n)
    PROVE  x = y
<1> DEFINE above == {a \in Ancestors[head] : Number[a] >= n}
<1>1. x \in Lowest(above) /\ y \in Lowest(above)
  BY DEF FetchedFrom
<1>2. /\ x \in Ancestors[head] /\ y \in Ancestors[head]
      /\ Number[x] <= Number[y] /\ Number[y] <= Number[x]
  BY <1>1 DEF Lowest
<1>3. head \in Block /\ x \in Block /\ y \in Block
  BY <1>2, AncestorsTyped DEF TypeOK
<1>4. Number[x] = Number[y]
  BY <1>2, <1>3, BlockTreeAssumption
<1> QED
  BY <1>2, <1>3, <1>4, OneAncestorPerHeight

-------------------------------------------------------------------------------
\* a step that leaves the events queue and the map alone
LEMMA OtherStep ==
    ASSUME InFlightUp, UNCHANGED <<eventQueue, eventActive, prefetched>>,
           UNCHANGED <<runnerUp, serverUp>>,
           Single(Places'),
           \A t \in tasks' : t.stage # "push",
           active'.stage \in {"prune", "commit"} => active'.job.kind = "prune"
    PROVE  InFlightUp'
<1>1. OneBlockInFlight'
  BY InFlightIsSingle, InFlightIsSingleNext DEF InFlightUp, eventQueue
<1>2. EntrySaved'
  BY DEF InFlightUp, EntrySaved, eventQueue
<1> QED
  BY <1>1, <1>2 DEF InFlightUp

\* a call of _indexBlock that fails sends the block back to the queue
LEMMA FailedTaskMoves ==
    ASSUME TypeOK, InFlightUp, NEW t \in tasks, FailTask(t),
           IndexJobs(blockJobs') = IndexJobs(blockJobs),
           UNCHANGED <<eventQueue, eventsDone, batch, eventActive, prefetched,
                       runnerUp, serverUp>>
    PROVE  InFlightUp'
<1>1. /\ Places[5] = {t}
      /\ \A k \in 1..8 : k # 5 => Places[k] = {}
  <2>1. t \in Places[5]
    BY PlacesNow
  <2> QED
    BY <2>1, NowhereElse DEF InFlightUp
<1>2. tasks' = {}
  BY <1>1, PlacesNow DEF FailTask
<1>3. active' \in {active, Idle}
  BY DEF FailTask, FailBlockJob
<1>4. IndexJobs(blockRetries') \subseteq {active.job}
  <2>1. IndexJobs(blockRetries) = {}
    BY <1>1, PlacesNow
  <2> QED
    BY <2>1 DEF FailTask, FailBlockJob, IndexJobs
<1>5. Single(Places')
  <2>1. \A x, y \in Places'[2] : x = y
    BY <1>4, PlacesNext
  <2>2. \A k \in 1..8 : k # 2 => Places'[k] = {}
    <3>1. /\ IndexJobs(blockJobs) = {} /\ IndexJobs(batch) = {}
          /\ {j \in {active.job} : active.stage = "fetch"} = {}
          /\ DOMAIN eventJobs = {} /\ eventsDone = {}
          /\ {x \in {eventActive} : x # NoEvents} = {}
      <4>1. /\ Places[1] = {} /\ Places[3] = {} /\ Places[4] = {}
            /\ Places[6] = {} /\ Places[7] = {} /\ Places[8] = {}
        BY <1>1
      <4> QED
        BY <4>1, PlacesNow
    <3>2. {j \in {active'.job} : active'.stage = "fetch"} = {}
      BY <1>3, <3>1 DEF Idle
    <3> QED
      BY <1>2, <3>1, <3>2, PlacesNext DEF eventQueue
  <2> QED
    BY <1>1, <2>1, <2>2, BlockMoves, InFlightIsSingle DEF InFlightUp
<1> QED
  BY <1>2, <1>3, <1>5, OtherStep DEF InFlightUp, Idle

\* a job that fails goes back to its queue
LEMMA FailedJobMoves ==
    ASSUME TypeOK, InFlightUp, FailBlockJob,
           active.stage \in {"fetch", "prune", "commit"},
           UNCHANGED <<blockJobs, eventQueue, eventsDone, batch, tasks,
                       eventActive, prefetched, runnerUp, serverUp>>
    PROVE  InFlightUp'
<1>1. active' = Idle /\ {j \in {active'.job} : active'.stage = "fetch"} = {}
  BY DEF FailBlockJob, Idle
<1>2. /\ tasks' = tasks
      /\ \A k \in {1, 3, 5, 6, 7, 8} : Places'[k] = Places[k]
  BY PlacesNow, PlacesNext DEF eventQueue
<1>3. Places'[4] = {}
  BY <1>1, PlacesNext
<1>4. Single(Places)
  BY InFlightIsSingle DEF InFlightUp
<1>5. CASE active.stage = "fetch"
  <2>1. active.job \in Places[4]
    BY <1>5, PlacesNow
  <2>2. Places[2] = {} /\ Places[5] = {}
    BY <2>1, NowhereElse DEF InFlightUp
  <2>3. Places'[2] \subseteq {active.job}
    BY <2>2, PlacesNow, PlacesNext DEF FailBlockJob, IndexJobs
  <2>4. \A k \in 1..8 : k # 2 => /\ Places'[k] \subseteq Places[k]
                                 /\ k = 4 => Places'[k] = {}
    BY <1>2, <1>3
  <2>5. Single(Places')
    BY <1>4, <2>1, <2>3, <2>4, BlockMoves
  <2> QED
    BY <1>1, <1>2, <2>2, <2>5, OtherStep, PlacesNow DEF Idle
<1>6. CASE active.stage \in {"prune", "commit"}
  <2>1. Places'[2] = Places[2]
    BY <1>6, PlacesNow, PlacesNext DEF FailBlockJob, IndexJobs, InFlightUp
  <2>2. Single(Places')
    <3>1. \A k \in 1..8 : Places'[k] \subseteq Places[k]
      BY <1>2, <1>3, <2>1
    <3> QED
      BY <1>4, <3>1, BlockStays
  <2>3. OneBlockInFlight'
    BY <2>2, InFlightIsSingle, InFlightIsSingleNext DEF InFlightUp, eventQueue
  <2> QED
    BY <1>1, <1>2, <2>3 DEF InFlightUp, EntrySaved, eventQueue, Idle
<1> QED
  BY <1>5, <1>6

\* retried jobs come back to the queue
LEMMA JobsRedelivered ==
    ASSUME Single(Places), NEW jobs \in SUBSET blockRetries,
           blockJobs' = blockJobs \cup jobs,
           blockRetries' = blockRetries \ jobs,
           UNCHANGED <<eventQueue, eventsDone, memoryVars>>
    PROVE  Single(Places')
<1>2. /\ Places'[1] = Places[1] \cup IndexJobs(jobs)
      /\ Places'[2] = Places[2] \ IndexJobs(jobs)
      /\ IndexJobs(jobs) \subseteq Places[2]
  BY PlacesNow, PlacesNext DEF IndexJobs
<1>3. \A k \in {3, 4, 5, 6, 7, 8} : Places'[k] = Places[k]
  BY PlacesNow, PlacesNext DEF eventQueue, memoryVars, blockWorker
<1>4. CASE IndexJobs(jobs) = {}
  <2>1. \A k \in 1..8 : Places'[k] \subseteq Places[k]
    BY <1>2, <1>3, <1>4
  <2> QED
    BY <2>1, BlockStays
<1>5. CASE IndexJobs(jobs) # {}
  <2>1. PICK x \in Places[2] : x \in IndexJobs(jobs)
    BY <1>2, <1>5
  <2>2. Places[2] = {x} /\ Places[1] = {}
    BY <2>1 DEF Single
  <2>3. Places'[1] = {x} /\ Places'[2] = {}
    BY <1>2, <2>1, <2>2
  <2>4. \A k \in 1..8 : k # 1 => /\ Places'[k] \subseteq Places[k]
                                 /\ k = 2 => Places'[k] = {}
    BY <1>3, <2>3
  <2> QED
    BY <2>1, <2>3, <2>4, BlockMoves
<1> QED
  BY <1>4, <1>5

\* Each step keeps the block in one place, and its entry in the map.
LEMMA UpStep ==
    ASSUME FaultKinds \subseteq {"prune", "crash"}, ~AllBranches,
           TypeOK, InFlightUp, [Next]_vars
    PROVE  InFlightInv'
<1>a. /\ Single(Places)
      /\ eventRetries = {} /\ ~eventActive.retry
      /\ eventActive.stage # "reset"
      /\ runnerUp /\ serverUp
  BY InFlightIsSingle DEF InFlightUp
<1>b. \A kind : kind \notin {"prune", "crash"} => ~Faulty(kind)
  BY DEF Faulty
<1> USE DEF chainVars, tableVars, dbVars, blockQueue, eventQueue,
            completions, queueVars, blockWorker, memoryVars, processVars
<1>c. ASSUME NEW m \in 1..8, NEW x \in Places[m], NEW k \in 1..8, k # m
      PROVE  Places[k] = {}
  BY <1>c, NowhereElse DEF InFlightUp
<1>d. \A jobs, h, p : IndexJobs(jobs \cup {Prune(h, p)}) = IndexJobs(jobs)
  BY DEF IndexJobs, Prune
<1>1. ASSUME UNCHANGED <<queueVars, memoryVars, runnerUp, serverUp>>
      PROVE  InFlightUp'
  <2>1. \A k \in 1..8 : Places'[k] = Places[k]
    BY <1>1, PlacesNow, PlacesNext
  <2>2. OneBlockInFlight'
    BY <1>1, <1>a, <2>1, BlockStays, InFlightIsSingleNext
  <2> QED
    BY <1>1, <2>2 DEF InFlightUp, EntrySaved
<1>2. ASSUME FetchBatch
      PROVE  InFlightUp'
  <2>1. /\ batch' \subseteq blockJobs
        /\ blockJobs' = blockJobs \ batch'
        /\ UNCHANGED <<blockRetries, eventQueue, eventsDone, active, tasks,
                       eventActive, prefetched, runnerUp, serverUp>>
        /\ batch = {}
    BY <1>2 DEF FetchBatch
  <2>2. \A k \in {2, 4, 5, 6, 7, 8} : Places'[k] = Places[k]
    BY <2>1, PlacesNow, PlacesNext
  <2>3. /\ Places'[3] \subseteq Places[1]
        /\ Places'[1] = Places[1] \ Places'[3]
    BY <2>1, PlacesNow, PlacesNext DEF IndexJobs
  <2>4. Single(Places')
    <3>1. CASE Places'[3] = {}
      <4>1. \A k \in 1..8 : Places'[k] \subseteq Places[k]
        BY <2>2, <2>3, <3>1
      <4> QED
        BY <1>a, <4>1, BlockStays
    <3>2. CASE Places'[3] # {}
      <4>1. PICK x \in Places[1] : x \in Places'[3]
        BY <2>3, <3>2
      <4>2. Places[1] = {x}
        BY <4>1, NowhereElse DEF InFlightUp
      <4>3. Places'[1] = {} /\ Places'[3] = {x}
        BY <2>3, <4>1, <4>2
      <4>4. \A k \in 1..8 : k # 3 => /\ Places'[k] \subseteq Places[k]
                                     /\ k = 1 => Places'[k] = {}
        BY <2>2, <4>3
      <4> QED
        BY <1>a, <4>1, <4>3, <4>4, BlockMoves
    <3> QED
      BY <3>1, <3>2
  <2>5. OneBlockInFlight'
    BY <1>a, <2>1, <2>4, InFlightIsSingleNext
  <2> QED
    BY <2>1, <2>5 DEF InFlightUp, EntrySaved
<1>3. ASSUME NEW j \in batch, TakeBlockJob(j)
      PROVE  InFlightUp'
  <2>1. /\ active = Idle
        /\ active'.job = j
        /\ batch' = batch \ {j}
        /\ UNCHANGED <<blockJobs, blockRetries, eventQueue, eventsDone,
                       eventActive, prefetched, runnerUp, serverUp>>
        /\ j.kind \in {"number", "hash", "prune"}
    BY <1>3 DEF TakeBlockJob, TypeOK, Job
  <2>2. \A k \in {1, 2, 6, 7, 8} : Places'[k] = Places[k]
    BY <2>1, PlacesNow, PlacesNext
  <2>3. Places'[3] = Places[3] \ {j}
    BY <2>1, PlacesNow, PlacesNext DEF IndexJobs
  <2>4. Places'[4] \subseteq {j}
    BY <2>1, PlacesNext
  <2>5. CASE j.kind = "prune"
    <3>1. active'.stage = "prune" /\ tasks' = tasks
      BY <1>3, <2>5 DEF TakeBlockJob
    <3>2. \A k \in 1..8 : Places'[k] \subseteq Places[k]
      BY <2>2, <2>3, <3>1, PlacesNow, PlacesNext
    <3>3. OneBlockInFlight'
      BY <1>a, <2>1, <3>2, BlockStays, InFlightIsSingleNext
    <3> QED
      BY <2>1, <2>5, <3>1, <3>3 DEF InFlightUp, EntrySaved
  <2>6. CASE j.kind # "prune"
    <3>1. j \in Places[3]
      BY <2>6, PlacesNow DEF IndexJobs
    <3>2. Places'[3] = {} /\ Places[4] = {} /\ Places[5] = {} /\ tasks = {}
      <4>1. Places[3] = {j}
        BY <3>1, NowhereElse DEF InFlightUp
      <4> QED
        BY <1>c, <2>3, <3>1, <4>1, PlacesNow
    <3>3. CASE j.kind = "number"
      <4>1. active'.stage = "fetch" /\ tasks' = {}
        BY <1>3, <3>2, <3>3 DEF TakeBlockJob
      <4>2. \A k \in 1..8 : k # 4 => /\ Places'[k] \subseteq Places[k]
                                     /\ k = 3 => Places'[k] = {}
        BY <2>2, <3>2, <4>1, PlacesNext
      <4>3. Single(Places')
        BY <1>a, <2>4, <3>1, <4>2, BlockMoves
      <4> QED
        BY <2>1, <4>1, <4>3, OtherStep
    <3>4. CASE j.kind = "hash"
      <4>1. /\ active'.stage = "index"
            /\ tasks' = {[job |-> j, block |-> j.block, stage |-> "check",
                          waited |-> TRUE]}
        BY <1>3, <3>2, <3>4 DEF TakeBlockJob, Call
      <4>2. Places'[4] = {} /\ \A x, y \in Places'[5] : x = y
        BY <4>1, PlacesNext
      <4>3. \A k \in 1..8 : k # 5 => /\ Places'[k] \subseteq Places[k]
                                     /\ k = 3 => Places'[k] = {}
        BY <2>2, <3>2, <4>2
      <4>4. Single(Places')
        BY <1>a, <3>1, <4>2, <4>3, BlockMoves
      <4> QED
        BY <2>1, <4>1, <4>4, OtherStep
    <3> QED
      BY <2>1, <2>6, <3>3, <3>4
  <2> QED
    BY <2>5, <2>6
<1>4. ASSUME FetchBlocksAtHeight
      PROVE  InFlightUp'
  <2> DEFINE blocks == FetchedFrom(active.job.height)
  <2>1. active.job \in Places[4]
    BY <1>4, PlacesNow DEF FetchBlocksAtHeight
  <2>2. /\ UNCHANGED <<queueVars, batch, eventActive, runnerUp, serverUp>>
        /\ active'.stage = "index"
    BY <1>4 DEF FetchBlocksAtHeight, TypeOK, Worker, Idle
  <2>3. /\ Places[5] = {} /\ tasks = {}
        /\ Places[6] = {} /\ DOMAIN eventJobs = {}
        /\ Places[7] = {} /\ eventActive = NoEvents
    <3>1. Places[5] = {} /\ Places[6] = {} /\ Places[7] = {}
      BY <1>c, <2>1
    <3> QED
      BY <3>1, PlacesNow
  <2>4. tasks' = {Call(active.job, b) : b \in blocks}
    BY <1>4, <2>3 DEF FetchBlocksAtHeight
  <2>5. \A x, y \in blocks : x = y
    BY OneFetched, ActiveTyped
  <2>6. /\ \A x, y \in tasks' : x = y
        /\ \A x \in tasks' : x.stage = "check"
    <3>1. \A b : Call(active.job, b).stage = "check"
      BY DEF Call
    <3> QED
      BY <2>4, <2>5, <3>1
  <2>7. Single(Places')
    <3>1. \A k \in {1, 2, 3, 6, 7, 8} : Places'[k] = Places[k]
      BY <2>2, PlacesNow, PlacesNext
    <3>2. Places'[4] = {} /\ Places'[5] = tasks'
      BY <2>2, PlacesNext
    <3>3. \A k \in 1..8 : k # 5 => /\ Places'[k] \subseteq Places[k]
                                   /\ k = 4 => Places'[k] = {}
      BY <3>1, <3>2
    <3> QED
      BY <1>a, <2>1, <2>6, <3>2, <3>3, BlockMoves
  <2>8. OneBlockInFlight'
    BY <1>a, <2>2, <2>7, InFlightIsSingleNext
  <2>9. EntrySaved'
    BY <2>2, <2>3, <2>6 DEF EntrySaved, NoEvents
  <2> QED
    BY <1>a, <2>2, <2>8, <2>9 DEF InFlightUp
<1>5. ASSUME GiveUpOnNewBlock
      PROVE  InFlightUp'
  BY <1>5, FailedJobMoves DEF GiveUpOnNewBlock
<1>6. ASSUME NEW t \in tasks, IndexBlockStep(t)
      PROVE  InFlightUp'
  <2>1. t \in Places[5]
    BY PlacesNow
  <2>2. /\ tasks = {t}
        /\ IndexJobs(blockJobs) = {} /\ IndexJobs(blockRetries) = {}
        /\ {j \in {active.job} : active.stage = "fetch"} = {}
        /\ DOMAIN eventJobs = {}
        /\ eventActive = NoEvents
    <3>1. /\ Places[5] = {t}
          /\ Places[1] = {} /\ Places[2] = {} /\ Places[4] = {}
          /\ Places[6] = {} /\ Places[7] = {}
      BY <1>c, <2>1, NowhereElse DEF InFlightUp
    <3> QED
      BY <3>1, PlacesNow
  <2>3. t \in Task
    BY DEF TypeOK
  <2>5. ASSUME NEW stage \in {"load", "save", "push"}, tasks' = Move(t, stage),
               stage = "push" => prefetched'[t.block] = "saved",
               UNCHANGED <<queueVars, batch, active, eventActive, runnerUp,
                           serverUp>>
        PROVE  InFlightUp'
    <3>1. tasks' = {[t EXCEPT !.stage = stage]}
      BY <2>2, <2>5 DEF Move
    <3>2. \A k \in 1..8 : k # 5 => Places'[k] = Places[k]
      BY <2>5, PlacesNow, PlacesNext
    <3>3. \A x, y \in Places'[5] : x = y
      BY <3>1, PlacesNext
    <3>4. Places[5] = {t}
      BY <2>2, PlacesNow
    <3>5. Single(Places')
      BY <1>a, <3>2, <3>3, <3>4, BlockKept
    <3>6. OneBlockInFlight'
      BY <1>a, <2>5, <3>5, InFlightIsSingleNext
    <3>7. EntrySaved'
      BY <2>2, <2>3, <2>5, <3>1 DEF EntrySaved, NoEvents, Task
    <3> QED
      BY <1>a, <2>5, <3>6, <3>7 DEF InFlightUp
  <2>6. CASE CheckPruning(t)
    BY <1>d, <2>6, FailedTaskMoves DEF CheckPruning
  <2>7. CASE IndexParentFirst(t)
    <3> DEFINE job == ByHash(Parent[t.block], t.job.priority + 1)
    <3>1. /\ tasks' = {}
          /\ blockJobs' = blockJobs \cup {job}
          /\ UNCHANGED <<blockRetries, eventQueue, eventsDone, batch, active,
                         eventActive, runnerUp, serverUp>>
      BY <2>2, <2>7 DEF IndexParentFirst, EndTask
    <3>2. Places'[1] \subseteq {job} /\ Places'[5] = {}
      BY <2>2, <3>1, PlacesNext DEF IndexJobs
    <3>3. \A k \in {2, 3, 4, 6, 7, 8} : Places'[k] = Places[k]
      BY <3>1, PlacesNow, PlacesNext
    <3>4. \A k \in 1..8 : k # 1 => /\ Places'[k] \subseteq Places[k]
                                   /\ k = 5 => Places'[k] = {}
      BY <3>2, <3>3
    <3>5. Single(Places')
      BY <1>a, <2>1, <3>2, <3>4, BlockMoves
    <3>6. OneBlockInFlight'
      BY <1>a, <3>1, <3>5, InFlightIsSingleNext
    <3>7. EntrySaved'
      BY <2>2, <3>1 DEF EntrySaved, NoEvents
    <3> QED
      BY <1>a, <3>1, <3>6, <3>7 DEF InFlightUp
  <2>8. CASE CheckBlock(t)
    <3>1. CASE prefetched[t.block] = "absent"
      BY <2>8, <3>1, FailedTaskMoves DEF CheckBlock
    <3>2. CASE prefetched[t.block] # "absent"
      BY <2>5, <2>8, <3>2 DEF CheckBlock
    <3> QED
      BY <3>1, <3>2
  <2>9. CASE LoadBlock(t)
    BY <2>3, <2>5, <2>9 DEF LoadBlock, TypeOK, Task
  <2>10. CASE SaveBlock(t)
    BY <2>3, <2>5, <2>10 DEF SaveBlock, TypeOK, Task
  <2>11. CASE SaveBlockAgain(t)
    BY <2>11, FailedTaskMoves DEF SaveBlockAgain
  <2>12. CASE PushEventsJob(t)
    <3>1. /\ tasks' = {}
          /\ UNCHANGED <<blockQueue, eventsDone, batch, active, prefetched,
                         eventActive, eventRetries, runnerUp, serverUp>>
      BY <2>2, <2>12 DEF PushEventsJob, EndTask
    <3>2. eventJobs' = <<t.block>>
      <4>1. eventJobs = <<>>
        BY <2>2, EmptySeq DEF TypeOK
      <4> QED
        BY <2>12, <4>1 DEF PushEventsJob
    <3>3. DOMAIN eventJobs' = {1} /\ eventJobs'[1] = t.block
      BY <3>2
    <3>4. Places'[5] = {} /\ \A x, y \in Places'[6] : x = y
      BY <3>1, <3>3, PlacesNext
    <3>5. \A k \in {1, 2, 3, 4, 7, 8} : Places'[k] = Places[k]
      BY <3>1, PlacesNow, PlacesNext
    <3>6. \A k \in 1..8 : k # 6 => /\ Places'[k] \subseteq Places[k]
                                   /\ k = 5 => Places'[k] = {}
      BY <3>4, <3>5
    <3>7. Single(Places')
      BY <1>a, <2>1, <3>4, <3>6, BlockMoves
    <3>8. OneBlockInFlight'
      BY <1>a, <3>1, <3>7, InFlightIsSingleNext
    <3>9. EntrySaved'
      BY <2>2, <2>12, <3>1, <3>3
      DEF EntrySaved, NoEvents, PushEventsJob, InFlightUp
    <3> QED
      BY <1>a, <3>1, <3>8, <3>9 DEF InFlightUp
  <2> QED
    BY <1>6, <2>6, <2>7, <2>8, <2>9, <2>10, <2>11, <2>12 DEF IndexBlockStep
<1>7. ASSUME active'.stage # "fetch",
             active'.stage \in {"prune", "commit"} => active'.job.kind = "prune",
             UNCHANGED <<blockQueue, eventQueue, eventsDone, batch, tasks,
                         eventActive, prefetched, runnerUp, serverUp>>
      PROVE  InFlightUp'
  <2>1. Places'[4] = {}
    BY <1>7, PlacesNext
  <2>2. \A k \in {1, 2, 3, 5, 6, 7, 8} : Places'[k] = Places[k]
    BY <1>7, PlacesNow, PlacesNext
  <2>3. \A k \in 1..8 : Places'[k] \subseteq Places[k]
    BY <2>1, <2>2
  <2>4. OneBlockInFlight'
    BY <1>a, <1>7, <2>3, BlockStays, InFlightIsSingleNext
  <2> QED
    BY <1>7, <2>4 DEF InFlightUp, EntrySaved
<1>8. ASSUME FinishIndexJob \/ PruneSkip \/ PruneCommit
      PROVE  InFlightUp'
  BY <1>7, <1>8 DEF FinishIndexJob, PruneSkip, PruneCommit, Idle
<1>9. ASSUME PruneThrows
      PROVE  InFlightUp'
  BY <1>9, FailedJobMoves DEF PruneThrows
<1>10. ASSUME PruneMark
       PROVE  InFlightUp'
  <2>1. active'.stage = "commit" /\ active'.job.kind = "prune"
    BY <1>10 DEF PruneMark, TypeOK, Worker, Idle, InFlightUp
  <2> QED
    BY <1>7, <1>10, <2>1 DEF PruneMark
<1>11. ASSUME TakeEventsJob
       PROVE  InFlightUp'
  <2> DEFINE b == Head(eventJobs)
  <2>1. 1 \in Places[6]
    <3>1. Len(eventJobs) \in Nat \ {0} /\ DOMAIN eventJobs = 1..Len(eventJobs)
      BY <1>11, EmptySeq, LenProperties DEF TakeEventsJob, TypeOK
    <3> QED
      BY <3>1, PlacesNow
  <2>2. DOMAIN eventJobs = {1} /\ eventJobs \in Seq(Block)
    <3>1. Places[6] = {1}
      BY <2>1, NowhereElse DEF InFlightUp
    <3> QED
      BY <3>1, PlacesNow DEF TypeOK
  <2>3. b = eventJobs[1] /\ prefetched[b] = "saved"
    BY <2>2 DEF InFlightUp, EntrySaved
  <2>4. /\ eventActive' = [stage |-> "process", block |-> b, retry |-> FALSE,
                           live |-> TRUE]
        /\ eventJobs' = Tail(eventJobs)
        /\ UNCHANGED <<blockQueue, eventRetries, eventsDone, blockWorker,
                       prefetched, runnerUp, serverUp>>
    BY <1>11, <2>3 DEF TakeEventsJob, StartEvents
  <2>5. DOMAIN eventJobs' = {}
    <3>1. Len(eventJobs) = 1
      BY <2>2, LenProperties
    <3> QED
      BY <2>2, <2>4, <3>1, HeadTailProperties
  <2>6. Places'[6] = {} /\ \A x, y \in Places'[7] : x = y
    BY <2>5, PlacesNext
  <2>7. \A k \in {1, 2, 3, 4, 5, 8} : Places'[k] = Places[k]
    BY <2>4, PlacesNow, PlacesNext
  <2>8. \A k \in 1..8 : k # 7 => /\ Places'[k] \subseteq Places[k]
                                 /\ k = 6 => Places'[k] = {}
    BY <2>6, <2>7
  <2>9. Single(Places')
    BY <1>a, <2>1, <2>6, <2>8, BlockMoves
  <2>10. OneBlockInFlight'
    BY <1>a, <2>4, <2>9, InFlightIsSingleNext
  <2>11. EntrySaved'
    BY <2>3, <2>4, <2>5 DEF EntrySaved, InFlightUp
  <2> QED
    BY <1>a, <2>4, <2>10, <2>11 DEF InFlightUp
<1>12. ASSUME eventActive # NoEvents
       PROVE  /\ eventActive \in Places[7]
              /\ tasks = {} /\ DOMAIN eventJobs = {} /\ eventsDone = {}
  <2>1. eventActive \in Places[7]
    BY <1>12, PlacesNow
  <2>2. Places[5] = {} /\ Places[6] = {} /\ Places[8] = {}
    BY <1>c, <2>1
  <2> QED
    BY <2>1, <2>2, PlacesNow
<1>13. ASSUME ProcessEvents
       PROVE  InFlightUp'
  <2>1. eventActive # NoEvents
    BY <1>13 DEF ProcessEvents, NoEvents
  <2>2. /\ eventActive' = [eventActive EXCEPT !.stage = "status"]
        /\ UNCHANGED <<queueVars, blockWorker, runnerUp, serverUp>>
    BY <1>13 DEF ProcessEvents
  <2>3. eventActive'.stage = "status" /\ ~eventActive'.retry
    BY <1>a, <2>1, <2>2 DEF TypeOK, EventWorker
  <2>4. \A k \in 1..8 : k # 7 => Places'[k] = Places[k]
    BY <2>2, PlacesNow, PlacesNext
  <2>5. \A x, y \in Places'[7] : x = y
    BY PlacesNext
  <2>6. Single(Places')
    BY <1>a, <1>12, <2>1, <2>4, <2>5, BlockKept
  <2>7. OneBlockInFlight'
    BY <1>a, <2>2, <2>3, <2>6, InFlightIsSingleNext
  <2>8. EntrySaved'
    BY <1>12, <2>1, <2>2, <2>3 DEF EntrySaved
  <2> QED
    BY <1>a, <2>2, <2>3, <2>7, <2>8 DEF InFlightUp
<1>14. ASSUME UpdateProcessed
       PROVE  InFlightUp'
  <2>1. eventActive # NoEvents
    BY <1>14 DEF UpdateProcessed, NoEvents
  <2>2. /\ eventActive' = NoEvents
        /\ eventsDone' \subseteq {eventActive.block}
        /\ UNCHANGED <<blockQueue, blockWorker, prefetched, runnerUp, serverUp>>
    BY <1>12, <1>14, <1>a, <2>1 DEF UpdateProcessed, FinishEventsJob
  <2>3. eventJobs' \in {eventJobs, <<>>} /\ eventRetries' = {}
    BY <1>14, <1>a DEF UpdateProcessed
  <2>4. DOMAIN eventJobs' = {}
    BY <1>12, <2>1, <2>3
  <2>5. /\ Places'[6] = {} /\ Places'[7] = {}
        /\ \A x, y \in Places'[8] : x = y
    BY <2>2, <2>4, PlacesNext
  <2>6. \A k \in {1, 2, 3, 4, 5} : Places'[k] = Places[k]
    BY <2>2, PlacesNow, PlacesNext
  <2>7. \A k \in 1..8 : k # 8 => /\ Places'[k] \subseteq Places[k]
                                 /\ k = 7 => Places'[k] = {}
    BY <2>5, <2>6
  <2>8. Single(Places')
    BY <1>a, <1>12, <2>1, <2>5, <2>7, BlockMoves
  <2>9. OneBlockInFlight'
    BY <2>2, <2>3, <2>8, InFlightIsSingleNext DEF NoEvents
  <2>10. EntrySaved'
    BY <1>12, <2>1, <2>2, <2>4 DEF EntrySaved, NoEvents
  <2> QED
    BY <1>a, <2>2, <2>9, <2>10 DEF InFlightUp, NoEvents
<1>15. ~ResetAfterRetry /\ ~EventsThrow
  BY <1>a DEF ResetAfterRetry, EventsThrow, InFlightUp, EntrySaved
<1>16. ASSUME NEW jobs \in SUBSET blockRetries, Redeliver(jobs)
       PROVE  InFlightUp'
  <2>1. /\ blockJobs' = blockJobs \cup jobs
        /\ blockRetries' = blockRetries \ jobs
        /\ UNCHANGED <<eventQueue, eventsDone, memoryVars, runnerUp, serverUp>>
    BY <1>16 DEF Redeliver
  <2>4. Single(Places')
    BY <1>a, <2>1, JobsRedelivered
  <2>5. OneBlockInFlight'
    BY <1>a, <2>1, <2>4, InFlightIsSingleNext
  <2> QED
    BY <2>1, <2>5 DEF InFlightUp, EntrySaved
<1>17. ASSUME NEW j \in indexDone, HandleIndexDone(j)
       PROVE  InFlightUp'
  <2>1. /\ IndexJobs(blockJobs') = IndexJobs(blockJobs)
        /\ UNCHANGED <<blockRetries, eventQueue, eventsDone, memoryVars,
                       runnerUp, serverUp>>
    BY <1>17, <1>d DEF HandleIndexDone
  <2>2. \A k \in 1..8 : Places'[k] = Places[k]
    BY <2>1, PlacesNow, PlacesNext
  <2>3. OneBlockInFlight'
    BY <1>a, <2>1, <2>2, BlockStays, InFlightIsSingleNext
  <2> QED
    BY <2>1, <2>3 DEF InFlightUp, EntrySaved
<1>18. ASSUME NEW b \in eventsDone, HandleEventsDone(b)
       PROVE  InFlightUp'
  <2>1. b \in Places[8]
    BY PlacesNow
  <2>2. Places[1] = {} /\ Places[8] = {b}
    BY <1>c, <2>1, NowhereElse DEF InFlightUp
  <2>3. /\ eventsDone' = eventsDone \ {b}
        /\ blockJobs' \in {blockJobs, blockJobs \cup {ByNumber(Number[b] + 1)}}
        /\ UNCHANGED <<blockRetries, eventQueue, memoryVars, runnerUp, serverUp>>
    BY <1>18 DEF HandleEventsDone
  <2>4. Places'[1] \subseteq {ByNumber(Number[b] + 1)} /\ Places'[8] = {}
    BY <2>2, <2>3, PlacesNow, PlacesNext DEF IndexJobs
  <2>5. \A k \in {2, 3, 4, 5, 6, 7} : Places'[k] = Places[k]
    BY <2>3, PlacesNow, PlacesNext
  <2>6. \A k \in 1..8 : k # 1 => /\ Places'[k] \subseteq Places[k]
                                 /\ k = 8 => Places'[k] = {}
    BY <2>4, <2>5
  <2>7. Single(Places')
    BY <1>a, <2>1, <2>4, <2>6, BlockMoves
  <2>8. OneBlockInFlight'
    BY <1>a, <2>3, <2>7, InFlightIsSingleNext
  <2> QED
    BY <2>3, <2>8 DEF InFlightUp, EntrySaved
<1>19. CASE Fault
  <2>1. PruneFails \/ Crash
    BY <1>19, <1>b
    DEF Fault, TaskFails, FinishIndexJobFails, EventsFail, ServerCrash
  <2>2. CASE PruneFails
    BY <2>2, FailedJobMoves DEF PruneFails, InFlightInv
  <2>3. CASE Crash
    <3>1. \A k \in 1..8 : Places'[k] \subseteq Places[k]
      <4>1. \A k \in {1, 2, 6, 8} : Places'[k] = Places[k]
        BY <2>3, PlacesNow, PlacesNext DEF Crash
      <4>2. \A k \in {3, 4, 5, 7} : Places'[k] = {}
        BY <2>3, PlacesNext DEF Crash, Idle, IndexJobs
      <4> QED
        BY <4>1, <4>2
    <3>2. OneBlockInFlight'
      BY <1>a, <2>3, <3>1, BlockStays, InFlightIsSingleNext DEF Crash, NoEvents
    <3> QED
      BY <2>3, <3>2 DEF Crash, InFlightInv, InFlightDown
  <2> QED
    BY <2>1, <2>2, <2>3
<1>20. ~Restart /\ ~(\E b \in eventRetries : RetryEventsJob(b))
  BY <1>a DEF Restart, StartRunner, StartServer
<1>21. ASSUME NEW b \in Block, AdvanceHead(b)
       PROVE  InFlightUp'
  BY <1>1, <1>21 DEF AdvanceHead
<1>22. ASSUME UNCHANGED vars
       PROVE  InFlightUp'
  BY <1>1, <1>22 DEF vars
<1> QED
  BY <1>2, <1>3, <1>4, <1>5, <1>6, <1>8, <1>9, <1>10, <1>11, <1>13, <1>14,
     <1>15, <1>16, <1>17, <1>18, <1>19, <1>20, <1>21, <1>22
  DEF Next, BlockWorkerStep, EventWorkerStep, RetryDelayOver, ServerStep,
      InFlightInv

\* While the server is down, and the memory of the job-runner lost, no job
\* moves but a retried one; the restart pushes one job.
LEMMA DownStep ==
    ASSUME FaultKinds \subseteq {"prune", "crash"},
           TypeOK, InFlightDown, [Next]_vars
    PROVE  InFlightInv'
<1>a. /\ Single(Places)
      /\ eventRetries = {} /\ ~eventActive.retry
      /\ batch = {} /\ active = Idle /\ tasks = {} /\ eventActive = NoEvents
      /\ ~serverUp
  BY InFlightIsSingle DEF InFlightDown
<1>b. \A k \in {3, 4, 5, 7} : Places[k] = {}
  BY <1>a, PlacesNow DEF Idle, IndexJobs
<1> USE DEF chainVars, tableVars, dbVars, blockQueue, eventQueue,
            completions, queueVars, blockWorker, memoryVars, processVars
<1>1. ASSUME UNCHANGED <<queueVars, batch, active, tasks, eventActive, serverUp>>,
             runnerUp' => runnerUp
      PROVE  InFlightDown'
  <2>1. \A k \in 1..8 : Places'[k] = Places[k]
    BY <1>1, PlacesNow, PlacesNext
  <2>2. OneBlockInFlight'
    BY <1>1, <1>a, <2>1, BlockStays, InFlightIsSingleNext
  <2> QED
    BY <1>1, <2>2 DEF InFlightDown
<1>2. ASSUME NEW b \in Block, AdvanceHead(b)
      PROVE  InFlightDown'
  BY <1>1, <1>2 DEF AdvanceHead
<1>3. ASSUME UNCHANGED vars
      PROVE  InFlightDown'
  BY <1>1, <1>3 DEF vars
<1>4. ASSUME NEW jobs \in SUBSET blockRetries, Redeliver(jobs)
      PROVE  InFlightDown'
  <2>1. ~runnerUp
    BY <1>4 DEF Redeliver, InFlightDown
  <2>2. /\ blockJobs' = blockJobs \cup jobs
        /\ blockRetries' = blockRetries \ jobs
        /\ UNCHANGED <<eventQueue, eventsDone, memoryVars, runnerUp, serverUp>>
    BY <1>4 DEF Redeliver
  <2>3. Single(Places')
    BY <1>a, <2>2, JobsRedelivered
  <2>4. OneBlockInFlight'
    BY <1>a, <2>2, <2>3, InFlightIsSingleNext
  <2> QED
    BY <1>a, <2>1, <2>2, <2>4 DEF InFlightDown
<1>5. ASSUME Crash
      PROVE  InFlightDown'
  <2>1. serverUp = FALSE
    BY <1>a DEF TypeOK
  <2> QED
    BY <1>1, <1>5, <1>a, <2>1 DEF Crash
<1>6. ASSUME StartRunner
      PROVE  InFlightDown'
  <2>1. /\ blockJobs' = {} /\ DeleteAllJobs
        /\ UNCHANGED <<memoryVars, serverUp>>
        /\ blockRetries' = {} /\ eventJobs' = <<>> /\ eventsDone' = {}
    BY <1>6 DEF StartRunner, DeleteAllJobs
  <2>2. \A k \in 1..8 : Places'[k] \subseteq Places[k]
    <3>1. \A k \in {3, 4, 5, 7} : Places'[k] = Places[k]
      BY <2>1, PlacesNow, PlacesNext
    <3>2. \A k \in {1, 2, 6, 8} : Places'[k] = {}
      BY <2>1, EmptySeq, PlacesNext DEF DeleteAllJobs, IndexJobs
    <3> QED
      BY <3>1, <3>2
  <2>3. OneBlockInFlight'
    BY <1>a, <2>1, <2>2, BlockStays, InFlightIsSingleNext DEF DeleteAllJobs
  <2> QED
    BY <1>a, <2>1, <2>3 DEF InFlightDown
<1>7. CASE StartServer
  <2> DEFINE first == ByNumber(IF HasSync THEN sync.chainHead + 1
                                          ELSE Number[Root])
  <2>1. /\ blockJobs' = {first} /\ DeleteAllJobs
        /\ UNCHANGED <<batch, active, tasks>>
        /\ runnerUp' /\ serverUp'
    BY <1>7 DEF StartServer
  <2>2. eventActive' = NoEvents
    BY <1>7, <1>a DEF StartServer, NoEvents
  <2>3. \A k \in 2..8 : Places'[k] = {}
    <3>1. \A k \in {3, 4, 5, 7} : Places'[k] = {}
      BY <1>a, <2>1, <2>2, PlacesNext DEF Idle, IndexJobs
    <3>2. \A k \in {2, 6, 8} : Places'[k] = {}
      BY <2>1, EmptySeq, PlacesNext DEF DeleteAllJobs, IndexJobs
    <3> QED
      BY <3>1, <3>2
  <2>4. Places'[1] \subseteq {first}
    BY <2>1, PlacesNext DEF IndexJobs
  <2>5. Single(Places')
    BY <2>3, <2>4 DEF Single
  <2>6. OneBlockInFlight'
    BY <2>1, <2>2, <2>5, InFlightIsSingleNext DEF DeleteAllJobs, NoEvents
  <2>7. EntrySaved'
    BY <1>a, <2>1, <2>2, EmptySeq DEF EntrySaved, DeleteAllJobs, NoEvents
  <2> QED
    BY <1>a, <2>1, <2>2, <2>6, <2>7 DEF InFlightInv, InFlightUp, NoEvents, Idle
<1>8. ~FetchBatch
  BY <1>a DEF FetchBatch, InFlightDown
<1>9. /\ ~FetchBlocksAtHeight /\ ~GiveUpOnNewBlock /\ ~FinishIndexJob
      /\ ~PruneThrows /\ ~PruneSkip /\ ~PruneMark /\ ~PruneCommit
      /\ ~FinishIndexJobFails /\ ~PruneFails
  BY <1>a
  DEF FetchBlocksAtHeight, GiveUpOnNewBlock, FinishIndexJob, AllIndexed,
      PruneThrows, PruneSkip, PruneMark, PruneCommit, FinishIndexJobFails,
      PruneFails, Idle
<1>10. /\ ~ProcessEvents /\ ~UpdateProcessed /\ ~ResetAfterRetry
       /\ ~EventsThrow /\ ~EventsFail
  <2>1. eventActive.stage = "idle"
    BY <1>a DEF NoEvents
  <2> QED
    BY <2>1
    DEF ProcessEvents, UpdateProcessed, ResetAfterRetry, EventsThrow, EventsFail
<1>12. ~TakeEventsJob
  BY DEF TakeEventsJob, InFlightDown
<1>11. ~ServerStep /\ ~ServerCrash
  BY <1>a DEF ServerStep, HandleIndexDone, HandleEventsDone, ServerCrash
<1> QED
  BY <1>2, <1>3, <1>4, <1>5, <1>6, <1>7, <1>8, <1>9, <1>10, <1>11, <1>12, <1>a
  DEF Next, BlockWorkerStep, EventWorkerStep, RetryDelayOver, Restart, Fault,
      InFlightInv

\* Over an RPC endpoint, whatever the tree of blocks, the reorgs and the order
\* of the completions, a block is in one place at a time between its index job
\* and the handling of its completed events job, also when the deployment crashes
\* and restarts and when prune jobs fail, any number of times: what
\* _processEvents relies on when it deletes the map entry of the block, and the
\* server when it pushes the job of the next one.
LEMMA InFlightInvariant ==
    ASSUME FaultKinds \subseteq {"prune", "crash"}, ~AllBranches
    PROVE  Spec => []InFlightInv
<1>1. Init => InFlightInv
  <2> SUFFICES ASSUME Init
               PROVE  InFlightUp
    BY DEF InFlightInv
  <2>1. Places = <<{ByNumber(Number[Root])}, {}, {}, {}, {}, {}, {}, {}>>
    BY DEF Init, Places, IndexJobs, ByNumber, Idle
  <2>2. OneBlockInFlight
    BY <2>1 DEF Init, OneBlockInFlight, NoEvents
  <2>3. EntrySaved
    BY DEF Init, EntrySaved, NoEvents
  <2> QED
    BY <2>2, <2>3 DEF Init, InFlightUp, NoEvents, Idle
<1>2. TypeOK /\ InFlightInv /\ [Next]_vars => InFlightInv'
  BY UpStep, DownStep DEF InFlightInv
<1> QED
  BY <1>1, <1>2, TypeCorrect, PTL DEF Spec

THEOREM OneAtATime ==
    ASSUME FaultKinds \subseteq {"prune", "crash"}, ~AllBranches
    PROVE  Spec => []OneBlockInFlight
<1>1. InFlightInv => OneBlockInFlight
  BY DEF InFlightInv, InFlightUp, InFlightDown
<1> QED
  BY <1>1, InFlightInvariant, PTL

-------------------------------------------------------------------------------
(* What a watcher of an RPC endpoint does to the chain it follows, when no   *)
(* height is a null round, with any number of crashes of the deployment and  *)
(* of failing prune jobs: it implements ChainFollower, and it never prunes   *)
(* a block of the upstream chain.                                            *)

NoNullRounds == \A b \in Block \ {Root} : Number[b] = Number[Parent[b]] + 1

-------------------------------------------------------------------------------
(* The inductive invariant.                                                 *)

\* the jobs of the block-processing queue that are not done, and the blocks
\* that they or the calls of _indexBlock name
Waiting == blockJobs \cup blockRetries \cup batch \cup {active.job}

Handled == {t.block : t \in tasks}
           \cup {j.block : j \in {k \in Waiting : k.kind = "hash"}}

\* no later head replaces what was MAX_REORG_DEPTH below an earlier one
Permanent ==
    \A b \in published : \A a \in Ancestors[b] :
        Number[a] + MaxReorgDepth <= Number[b] => a \in Ancestors[head]

\* a call belongs to the active job, which waits for it
CallsOfJob ==
    \A t \in tasks : /\ active.stage = "index"
                     /\ t.waited
                     /\ t.job = active.job
                     /\ t.job.kind = "hash" => t.block = t.job.block

FetchByNumber == active.stage = "fetch" => active.job.kind = "number"

\* what the checks of a call have found stays true while it goes on
CallsChecked ==
    \A t \in tasks :
        t.stage # "check" => /\ t.block # Root => Parent[t.block] \in complete
                             /\ t.stage # "save" => t.block \in saved

\* the parent of a row is complete, and counted in the sync status
Rows ==
    /\ IsFiniteSet(saved)
    /\ \A b \in saved \ {Root} : /\ Parent[b] \in complete
                                 /\ Number[Parent[b]] <= sync.processed

\* events are those of rows
EventsOfRows ==
    /\ runnerUp => \A i \in DOMAIN eventJobs : eventJobs[i] \in saved
    /\ eventActive # NoEvents => eventActive.block \in saved
    /\ eventActive.stage = "status" => eventActive.block \in complete

\* the processed block of the sync status is the highest of the complete ones,
\* but for that of an events job which is about to update it
ProcessedRow ==
    /\ sync.processed # -1 => sync.processedBlock # NoBlock
    /\ sync.processedBlock # NoBlock
           => /\ sync.processedBlock \in complete
              /\ Number[sync.processedBlock] = sync.processed
    /\ runnerUp => \A b \in complete :
           \/ Number[b] <= sync.processed
           \/ eventActive.stage = "status" /\ b = eventActive.block

\* of the blocks below one that a job names, those which are too deep to be
\* replaced, or at a settled height, have been processed before
Fresh ==
    \A b \in Handled : \A a \in Ancestors[b] :
        /\ \A s \in saved :
               Number[a] + MaxReorgDepth <= Number[s] => a \in complete
        /\ Number[a] <= sync.canonical => a = Root \/ a \in complete

IndexedSaved ==
    sync.indexed # -1 => \E s \in saved : sync.indexed <= Number[s]

\* prune jobs come for one height after the other
PruneNext ==
    \A j \in Waiting : j.kind = "prune" => j.height <= sync.canonical + 1

\* up to the settled height the rows that are left are the upstream's chain
Settled ==
    HasSync =>
        /\ sync.canonicalBlock \in Ancestors[head]
        /\ Number[sync.canonicalBlock] = sync.canonical
        /\ sync.canonicalBlock # Root
               => /\ sync.canonicalBlock \in complete
                  /\ sync.canonical <= sync.processed
        /\ \A b \in Unpruned : Number[b] <= sync.canonical => b \in Ancestors[head]

\* and so they are up to the height a prune job has marked
Committing ==
    active.stage = "commit" =>
        /\ sync.canonical < active.job.height
        /\ active.job.height + MaxReorgDepth <= sync.indexed
        /\ active.keep \in Ancestors[head]
        /\ Number[active.keep] = active.job.height
        /\ \A b \in Unpruned :
               Number[b] <= active.job.height => b \in Ancestors[head]

\* a pruned block is off the chain, and too deep to come back
PrunedGone ==
    \A b \in pruned : /\ b \notin Ancestors[head]
                      /\ Number[b] <= sync.canonical + 1
                      /\ Number[b] + MaxReorgDepth <= Number[head]

ChainInv ==
    /\ Permanent
    /\ CallsOfJob
    /\ FetchByNumber
    /\ CallsChecked
    /\ Rows
    /\ EventsOfRows
    /\ ProcessedRow
    /\ Fresh
    /\ IndexedSaved
    /\ PruneNext
    /\ Settled
    /\ Committing
    /\ PrunedGone

-------------------------------------------------------------------------------
(* The chain.                                                               *)

\* numbers are naturals, none below that of the root
LEMMA Numbers ==
    ASSUME NEW b \in Block
    PROVE  /\ Number[b] \in Nat
           /\ Number[Root] \in Nat
           /\ Number[Root] <= Number[b]
           /\ MaxReorgDepth \in Nat \ {0}
BY BlockTreeAssumption, RealtimeSyncAssumption, RootLowest

\* the types of the numbers of the sync status
LEMMA SyncFields ==
    ASSUME TypeOK
    PROVE  /\ sync.chainHead \in Nat
           /\ sync.indexed \in Nat \cup {-1}
           /\ sync.canonical \in Nat
           /\ sync.canonicalBlock \in Block \cup {NoBlock}
           /\ sync.processed \in Nat \cup {-1}
           /\ sync.processedBlock \in Block \cup {NoBlock}
BY DEF TypeOK, SyncStatus

\* without null rounds there is a block of the chain at each height
LEMMA NoGap ==
    ASSUME NoNullRounds, NEW h \in Block, NEW n \in Nat,
           Number[Root] <= n, n <= Number[h]
    PROVE  \E a \in Ancestors[h] : Number[a] = n
<1> SUFFICES ASSUME \A a \in Ancestors[h] : Number[a] # n
             PROVE  FALSE
  OBVIOUS
<1> DEFINE S == {a \in Ancestors[h] : Number[a] > n}
<1>1. h \in Ancestors[h] /\ Ancestors[h] \subseteq Block
  BY AncestorsClosed, AncestorsTyped
<1>2. h \in S
  BY <1>1, BlockTreeAssumption
<1>3. ASSUME NEW a \in S \ {Root}
      PROVE  Parent[a] \in S
  <2>1. a \in Block /\ Parent[a] \in Block /\ Parent[a] \in Ancestors[h]
    BY <1>1, AncestorsClosed, BlockTreeAssumption DEF ParentClosed
  <2>2. Number[a] = Number[Parent[a]] + 1
    BY <2>1 DEF NoNullRounds
  <2>3. Number[Parent[a]] \in Nat /\ Number[Parent[a]] # n
    BY <2>1, BlockTreeAssumption
  <2> QED
    BY <2>1, <2>2, <2>3
<1>4. S \in ParentClosed
  BY <1>1, <1>3 DEF ParentClosed
<1>5. Root \in S
  BY <1>2, <1>4, ClosedHoldsAncestors, RootAssumption
<1> QED
  BY <1>5, BlockTreeAssumption

\* of two blocks of a chain the lower is an ancestor of the other
LEMMA LowerIsAncestor ==
    ASSUME NEW h \in Block, NEW x \in Ancestors[h], NEW y \in Ancestors[h],
           Number[x] <= Number[y]
    PROVE  x \in Ancestors[y]
<1>1. x \in Block /\ y \in Block
  BY AncestorsTyped
<1>2. CASE y \in Ancestors[x]
  BY <1>1, <1>2, AncestorsBelow, BlockTreeAssumption
<1> QED
  BY <1>1, <1>2, AncestorsLinear DEF OnOneBranch

\* a complete block is complete with its ancestors
LEMMA CompleteBelow ==
    ASSUME TypeOK, Rows, NEW b \in complete, NEW a \in Ancestors[b]
    PROVE  a \in complete
<1>1. complete \in ParentClosed
  BY DEF TypeOK, Rows, ParentClosed
<1> QED
  BY <1>1, ClosedHoldsAncestors

\* so are the blocks below a row
LEMMA RowsBelow ==
    ASSUME TypeOK, Rows, NEW b \in saved, NEW a \in Ancestors[b], a # b
    PROVE  a \in complete
<1>1. b \in Block
  BY DEF TypeOK
<1>2. b # Root
  <2>1. {Root} \in ParentClosed
    BY BlockTreeAssumption DEF ParentClosed
  <2> QED
    BY <2>1, ClosedHoldsAncestors
<1>3. a \in Ancestors[Parent[b]]
  BY <1>1, <1>2, AncestorsOfParent
<1>4. Parent[b] \in complete
  BY <1>2 DEF Rows
<1> QED
  BY <1>3, <1>4, CompleteBelow

\* the chain of the upstream is complete up to MAX_REORG_DEPTH below any row
LEMMA ChainComplete ==
    ASSUME NoNullRounds, TypeOK, WindowInv, Permanent, Rows,
           NEW s \in saved, NEW a \in Ancestors[head],
           Number[a] + MaxReorgDepth <= Number[s]
    PROVE  a \in complete
<1>1. s \in Block /\ head \in Block /\ s \in published
  BY DEF TypeOK, WindowInv, BlocksKnown
<1>2. a \in Block
  BY <1>1, AncestorsTyped
<1>3. Number[a] \in Nat /\ Number[s] \in Nat /\ MaxReorgDepth \in Nat \ {0}
      /\ Number[Root] <= Number[a]
  BY <1>1, <1>2, Numbers
<1>4. PICK x \in Ancestors[s] : Number[x] = Number[a]
  BY <1>1, <1>3, NoGap
<1>5. x \in Ancestors[head]
  BY <1>1, <1>4 DEF Permanent
<1>6. x = a
  BY <1>1, <1>4, <1>5, OneAncestorPerHeight
<1>7. x # s
  BY <1>3, <1>4
<1> QED
  BY <1>4, <1>6, <1>7, RowsBelow

\* and up to the settled height
LEMMA SettledComplete ==
    ASSUME TypeOK, Rows, Settled, HasSync,
           NEW a \in Ancestors[head], Number[a] <= sync.canonical
    PROVE  a = Root \/ a \in complete
<1>1. head \in Block
  BY DEF TypeOK
<1>2. a \in Ancestors[sync.canonicalBlock]
  BY <1>1, LowerIsAncestor DEF Settled
<1>3. CASE sync.canonicalBlock = Root
  <2>1. {Root} \in ParentClosed
    BY BlockTreeAssumption DEF ParentClosed
  <2> QED
    BY <1>2, <1>3, <2>1, ClosedHoldsAncestors
<1>4. CASE sync.canonicalBlock # Root
  BY <1>2, <1>4, CompleteBelow DEF Settled
<1> QED
  BY <1>3, <1>4

-------------------------------------------------------------------------------
(* Steps of the upstream and of pruning.                                    *)

\* the head moves
LEMMA HeadMoves ==
    ASSUME NoNullRounds, TypeOK, WindowInv, ChainInv,
           NEW b \in Block, AdvanceHead(b)
    PROVE  ChainInv'
<1> USE DEF chainVars, tableVars, dbVars, blockQueue, eventQueue,
            completions, queueVars, blockWorker, memoryVars, processVars
<1>1. /\ head \in Block /\ head' = b
      /\ Number[head] \in Nat /\ Number[b] \in Nat /\ Number[head] <= Number[b]
      /\ MaxReorgDepth \in Nat \ {0}
  BY Numbers DEF AdvanceHead, TypeOK
<1>2. ASSUME NEW a \in Ancestors[head], Number[a] + MaxReorgDepth <= Number[head]
      PROVE  a \in Ancestors[b]
  <2>1. a \in Block /\ Number[a] \in Nat
    BY <1>1, AncestorsTyped, Numbers
  <2>2. Number[a] <= Number[head] - MaxReorgDepth
    BY <1>1, <1>2, <2>1
  <2> QED
    BY <2>2 DEF AdvanceHead
<1>3. Permanent'
  <2>1. published' = published \cup Ancestors[b]
    BY DEF AdvanceHead
  <2>2. ASSUME NEW c \in published, NEW a \in Ancestors[c],
               Number[a] + MaxReorgDepth <= Number[c]
        PROVE  a \in Ancestors[b]
    <3>1. a \in Ancestors[head]
      BY <2>2 DEF ChainInv, Permanent
    <3>2. c \in Block /\ Number[c] <= Number[head]
      BY DEF TypeOK, WindowInv, ChainKnown
    <3>3. a \in Block /\ Number[a] \in Nat /\ Number[c] \in Nat
      BY <3>2, AncestorsTyped, Numbers
    <3> QED
      BY <1>1, <1>2, <2>2, <3>1, <3>2, <3>3
  <2>3. ASSUME NEW c \in Ancestors[b], NEW a \in Ancestors[c]
        PROVE  a \in Ancestors[b]
    BY AncestorsTransitive
  <2> QED
    BY <1>1, <2>1, <2>2, <2>3 DEF Permanent
<1>4. ASSUME NEW a \in Ancestors[head],
             \/ Number[a] <= sync.canonical /\ HasSync
             \/ /\ active.stage = "commit"
                /\ Number[a] <= active.job.height
      PROVE  a \in Ancestors[b]
  <2>1. a \in Block /\ Number[a] \in Nat /\ Number[Root] \in Nat
        /\ Number[Root] <= Number[a]
    BY <1>1, AncestorsTyped, Numbers
  <2>2. CASE active.stage = "commit" /\ Number[a] <= active.job.height
    <3>1. active.job.height \in Nat
      BY ActiveTyped
    <3>2. active.job.height + MaxReorgDepth <= Number[head]
      BY <2>2 DEF WindowInv, HeightsReached
    <3> QED
      BY <1>1, <1>2, <2>1, <2>2, <3>1, <3>2
  <2>3. CASE Number[a] <= sync.canonical /\ HasSync
    <3>1. CASE sync.canonical = Number[Root]
      <4>1. Number[a] = Number[Root]
        BY <2>1, <2>3, <3>1
      <4>2. a = Root
        BY <1>1, <4>1, OneAncestorPerHeight, RootAssumption
      <4> QED
        BY <4>2, RootAssumption
    <3>2. CASE sync.canonical + MaxReorgDepth <= Number[head]
      BY <1>1, <1>2, <2>1, <2>3, <3>2, SyncFields
    <3> QED
      BY <2>3, <3>1, <3>2 DEF WindowInv, ReorgWindowOpen
  <2> QED
    BY <1>4, <2>2, <2>3
<1>5. UNCHANGED <<dbVars, queueVars, memoryVars, processVars>>
  BY DEF AdvanceHead
<1>6. Settled'
  <2>1. HasSync' <=> HasSync
    BY <1>5 DEF HasSync
  <2>2. ASSUME HasSync, NEW a \in Ancestors[head], Number[a] <= sync.canonical
        PROVE  a \in Ancestors[b]
    BY <1>4, <2>2
  <2>3. HasSync => /\ sync.canonicalBlock \in Ancestors[head]
                   /\ Number[sync.canonicalBlock] <= sync.canonical
    BY SyncFields DEF ChainInv, Settled
  <2> QED
    BY <1>1, <1>5, <2>1, <2>2, <2>3 DEF ChainInv, Settled, Unpruned
<1>7. Committing'
  <2>1. ASSUME active.stage = "commit", NEW a \in Ancestors[head],
               Number[a] <= active.job.height
        PROVE  a \in Ancestors[b]
    BY <1>4, <2>1
  <2>2. active.job.height <= active.job.height
    BY ActiveTyped
  <2> QED
    BY <1>1, <1>5, <2>1, <2>2 DEF ChainInv, Committing, Unpruned
<1>8. PrunedGone'
  <2>1. ASSUME NEW c \in pruned
        PROVE  c \notin Ancestors[b] /\ Number[c] + MaxReorgDepth <= Number[b]
    <3>1. /\ c \in Block /\ Number[c] \in Nat
          /\ Number[Root] <= Number[c]
          /\ c \notin Ancestors[head]
          /\ Number[c] + MaxReorgDepth <= Number[head]
      <4>1. c \in Block
        BY DEF TypeOK
      <4> QED
        BY <4>1, Numbers DEF ChainInv, PrunedGone
    <3>2. Number[c] <= Number[head]
      BY <1>1, <3>1
    <3>3. PICK x \in Ancestors[head] : Number[x] = Number[c]
      BY <1>1, <3>1, <3>2, NoGap
    <3>4. x \in Ancestors[b] /\ x # c
      BY <1>2, <3>1, <3>3
    <3>5. c \notin Ancestors[b]
      BY <3>3, <3>4, OneAncestorPerHeight
    <3> QED
      BY <1>1, <3>1, <3>5
  <2> QED
    BY <1>1, <1>5, <2>1 DEF ChainInv, PrunedGone
<1>9. CallsOfJob' /\ FetchByNumber' /\ CallsChecked' /\ Rows' /\ PruneNext'
  BY <1>5
  DEF ChainInv, CallsOfJob, FetchByNumber, CallsChecked, Rows, PruneNext, Waiting
<1>10. EventsOfRows' /\ ProcessedRow' /\ IndexedSaved'
  BY <1>5 DEF ChainInv, EventsOfRows, ProcessedRow, IndexedSaved
<1>11. Fresh'
  BY <1>5 DEF ChainInv, Fresh, Handled, Waiting
<1> QED
  BY <1>3, <1>6, <1>7, <1>8, <1>9, <1>10, <1>11 DEF ChainInv

\* what _pruneChain keeps at the height after the settled one is the block of
\* the chain there, which has been processed
LEMMA KeptOnChain ==
    ASSUME NoNullRounds, TypeOK, WindowInv, ChainInv, HasSync,
           NEW h \in Nat, h = sync.canonical + 1, PruneSafe(h),
           NEW b \in Canonical(h, BlocksAtHeight(h))
    PROVE  /\ b \in Ancestors[head]
           /\ Number[b] = h
<1>1. /\ sync.indexed \in Int /\ MaxReorgDepth \in Nat \ {0}
      /\ sync.indexed >= h + MaxReorgDepth
      /\ head \in Block /\ Number[Root] \in Nat
      /\ sync.canonical \in Nat
  BY SyncFields, RealtimeSyncAssumption, BlockTreeAssumption
  DEF PruneSafe, TypeOK
<1>2. PICK s \in saved : sync.indexed <= Number[s]
  BY <1>1 DEF ChainInv, IndexedSaved
<1>3. /\ s \in Block /\ s \in published
      /\ Number[s] \in Nat /\ h + MaxReorgDepth <= Number[s]
  BY <1>1, <1>2, Numbers DEF TypeOK, WindowInv, BlocksKnown
<1>4. Number[Root] <= h
  <2>1. sync.canonicalBlock \in Block
    BY <1>1, AncestorsTyped DEF ChainInv, Settled
  <2> QED
    BY <1>1, <2>1, Numbers DEF ChainInv, Settled
<1>5. PICK x \in Ancestors[s] : Number[x] = h
  BY <1>1, <1>3, <1>4, NoGap
<1>6. x \in Ancestors[head] /\ x \in saved
  <2>1. x \in Ancestors[head]
    BY <1>3, <1>5 DEF ChainInv, Permanent
  <2>2. x \in complete
    BY <1>3, <1>5, <2>1, ChainComplete DEF ChainInv
  <2> QED
    BY <2>1, <2>2 DEF TypeOK
<1>7. x \in BlocksAtHeight(h)
  BY <1>5, <1>6
  DEF BlocksAtHeight, AtHeight, Unpruned, ChainInv, PrunedGone
<1>8. CASE Cardinality(BlocksAtHeight(h)) = 1
  <2>1. IsFiniteSet(BlocksAtHeight(h))
    BY FS_Subset DEF BlocksAtHeight, AtHeight, Unpruned, ChainInv, Rows
  <2>2. PICK y : BlocksAtHeight(h) = {y}
    BY <1>8, <2>1, FS_Singleton
  <2>3. Canonical(h, BlocksAtHeight(h)) = {x}
    BY <1>7, <1>8, <2>2 DEF Canonical
  <2> QED
    BY <1>5, <1>6, <2>3
<1>9. CASE Cardinality(BlocksAtHeight(h)) # 1
  <2>1. PICK c \in IndexedForPrune(h) : b \in StoredAncestor(c, h)
    BY <1>7, <1>9 DEF Canonical
  <2>2. /\ c \in saved /\ Number[c] \in (h + 2)..(h + MaxReorgDepth)
        /\ \A y \in Unpruned :
               Number[y] \in (h + 2)..(h + MaxReorgDepth)
                   => Number[y] <= Number[c]
    BY <2>1 DEF IndexedForPrune, Highest, Unpruned
  <2>3. c \in Block /\ c \in published
    BY <2>2 DEF TypeOK, WindowInv, BlocksKnown
  <2>4. Number[c] = h + MaxReorgDepth
    <3>1. PICK y \in Ancestors[s] : Number[y] = h + MaxReorgDepth
      BY <1>1, <1>3, <1>4, NoGap
    <3>2. y \in saved
      BY <1>2, <3>1, RowsBelow DEF ChainInv, TypeOK
    <3>3. y \notin pruned
      <4>1. ~(Number[y] <= sync.canonical + 1)
        BY <1>1, <3>1
      <4> QED
        BY <4>1 DEF ChainInv, PrunedGone
    <3>4. Number[y] <= Number[c]
      BY <1>1, <2>2, <3>1, <3>2, <3>3 DEF Unpruned
    <3> QED
      BY <1>1, <2>2, <3>1, <3>4
  <2>5. PICK z \in Ancestors[c] : Number[z] = h
    BY <1>1, <1>4, <2>3, <2>4, NoGap
  <2>6. z \in Ancestors[head]
    BY <1>1, <2>3, <2>4, <2>5 DEF ChainInv, Permanent
  <2>7. \A a \in Ancestors[c] : a \in saved
    BY <2>2, RowsBelow DEF ChainInv, TypeOK
  <2>8. /\ b \in Ancestors[c]
        /\ b = c \/ Number[b] >= h
        /\ Number[b] <= Number[z]
    <3> DEFINE T == {a \in Ancestors[c] :
                       \/ a = c
                       \/ /\ Number[a] >= h
                          /\ \A d \in Ancestors[c] :
                                 Number[a] <= Number[d] => d \in saved}
    <3>1. b \in Lowest(T)
      BY <2>1 DEF StoredAncestor
    <3>2. z \in T
      BY <1>1, <2>5, <2>7
    <3> QED
      BY <3>1, <3>2 DEF Lowest
  <2>9. b \in Block /\ Number[b] \in Nat
    BY <2>3, <2>8, AncestorsTyped, Numbers
  <2>10. Number[b] = h
    BY <1>1, <2>4, <2>5, <2>8, <2>9
  <2>11. b = z
    BY <2>3, <2>5, <2>8, <2>10, OneAncestorPerHeight
  <2> QED
    BY <2>6, <2>10, <2>11
<1> QED
  BY <1>8, <1>9

\* the blocks of a height are marked
LEMMA PruneMarks ==
    ASSUME NoNullRounds, TypeOK, WindowInv, InFlightUp, ChainInv, PruneMark
    PROVE  ChainInv'
<1> DEFINE h == active.job.height
           at == BlocksAtHeight(h)
<1> USE DEF chainVars, tableVars, dbVars, blockQueue, eventQueue,
            completions, queueVars, blockWorker, memoryVars, processVars
<1>1. /\ active.stage = "prune" /\ active.job.kind = "prune"
      /\ PruneSafe(h) /\ sync.canonical < h
      /\ h \in Nat /\ sync.canonical \in Nat /\ sync.indexed \in Int
      /\ MaxReorgDepth \in Nat /\ head \in Block /\ Number[head] \in Nat
      /\ sync.indexed <= Number[head]
  BY ActiveTyped, SyncFields, Numbers
  DEF PruneMark, InFlightUp, WindowInv, HeightsReached, TypeOK
<1>2. HasSync
  BY <1>1 DEF WindowInv, FreshStart, FirstJob, ByNumber, Idle
<1>3. h = sync.canonical + 1
  BY <1>1 DEF ChainInv, PruneNext, Waiting
<1>4. PICK k \in Canonical(h, at) :
          /\ active' = [active EXCEPT !.stage = "commit", !.keep = k]
          /\ pruned' = pruned \cup Discarded(at, k)
  BY DEF PruneMark
<1>5. k \in Ancestors[head] /\ Number[k] = h
  BY <1>1, <1>2, <1>3, <1>4, KeptOnChain
<1>6. /\ active'.stage = "commit" /\ active'.job = active.job
      /\ active'.keep = k
  BY <1>1, <1>4 DEF TypeOK, Worker, Idle
<1>7. /\ UNCHANGED <<head, published, saved, complete, sync, eventActive,
                     runnerUp, tasks, Waiting, eventJobs>>
      /\ tasks = {}
  BY <1>1, <1>6 DEF PruneMark, Waiting, ChainInv, CallsOfJob
<1>8. ASSUME NEW b \in Unpruned', Number[b] <= h
      PROVE  b \in Ancestors[head]
  <2>1. b \in Unpruned /\ b \in Block /\ Number[b] \in Nat
        /\ b \notin Discarded(at, k)
    BY <1>4, <1>7, Numbers DEF Unpruned, TypeOK
  <2>2. CASE Number[b] = h
    <3>1. b \in at
      BY <2>1, <2>2 DEF BlocksAtHeight, AtHeight
    <3> QED
      BY <1>5, <2>1, <3>1 DEF Discarded
  <2>3. CASE Number[b] # h
    <3>1. Number[b] <= sync.canonical
      BY <1>1, <1>3, <1>8, <2>1, <2>3
    <3> QED
      BY <1>2, <2>1, <3>1 DEF ChainInv, Settled
  <2> QED
    BY <2>2, <2>3
<1>9. ASSUME NEW b \in Discarded(at, k)
      PROVE  /\ b \notin Ancestors[head]
             /\ Number[b] <= sync.canonical + 1
             /\ Number[b] + MaxReorgDepth <= Number[head]
  <2>1. b \in Block /\ Number[b] = h /\ b # k
    BY <1>9 DEF Discarded, BlocksAtHeight, AtHeight, Unpruned, TypeOK
  <2>2. b \notin Ancestors[head]
    BY <1>1, <1>5, <2>1, OneAncestorPerHeight
  <2> QED
    BY <1>1, <1>3, <2>1, <2>2 DEF PruneSafe
<1>10. Committing'
  BY <1>1, <1>5, <1>6, <1>7, <1>8 DEF Committing, PruneSafe
<1>11. PrunedGone'
  BY <1>4, <1>7, <1>9 DEF ChainInv, PrunedGone
<1>12. Settled'
  <2>1. Unpruned' \subseteq Unpruned
    BY <1>4, <1>7 DEF Unpruned
  <2>2. HasSync' <=> HasSync
    BY <1>7 DEF HasSync
  <2> QED
    BY <1>7, <2>1, <2>2 DEF ChainInv, Settled
<1>13. Permanent' /\ CallsOfJob' /\ CallsChecked' /\ Rows' /\ PruneNext'
  BY <1>7
  DEF ChainInv, Permanent, CallsOfJob, CallsChecked, Rows, PruneNext
<1>14. EventsOfRows' /\ ProcessedRow' /\ IndexedSaved' /\ FetchByNumber'
  BY <1>6, <1>7
  DEF ChainInv, EventsOfRows, ProcessedRow, IndexedSaved, FetchByNumber
<1>15. Fresh'
  BY <1>7 DEF ChainInv, Fresh, Handled
<1> QED
  BY <1>10, <1>11, <1>12, <1>13, <1>14, <1>15 DEF ChainInv

\* the block that a prune job settles on follows the last one, and is complete
LEMMA CommitSettles ==
    ASSUME NoNullRounds, TypeOK, WindowInv, InFlightUp, ChainInv, PruneCommit
    PROVE  /\ HasSync
           /\ active.keep \in complete \ {Root}
           /\ Parent[active.keep] = sync.canonicalBlock
           /\ Number[active.keep] = sync.canonical + 1
           /\ Number[active.keep] <= sync.processed
           /\ sync' = [sync EXCEPT !.canonical = Number[active.keep],
                                   !.canonicalBlock = active.keep]
<1> DEFINE h == active.job.height
           k == active.keep
<1>1. /\ active.stage = "commit" /\ active.job.kind = "prune"
      /\ sync.canonical < h /\ h + MaxReorgDepth <= sync.indexed
      /\ k \in Ancestors[head] /\ Number[k] = h
      /\ h \in Nat /\ sync.canonical \in Nat /\ sync.indexed \in Int
      /\ MaxReorgDepth \in Nat \ {0} /\ head \in Block
      /\ sync.processed \in Int
  BY ActiveTyped, SyncFields, Numbers
  DEF PruneCommit, InFlightUp, ChainInv, Committing, TypeOK
<1>2. HasSync
  BY <1>1 DEF WindowInv, FreshStart, FirstJob, ByNumber, Idle
<1>3. h = sync.canonical + 1
  BY <1>1 DEF ChainInv, PruneNext, Waiting
<1>4. PICK s \in saved : sync.indexed <= Number[s]
  BY <1>1 DEF ChainInv, IndexedSaved
<1>5. s \in Block /\ k \in Block /\ Number[s] \in Nat /\ Number[k] \in Nat
      /\ Number[Root] \in Nat
  BY <1>1, AncestorsTyped, Numbers DEF TypeOK
<1>6. k \in complete
  BY <1>1, <1>4, <1>5, ChainComplete DEF ChainInv
<1>7. sync.canonicalBlock \in Ancestors[head]
      /\ Number[sync.canonicalBlock] = sync.canonical
  BY <1>2 DEF ChainInv, Settled
<1>8. Number[Root] <= sync.canonical
  BY <1>1, <1>7, AncestorsTyped, Numbers
<1>9. k # Root
  BY <1>1, <1>3, <1>5, <1>8
<1>10. Parent[k] = sync.canonicalBlock
  <2>1. Parent[k] \in Ancestors[head] /\ Parent[k] \in Block
    BY <1>1, <1>5, <1>9, AncestorsClosed, BlockTreeAssumption DEF ParentClosed
  <2>2. Number[k] = Number[Parent[k]] + 1 /\ Number[Parent[k]] \in Nat
    BY <1>5, <1>9, <2>1, Numbers DEF NoNullRounds
  <2>3. Number[Parent[k]] = sync.canonical
    BY <1>1, <1>3, <2>2
  <2> QED
    BY <1>1, <1>7, <2>1, <2>3, OneAncestorPerHeight
<1>11. Number[k] <= sync.processed
  <2>1. s # Root
    BY <1>1, <1>3, <1>4, <1>5, <1>8
  <2>2. Parent[s] \in Block /\ Number[s] = Number[Parent[s]] + 1
        /\ Number[Parent[s]] <= sync.processed
    BY <1>5, <2>1, BlockTreeAssumption DEF NoNullRounds, ChainInv, Rows
  <2>3. Number[Parent[s]] \in Nat
    BY <2>2, Numbers
  <2> QED
    BY <1>1, <1>4, <1>5, <2>2, <2>3
<1>12. sync' = [sync EXCEPT !.canonical = h, !.canonicalBlock = k]
  BY <1>1 DEF PruneCommit, WithCanonical
<1> QED
  BY <1>1, <1>2, <1>3, <1>6, <1>9, <1>10, <1>11, <1>12

\* so the settled rows stay those of the chain
LEMMA PruneCommits ==
    ASSUME NoNullRounds, TypeOK, WindowInv, InFlightUp, ChainInv, PruneCommit
    PROVE  ChainInv'
<1> DEFINE h == active.job.height
           k == active.keep
<1> USE DEF chainVars, tableVars, dbVars, blockQueue, eventQueue,
            completions, queueVars, blockWorker, memoryVars, processVars
<1>1. /\ active.stage = "commit" /\ sync.canonical < h
      /\ h + MaxReorgDepth <= sync.indexed
      /\ k \in Ancestors[head] /\ Number[k] = h
      /\ \A b \in Unpruned : Number[b] <= h => b \in Ancestors[head]
      /\ h \in Nat /\ sync.canonical \in Nat /\ sync.indexed \in Int
      /\ MaxReorgDepth \in Nat
  BY ActiveTyped, SyncFields, Numbers
  DEF PruneCommit, ChainInv, Committing, TypeOK
<1>2. /\ HasSync
      /\ k \in complete \ {Root}
      /\ h = sync.canonical + 1 /\ h <= sync.processed
      /\ sync' = [sync EXCEPT !.canonical = h, !.canonicalBlock = k]
  BY <1>1, CommitSettles
<1>3. /\ sync'.canonical = h /\ sync'.canonicalBlock = k
      /\ UNCHANGED <<sync.chainHead, sync.indexed, sync.processed,
                     sync.processedBlock>>
  BY <1>2 DEF TypeOK, SyncStatus
<1>4. /\ UNCHANGED <<head, published, saved, complete, pruned, eventActive,
                     runnerUp, tasks, eventJobs>>
      /\ active' = Idle
      /\ tasks = {}
  BY <1>1 DEF PruneCommit, ChainInv, CallsOfJob
<1>5. \A j \in Waiting' : j \in Waiting \/ j.kind = "number"
  BY <1>4 DEF PruneCommit, Waiting, Idle, ByNumber
<1>6. Settled'
  BY <1>1, <1>2, <1>3, <1>4 DEF Settled, Unpruned
<1>7. PruneNext'
  <2>1. ASSUME NEW j \in Waiting', j.kind = "prune"
        PROVE  j.height <= h + 1
    <3>1. j \in Waiting /\ j \in Job
      BY <1>5, <2>1, ActiveTyped DEF Waiting, TypeOK
    <3>2. j.height \in Nat /\ j.height <= sync.canonical + 1
      BY <2>1, <3>1 DEF Job, ChainInv, PruneNext
    <3> QED
      BY <1>1, <3>2
  <2> QED
    BY <1>3, <2>1 DEF PruneNext
<1>8. Fresh'
  <2>1. ASSUME NEW b \in Handled', NEW a \in Ancestors[b], Number[a] <= h
        PROVE  a = Root \/ a \in complete
    <3>1. b \in Handled
      BY <1>4, <1>5 DEF Handled
    <3>2. PICK s \in saved : sync.indexed <= Number[s]
      BY <1>1 DEF ChainInv, IndexedSaved
    <3>3. b \in published
      BY <3>1 DEF Handled, Waiting, WindowInv, BlocksKnown, Jobs
    <3>4. Number[a] \in Nat /\ Number[s] \in Nat
      BY <3>2, <3>3, AncestorsTyped, Numbers DEF TypeOK
    <3>5. Number[a] + MaxReorgDepth <= Number[s]
      BY <1>1, <2>1, <3>2, <3>4
    <3> QED
      BY <3>1, <3>2, <3>5 DEF ChainInv, Fresh
  <2>2. \A b \in Handled' : b \in Handled
    BY <1>4, <1>5 DEF Handled
  <2> QED
    BY <1>3, <1>4, <2>1, <2>2 DEF ChainInv, Fresh
<1>9. PrunedGone'
  <2>1. ASSUME NEW b \in pruned
        PROVE  Number[b] <= h + 1
    <3>1. Number[b] \in Nat /\ Number[b] <= sync.canonical + 1
      BY Numbers DEF TypeOK, ChainInv, PrunedGone
    <3> QED
      BY <1>1, <3>1
  <2> QED
    BY <1>3, <1>4, <2>1 DEF ChainInv, PrunedGone
<1>10. Permanent' /\ CallsOfJob' /\ CallsChecked' /\ Rows' /\ Committing'
  BY <1>3, <1>4
  DEF ChainInv, Permanent, CallsOfJob, CallsChecked, Rows, Committing, Idle
<1>11. EventsOfRows' /\ ProcessedRow' /\ IndexedSaved' /\ FetchByNumber'
  BY <1>3, <1>4
  DEF ChainInv, EventsOfRows, ProcessedRow, IndexedSaved, FetchByNumber, Idle
<1> QED
  BY <1>6, <1>7, <1>8, <1>9, <1>10, <1>11 DEF ChainInv

-------------------------------------------------------------------------------
(* Steps that leave the tables and the sync status alone.                   *)

\* jobs move between the queues and the workers, or are lost
LEMMA JobsMove ==
    ASSUME TypeOK, WindowInv, ChainInv,
           UNCHANGED <<head, published, saved, complete, pruned, sync>>,
           runnerUp' => runnerUp,
           \/ active' = active
           \/ active'.stage \notin {"fetch", "commit"}
           \/ active'.stage = "fetch" /\ active'.job.kind = "number",
           CallsOfJob', CallsChecked',
           \A b \in Handled' : \E c \in Handled : b \in Ancestors[c],
           \A j \in Waiting' : \/ j \in Waiting
                               \/ j.kind = "prune" => j.height <= sync.canonical + 1,
           runnerUp' => \A i \in DOMAIN eventJobs' : eventJobs'[i] \in saved,
           \/ eventActive' = eventActive
           \/ /\ runnerUp' => eventActive.stage # "status"
              /\ eventActive'.stage # "status"
              /\ eventActive' # NoEvents => eventActive'.block \in saved
    PROVE  ChainInv'
<1>1. HasSync' <=> HasSync
  BY DEF HasSync
<1>2. Permanent' /\ Rows' /\ IndexedSaved' /\ PrunedGone'
  BY DEF ChainInv, Permanent, Rows, IndexedSaved, PrunedGone
<1>3. Settled' /\ Committing' /\ FetchByNumber'
  BY <1>1 DEF ChainInv, Settled, Committing, FetchByNumber, Unpruned
<1>4. EventsOfRows'
  BY DEF ChainInv, EventsOfRows
<1>5. ProcessedRow'
  BY DEF ChainInv, ProcessedRow
<1>6. PruneNext'
  BY DEF ChainInv, PruneNext
<1>7. Fresh'
  <2>1. ASSUME NEW b \in Handled', NEW a \in Ancestors[b]
        PROVE  \E c \in Handled : a \in Ancestors[c]
    <3>1. PICK c \in Handled : b \in Ancestors[c]
      OBVIOUS
    <3>2. c \in Block
      BY <3>1 DEF Handled, Waiting, WindowInv, BlocksKnown, Jobs, TypeOK
    <3> QED
      BY <3>1, <3>2, AncestorsTransitive
  <2> QED
    BY <2>1 DEF ChainInv, Fresh
<1> QED
  BY <1>2, <1>3, <1>4, <1>5, <1>6, <1>7 DEF ChainInv

\* the blocks named come from the upstream
LEMMA HandledKnown ==
    ASSUME TypeOK, WindowInv, NEW b \in Handled
    PROVE  b \in published /\ b \in Block /\ b \in Ancestors[b]
<1>1. b \in published
  BY DEF Handled, Waiting, WindowInv, BlocksKnown, Jobs
<1> QED
  BY <1>1, AncestorsClosed DEF TypeOK

\* a call of _indexBlock is alone in flight
LEMMA CallAlone ==
    ASSUME TypeOK, InFlightInv, NEW t \in tasks
    PROVE  /\ InFlightUp
           /\ tasks = {t}
           /\ IndexJobs(blockJobs \cup blockRetries \cup batch) = {}
           /\ DOMAIN eventJobs = {}
           /\ eventActive = NoEvents
           /\ active # Idle => active.stage # "fetch"
<1>1. InFlightUp
  BY DEF InFlightInv, InFlightDown
<1>2. t \in Places[5]
  BY PlacesNow
<1>3. OneBlockInFlight
  BY <1>1 DEF InFlightUp
<1>4. /\ Places[5] = {t}
      /\ Places[1] = {} /\ Places[2] = {} /\ Places[3] = {} /\ Places[4] = {}
      /\ Places[6] = {} /\ Places[7] = {}
  BY <1>2, <1>3, NowhereElse
<1>5. /\ tasks = {t}
      /\ IndexJobs(blockJobs) = {} /\ IndexJobs(blockRetries) = {}
      /\ IndexJobs(batch) = {}
      /\ DOMAIN eventJobs = {} /\ eventActive = NoEvents
      /\ active.stage # "fetch"
  BY <1>4, PlacesNow
<1> QED
  BY <1>1, <1>5 DEF IndexJobs

\* a call that fails, and the job with it
LEMMA CallFails ==
    ASSUME TypeOK, WindowInv, InFlightInv, ChainInv, NEW t \in tasks, FailTask(t)
    PROVE  /\ tasks' = {}
           /\ active' = Idle
           /\ blockRetries' \subseteq blockRetries \cup {active.job}
<1>1. tasks = {t} /\ t.waited
  BY CallAlone DEF ChainInv, CallsOfJob
<1> QED
  BY <1>1 DEF FailTask, FailBlockJob

\* no call is left
LEMMA CallsGone ==
    ASSUME tasks' = {}
    PROVE  CallsOfJob' /\ CallsChecked'
BY DEF CallsOfJob, CallsChecked

\* no call starts, goes on or ends
LEMMA CallsSame ==
    ASSUME ChainInv, UNCHANGED <<tasks, active, complete, saved>>
    PROVE  CallsOfJob' /\ CallsChecked'
BY DEF ChainInv, CallsOfJob, CallsChecked

\* what the remaining conjuncts of JobsMove need when no new block is named
LEMMA NothingNamed ==
    ASSUME TypeOK, WindowInv,
           \A t \in tasks' : \E u \in tasks : t.block = u.block,
           \A j \in Waiting' : j \in Waiting \/ j.kind # "hash"
    PROVE  \A b \in Handled' : \E c \in Handled : b \in Ancestors[c]
<1>1. \A b \in Handled' : b \in Handled
  BY DEF Handled
<1> QED
  BY <1>1, HandledKnown

\* a call goes on to its next stage
LEMMA CallMoves ==
    ASSUME TypeOK, InFlightInv, ChainInv, NEW t \in tasks,
           NEW stage, tasks' = Move(t, stage), active' = active
    PROVE  /\ CallsOfJob'
           /\ \A u \in tasks' : u.block = t.block /\ u.stage = stage
<1>1. tasks' = {[t EXCEPT !.stage = stage]} /\ t \in Task
  BY CallAlone DEF Move, TypeOK
<1>2. \A u \in tasks' : /\ u.block = t.block /\ u.stage = stage
                        /\ u.job = t.job /\ u.waited = t.waited
  BY <1>1 DEF Task
<1> QED
  BY <1>2 DEF ChainInv, CallsOfJob

\* the check on the parent, or the settled height, makes sure it is complete
LEMMA ParentChecked ==
    ASSUME TypeOK, WindowInv, ChainInv, NEW t \in tasks,
           AboveCanonical(t.block) => Parent[t.block] \in complete,
           t.block # Root
    PROVE  Parent[t.block] \in complete
<1>1. t.block \in Handled /\ t.block \in Block
  BY TaskTyped DEF Handled
<1>2. t.block \in Ancestors[t.block]
  BY <1>1, AncestorsClosed
<1>3. Number[t.block] \in Nat /\ sync.canonical \in Nat
  BY <1>1, Numbers, SyncFields
<1>4. CASE Number[t.block] <= sync.canonical
  <2>1. t.block \in complete
    BY <1>1, <1>2, <1>4 DEF ChainInv, Fresh
  <2> QED
    BY <2>1 DEF TypeOK, ChainInv, Rows
<1> QED
  BY <1>3, <1>4 DEF AboveCanonical

\* a call of _indexBlock goes on, ends or fails
LEMMA CallSteps ==
    ASSUME TypeOK, WindowInv, InFlightInv, ChainInv,
           NEW t \in tasks, IndexBlockStep(t), ~SaveBlock(t)
    PROVE  ChainInv'
<1> USE DEF chainVars, tableVars, dbVars, blockQueue, eventQueue,
            completions, queueVars, blockWorker, memoryVars, processVars
<1>1. /\ t \in Task /\ t.block \in Block /\ tasks = {t}
      /\ active.job \in Waiting /\ t.block \in Handled
      /\ DOMAIN eventJobs = {}
  BY CallAlone, TaskTyped DEF TypeOK, Waiting, Handled
<1>2. ASSUME FailTask(t),
             UNCHANGED <<chainVars, dbVars, eventQueue, batch, eventActive,
                         runnerUp>>,
             \A j \in blockJobs' : \/ j \in blockJobs
                                   \/ /\ j.kind = "prune"
                                      /\ j.height <= sync.canonical + 1
      PROVE  ChainInv'
  <2>1. /\ tasks' = {} /\ active' = Idle
        /\ blockRetries' \subseteq blockRetries \cup {active.job}
    BY <1>2, CallFails
  <2>2. \A j \in Waiting' : \/ j \in Waiting
                            \/ j.kind = "number"
                            \/ /\ j.kind = "prune"
                               /\ j.height <= sync.canonical + 1
    BY <1>2, <2>1 DEF Waiting, Idle, ByNumber
  <2>3. \A b \in Handled' : \E c \in Handled : b \in Ancestors[c]
    BY <2>1, <2>2, NothingNamed
  <2> QED
    BY <1>1, <1>2, <2>1, <2>2, <2>3, CallsGone, JobsMove DEF Idle
<1>3. CASE CheckPruning(t)
  <2>1. ASSUME NEW j \in blockJobs'
        PROVE  \/ j \in blockJobs
               \/ j.kind = "prune" /\ j.height <= sync.canonical + 1
    BY <1>3, SyncFields DEF CheckPruning, Prune
  <2> QED
    BY <1>2, <1>3, <2>1 DEF CheckPruning
<1>4. CASE IndexParentFirst(t)
  <2> DEFINE p == Parent[t.block]
  <2>1. /\ tasks' = {} /\ p \in Block
        /\ blockJobs' = blockJobs \cup {ByHash(p, t.job.priority + 1)}
        /\ UNCHANGED <<chainVars, dbVars, blockRetries, eventQueue, batch,
                       active, eventActive, runnerUp>>
    BY <1>1, <1>4 DEF IndexParentFirst, EndTask
  <2>2. \A j \in Waiting' : \/ j \in Waiting
                            \/ j.kind = "hash" /\ j.block = p
    BY <2>1 DEF Waiting, ByHash
  <2>3. p \in Ancestors[t.block]
    <3>1. t.block # Root
      BY <2>1, BlockTreeAssumption
    <3> QED
      BY <1>1, <3>1, AncestorsClosed DEF ParentClosed
  <2>4. \A b \in Handled' : b \in Handled \/ b = p
    BY <2>1, <2>2 DEF Handled
  <2>5. \A b \in Handled' : \E c \in Handled : b \in Ancestors[c]
    BY <1>1, <2>3, <2>4, HandledKnown
  <2> QED
    BY <1>1, <2>1, <2>2, <2>5, CallsGone, JobsMove
<1>5. ASSUME NEW stage \in {"load", "save", "push"}, tasks' = Move(t, stage),
             UNCHANGED <<chainVars, dbVars, queueVars, batch, active,
                         eventActive, runnerUp>>,
             t.block # Root => Parent[t.block] \in complete,
             stage # "save" => t.block \in saved
      PROVE  ChainInv'
  <2>1. CallsOfJob' /\ \A u \in tasks' : u.block = t.block /\ u.stage = stage
    BY <1>5, CallMoves
  <2>2. CallsChecked'
    BY <1>5, <2>1 DEF CallsChecked
  <2>3. \A b \in Handled' : \E c \in Handled : b \in Ancestors[c]
    BY <1>5, <2>1, NothingNamed DEF Waiting
  <2> QED
    BY <1>1, <1>5, <2>1, <2>2, <2>3, JobsMove DEF Waiting
<1>6. CASE CheckBlock(t)
  <2>1. t.block # Root => Parent[t.block] \in complete
    BY <1>6, ParentChecked DEF CheckBlock
  <2>2. CASE prefetched[t.block] = "absent"
    BY <1>2, <1>6, <2>2 DEF CheckBlock
  <2>3. CASE prefetched[t.block] # "absent"
    <3>1. CASE BlockProgressFound(t.block)
      BY <1>5, <1>6, <2>1, <2>3, <3>1 DEF CheckBlock, BlockProgressFound
    <3>2. CASE ~BlockProgressFound(t.block)
      BY <1>5, <1>6, <2>1, <2>3, <3>2 DEF CheckBlock
    <3> QED
      BY <3>1, <3>2
  <2> QED
    BY <2>2, <2>3
<1>7. CASE LoadBlock(t)
  <2>1. /\ t.block # Root => Parent[t.block] \in complete
        /\ t.block \in saved
    BY <1>7 DEF LoadBlock, ChainInv, CallsChecked
  <2> QED
    BY <1>5, <1>7, <2>1 DEF LoadBlock
<1>8. CASE SaveBlockAgain(t)
  BY <1>2, <1>8 DEF SaveBlockAgain
<1>9. CASE PushEventsJob(t)
  <2>1. /\ tasks' = {}
        /\ UNCHANGED <<chainVars, dbVars, blockQueue, batch, active,
                       eventActive, runnerUp>>
        /\ t.block \in saved
    BY <1>1, <1>9 DEF PushEventsJob, EndTask, ChainInv, CallsChecked
  <2>2. \A i \in DOMAIN eventJobs' : eventJobs'[i] \in saved
    <3>1. eventJobs = <<>>
      BY <1>1, EmptySeq DEF TypeOK
    <3>2. eventJobs' = <<t.block>>
      BY <1>9, <3>1 DEF PushEventsJob
    <3> QED
      BY <2>1, <3>2
  <2>3. \A b \in Handled' : \E c \in Handled : b \in Ancestors[c]
    BY <2>1, NothingNamed DEF Waiting
  <2> QED
    BY <2>1, <2>2, <2>3, CallsGone, JobsMove DEF Waiting
<1> QED
  BY <1>3, <1>4, <1>6, <1>7, <1>8, <1>9 DEF IndexBlockStep

\* the block of a call becomes a row
LEMMA SaveSteps ==
    ASSUME TypeOK, WindowInv, InFlightInv, ChainInv,
           NEW t \in tasks, SaveBlock(t)
    PROVE  ChainInv'
<1> USE DEF chainVars, tableVars, dbVars, blockQueue, eventQueue,
            completions, queueVars, blockWorker, memoryVars, processVars
<1>1. /\ t \in Task /\ t.block \in Block /\ tasks = {t}
      /\ t.block \in Handled /\ t.block \in Ancestors[t.block]
      /\ IndexJobs(blockJobs \cup blockRetries \cup batch) = {}
      /\ eventActive = NoEvents /\ runnerUp
      /\ HasSync
  BY CallAlone, TaskTyped, AncestorsClosed
  DEF TypeOK, Handled, InFlightUp, WindowInv, FreshStart
<1>2. /\ t.stage = "save" /\ t.block \notin saved
      /\ saved' = saved \cup {t.block}
      /\ tasks' = Move(t, "push")
      /\ UNCHANGED <<head, published, complete, pruned, sync, queueVars, batch,
                     active, eventActive, runnerUp>>
  BY DEF SaveBlock
<1>3. /\ t.block # Root => Parent[t.block] \in complete
      /\ active.stage = "index" /\ t.job = active.job
      /\ t.job.kind = "hash" => t.block = t.job.block
  BY <1>2 DEF ChainInv, CallsChecked, CallsOfJob
<1>4. CallsOfJob' /\ \A u \in tasks' : u.block = t.block /\ u.stage = "push"
  BY <1>2, CallMoves
<1>5. CallsChecked'
  BY <1>2, <1>3, <1>4 DEF CallsChecked
<1>6. Rows'
  <2>1. IsFiniteSet(saved')
    BY <1>2, FS_AddElement DEF ChainInv, Rows
  <2>2. t.block # Root => Number[Parent[t.block]] <= sync.processed
    BY <1>1, <1>3 DEF ChainInv, ProcessedRow, NoEvents
  <2> QED
    BY <1>2, <1>3, <2>1, <2>2 DEF ChainInv, Rows
<1>7. \A b \in Handled' : b = t.block
  <2>1. ASSUME NEW j \in Waiting', j.kind = "hash"
        PROVE  j = active.job
    BY <1>1, <1>2, <2>1 DEF Waiting, IndexJobs
  <2> QED
    BY <1>3, <1>4, <2>1 DEF Handled
<1>8. Fresh'
  <2>1. ASSUME NEW a \in Ancestors[t.block], NEW s \in saved',
               Number[a] + MaxReorgDepth <= Number[s]
        PROVE  a \in complete
    <3>1. CASE s \in saved
      BY <1>1, <2>1, <3>1 DEF ChainInv, Fresh
    <3>2. CASE s = t.block
      <4>1. a \in Block /\ Number[a] \in Nat /\ Number[t.block] \in Nat
            /\ MaxReorgDepth \in Nat \ {0}
        BY <1>1, AncestorsTyped, Numbers
      <4>2. a # t.block
        BY <2>1, <3>2, <4>1
      <4>3. t.block # Root
        <5>1. {Root} \in ParentClosed
          BY BlockTreeAssumption DEF ParentClosed
        <5> QED
          BY <4>2, <5>1, ClosedHoldsAncestors
      <4>4. a \in Ancestors[Parent[t.block]]
        BY <1>1, <4>2, <4>3, AncestorsOfParent
      <4> QED
        BY <1>3, <4>3, <4>4, CompleteBelow DEF ChainInv
    <3> QED
      BY <1>2, <2>1, <3>1, <3>2
  <2>2. ASSUME NEW a \in Ancestors[t.block], Number[a] <= sync.canonical
        PROVE  a = Root \/ a \in complete
    BY <1>1, <2>2 DEF ChainInv, Fresh
  <2> QED
    BY <1>2, <1>7, <2>1, <2>2 DEF Fresh
<1>9. EventsOfRows' /\ ProcessedRow' /\ IndexedSaved'
  BY <1>1, <1>2
  DEF ChainInv, EventsOfRows, ProcessedRow, IndexedSaved, NoEvents
<1>10. Settled'
  <2>1. Number[t.block] <= sync.canonical => t.block \in Ancestors[head]
    <3>1. ASSUME Number[t.block] <= sync.canonical
          PROVE  t.block = Root
      <4>1. t.block \notin complete
        BY <1>2 DEF TypeOK
      <4> QED
        BY <1>1, <3>1, <4>1 DEF ChainInv, Fresh
    <3> QED
      BY <3>1, RootAssumption DEF TypeOK
  <2>2. \A b \in Unpruned' : b \in Unpruned \/ b = t.block
    BY <1>2 DEF Unpruned
  <2>3. HasSync' <=> HasSync
    BY <1>2 DEF HasSync
  <2> QED
    BY <1>2, <2>1, <2>2, <2>3 DEF ChainInv, Settled
<1>11. Permanent' /\ PruneNext' /\ PrunedGone' /\ Committing' /\ FetchByNumber'
  BY <1>2, <1>3
  DEF ChainInv, Permanent, PruneNext, Waiting, PrunedGone, Committing,
      FetchByNumber
<1> QED
  BY <1>4, <1>5, <1>6, <1>8, <1>9, <1>10, <1>11 DEF ChainInv

-------------------------------------------------------------------------------
(* Steps that change the sync status or the rows.                           *)

\* a request by number is alone in flight
LEMMA FetchAlone ==
    ASSUME TypeOK, InFlightInv, active.stage = "fetch"
    PROVE  /\ tasks = {}
           /\ IndexJobs(blockJobs \cup blockRetries \cup batch) = {}
<1>1. OneBlockInFlight
  BY DEF InFlightInv, InFlightUp, InFlightDown
<1>2. active.job \in Places[4]
  BY PlacesNow
<1>3. Places[1] = {} /\ Places[2] = {} /\ Places[3] = {} /\ Places[5] = {}
  BY <1>1, <1>2, NowhereElse
<1> QED
  BY <1>3, PlacesNow DEF IndexJobs

\* the block returned is on the upstream's chain, and the first one starts the
\* sync status
LEMMA FetchStarts ==
    ASSUME ~AllBranches, TypeOK, WindowInv, FetchBlocksAtHeight
    PROVE  /\ FetchedFrom(active.job.height) \subseteq Ancestors[head]
           /\ HasSync => sync' = [sync EXCEPT !.chainHead = sync'.chainHead]
           /\ ~HasSync => /\ sync'.canonical = Number[Root]
                          /\ sync'.canonicalBlock = Root
                          /\ sync'.indexed = -1 /\ sync'.processed = -1
                          /\ sync'.processedBlock = NoBlock
                          /\ FetchedFrom(active.job.height) = {Root}
           /\ HasSync'
<1> DEFINE blocks == FetchedFrom(active.job.height)
<1>1. /\ head \in Block /\ Ancestors[head] \subseteq Block
      /\ active.job.height \in Nat
  BY AncestorsTyped, ActiveTyped DEF TypeOK
<1>2. blocks \subseteq Ancestors[head]
  BY DEF FetchedFrom, Lowest
<1>3. PICK b \in blocks : sync' = WithChainHead(Number[b], b)
  BY DEF FetchBlocksAtHeight
<1>4. b \in Block /\ Number[b] \in Nat \ {0}
  BY <1>1, <1>2, <1>3, BlockTreeAssumption
<1>5. ASSUME ~HasSync
      PROVE  blocks = {Root}
  <2>1. active.job.height = Number[Root]
    BY <1>5
    DEF FetchBlocksAtHeight, WindowInv, FreshStart, FirstJob, ByNumber, Idle
  <2>2. \A c \in blocks : Number[c] = Number[Root]
    BY <2>1, FirstFetched DEF WindowInv
  <2>3. \A c \in blocks : c = Root
    BY <1>1, <1>2, <2>2, OneAncestorPerHeight, RootAssumption
  <2> QED
    BY <1>3, <2>3
<1>6. ~HasSync => b = Root
  BY <1>3, <1>5
<1>7. HasSync => sync' = [sync EXCEPT !.chainHead = sync'.chainHead]
                 /\ sync'.chainHead # 0
  BY <1>3, <1>4 DEF WithChainHead, HasSync, TypeOK, SyncStatus
<1>8. ~HasSync => sync' = [NoSync EXCEPT !.chainHead = Number[Root],
                                         !.canonical = Number[Root],
                                         !.canonicalBlock = Root]
  BY <1>3, <1>6 DEF WithChainHead
<1> QED
  BY <1>2, <1>4, <1>5, <1>6, <1>7, <1>8 DEF NoSync, HasSync

\* a call starts for the block an RPC endpoint returns
LEMMA FetchSteps ==
    ASSUME NoNullRounds, ~AllBranches, TypeOK, WindowInv, InFlightInv, ChainInv,
           FetchBlocksAtHeight
    PROVE  ChainInv'
<1> DEFINE blocks == FetchedFrom(active.job.height)
<1> USE DEF chainVars, tableVars, dbVars, blockQueue, eventQueue,
            completions, queueVars, blockWorker, memoryVars, processVars
<1>1. /\ active.stage = "fetch" /\ active.job.kind = "number"
      /\ tasks' = {Call(active.job, b) : b \in blocks}
      /\ active'.stage = "index" /\ active'.job = active.job
      /\ UNCHANGED <<head, published, saved, complete, pruned, queueVars, batch,
                     eventActive, runnerUp>>
      /\ head \in Block
  BY FetchAlone
  DEF FetchBlocksAtHeight, ChainInv, FetchByNumber, TypeOK, Worker, Idle
<1>2. \A t \in tasks' : /\ t.block \in blocks /\ t.stage = "check"
                        /\ t.waited /\ t.job = active.job
  BY <1>1 DEF Call
<1>3. /\ HasSync => /\ UNCHANGED <<sync.canonical, sync.canonicalBlock,
                                   sync.indexed, sync.processed,
                                   sync.processedBlock>>
                    /\ HasSync'
      /\ ~HasSync => /\ sync'.canonical = Number[Root]
                     /\ sync'.canonicalBlock = Root
                     /\ sync'.indexed = -1 /\ sync'.processed = -1
                     /\ sync'.processedBlock = NoBlock
                     /\ blocks = {Root}
                     /\ saved = {}
  BY FetchStarts DEF TypeOK, SyncStatus, WindowInv, FreshStart
<1>4. ~HasSync => complete = {} /\ pruned = {}
  BY <1>3 DEF TypeOK
<1>5. \A j \in Waiting' : j \in Waiting /\ j.kind # "hash"
  BY <1>1, FetchAlone DEF Waiting, IndexJobs
<1>6. CallsOfJob' /\ FetchByNumber' /\ CallsChecked' /\ Committing'
  BY <1>1, <1>2 DEF CallsOfJob, FetchByNumber, CallsChecked, Committing
<1>7. Permanent' /\ EventsOfRows'
  BY <1>1 DEF ChainInv, Permanent, EventsOfRows
<1>8. Rows' /\ ProcessedRow' /\ IndexedSaved' /\ PrunedGone'
  BY <1>1, <1>3, <1>4
  DEF ChainInv, Rows, ProcessedRow, IndexedSaved, PrunedGone
<1>9. Settled'
  BY <1>1, <1>3, RootAssumption DEF ChainInv, Settled, Unpruned
<1>10. PruneNext'
  <2>1. \A j \in Waiting : ~HasSync => j.kind = "number"
    BY DEF Waiting, Jobs, WindowInv, FreshStart, FirstJob, ByNumber, Idle
  <2> QED
    BY <1>3, <1>5, <2>1 DEF ChainInv, PruneNext
<1>11. Fresh'
  <2>1. Handled' \subseteq blocks
    BY <1>2, <1>5 DEF Handled
  <2>2. blocks \subseteq Ancestors[head]
    BY FetchStarts
  <2>3. ASSUME NEW b \in blocks, NEW a \in Ancestors[b]
        PROVE  /\ \A s \in saved :
                      Number[a] + MaxReorgDepth <= Number[s] => a \in complete
               /\ Number[a] <= sync'.canonical => a = Root \/ a \in complete
    <3>1. a \in Ancestors[head]
      BY <1>1, <2>2, <2>3, AncestorsTransitive
    <3>2. \A s \in saved :
              Number[a] + MaxReorgDepth <= Number[s] => a \in complete
      BY <3>1, ChainComplete DEF ChainInv
    <3>3. CASE HasSync
      BY <1>3, <3>1, <3>2, <3>3, SettledComplete DEF ChainInv
    <3>4. CASE ~HasSync
      <4>1. {Root} \in ParentClosed
        BY BlockTreeAssumption DEF ParentClosed
      <4>2. a = Root
        BY <1>3, <2>3, <3>4, <4>1, ClosedHoldsAncestors
      <4> QED
        BY <3>2, <4>2
    <3> QED
      BY <3>3, <3>4
  <2> QED
    BY <1>1, <2>1, <2>3 DEF Fresh
<1> QED
  BY <1>6, <1>7, <1>8, <1>9, <1>10, <1>11 DEF ChainInv

\* the completion of an index job is handled
LEMMA IndexDoneHandled ==
    ASSUME TypeOK, WindowInv, ChainInv, NEW j \in indexDone, HandleIndexDone(j)
    PROVE  ChainInv'
<1> USE DEF chainVars, tableVars, dbVars, blockQueue, eventQueue,
            completions, queueVars, blockWorker, memoryVars, processVars
<1>1. /\ UNCHANGED <<head, published, saved, complete, pruned, blockRetries,
                     eventJobs, batch, active, tasks, eventActive, runnerUp>>
      /\ j.height \in Nat
  BY DEF HandleIndexDone, TypeOK, Job
<1>2. /\ UNCHANGED <<sync.chainHead, sync.canonical, sync.canonicalBlock,
                     sync.processed, sync.processedBlock>>
      /\ \/ sync'.indexed = sync.indexed
         \/ /\ sync'.indexed >= sync.indexed
            /\ sync'.indexed = j.height
            /\ BlocksAtHeight(j.height) # {}
  BY DEF HandleIndexDone, WithIndexed, TypeOK, SyncStatus
<1>3. \A k \in blockJobs' : \/ k \in blockJobs
                            \/ /\ k.kind = "prune"
                               /\ k.height = sync.canonical + 1
  BY DEF HandleIndexDone, Prune
<1>4. \A k \in Waiting' : \/ k \in Waiting
                          \/ /\ k.kind = "prune"
                             /\ k.height = sync.canonical + 1
  BY <1>1, <1>3 DEF Waiting
<1>5. sync.canonical + 1 <= sync.canonical + 1
  BY SyncFields
<1>6. PruneNext'
  BY <1>2, <1>4, <1>5 DEF ChainInv, PruneNext
<1>7. \A b \in Handled' : b \in Handled
  BY <1>1, <1>4 DEF Handled
<1>8. Fresh'
  BY <1>1, <1>2, <1>7 DEF ChainInv, Fresh
<1>9. IndexedSaved'
  <2>1. CASE sync'.indexed = sync.indexed
    BY <1>1, <2>1 DEF ChainInv, IndexedSaved
  <2>2. CASE sync'.indexed = j.height /\ BlocksAtHeight(j.height) # {}
    <3>1. PICK b \in saved : Number[b] = j.height
      BY <2>2 DEF BlocksAtHeight, AtHeight, Unpruned
    <3> QED
      BY <1>1, <2>2, <3>1 DEF IndexedSaved
  <2> QED
    BY <1>2, <2>1, <2>2
<1>10. Committing'
  <2>1. ASSUME active.stage = "commit"
        PROVE  active.job.height + MaxReorgDepth <= sync'.indexed
    <3>1. active.job.height + MaxReorgDepth <= sync.indexed
      BY <2>1 DEF ChainInv, Committing
    <3> QED
      BY <1>1, <1>2, <3>1, ActiveTyped, SyncFields, RealtimeSyncAssumption
  <2> QED
    BY <1>1, <1>2, <2>1 DEF ChainInv, Committing, Unpruned
<1>11. Settled'
  <2>1. HasSync' <=> HasSync
    BY <1>2 DEF HasSync
  <2> QED
    BY <1>1, <1>2, <2>1 DEF ChainInv, Settled, Unpruned
<1>12. Permanent' /\ CallsOfJob' /\ FetchByNumber' /\ CallsChecked' /\ Rows'
  BY <1>1, <1>2
  DEF ChainInv, Permanent, CallsOfJob, FetchByNumber, CallsChecked, Rows
<1>13. EventsOfRows' /\ ProcessedRow' /\ PrunedGone'
  BY <1>1, <1>2 DEF ChainInv, EventsOfRows, ProcessedRow, PrunedGone
<1> QED
  BY <1>6, <1>8, <1>9, <1>10, <1>11, <1>12, <1>13 DEF ChainInv

\* the block of an events job is one of the rows
LEMMA EventsProcessed ==
    ASSUME TypeOK, ChainInv, ProcessEvents
    PROVE  /\ eventActive.block \in saved
           /\ complete' = complete \cup {eventActive.block}
           /\ ChainInv'
<1> DEFINE b == eventActive.block
<1> USE DEF chainVars, tableVars, dbVars, blockQueue, eventQueue,
            completions, queueVars, blockWorker, memoryVars, processVars
<1>1. eventActive.stage = "process" /\ eventActive # NoEvents
  BY DEF ProcessEvents, NoEvents
<1>2. b \in saved
  BY <1>1 DEF ChainInv, EventsOfRows
<1>3. /\ complete' = complete \cup {b}
      /\ eventActive'.stage = "status" /\ eventActive'.block = b
      /\ UNCHANGED <<head, published, saved, pruned, sync, queueVars,
                     blockWorker, runnerUp>>
  BY <1>1, <1>2 DEF ProcessEvents, TypeOK, EventWorker
<1>4. Rows' /\ EventsOfRows'
  BY <1>2, <1>3 DEF ChainInv, Rows, EventsOfRows
<1>5. ProcessedRow'
  BY <1>1, <1>3 DEF ChainInv, ProcessedRow
<1>6. Settled' /\ Committing' /\ PrunedGone'
  BY <1>3
  DEF ChainInv, Settled, Committing, PrunedGone, HasSync, Unpruned
<1>7. Fresh' /\ PruneNext'
  BY <1>3 DEF ChainInv, Fresh, PruneNext, Handled, Waiting
<1>8. Permanent' /\ CallsOfJob' /\ FetchByNumber' /\ CallsChecked' /\ IndexedSaved'
  BY <1>3
  DEF ChainInv, Permanent, CallsOfJob, FetchByNumber, CallsChecked, IndexedSaved
<1> QED
  BY <1>2, <1>3, <1>4, <1>5, <1>6, <1>7, <1>8 DEF ChainInv

\* the sync status is told
LEMMA ProcessedUpdated ==
    ASSUME TypeOK, InFlightUp, ChainInv, UpdateProcessed
    PROVE  ChainInv'
<1> DEFINE b == eventActive.block
<1> USE DEF chainVars, tableVars, dbVars, blockQueue, eventQueue,
            completions, queueVars, blockWorker, memoryVars, processVars
<1>1. /\ eventActive.stage = "status" /\ b \in complete
      /\ b \in Block /\ Number[b] \in Nat /\ runnerUp
  <2>1. eventActive.stage = "status" /\ b \in complete /\ runnerUp
    BY DEF UpdateProcessed, ChainInv, EventsOfRows, InFlightUp
  <2> QED
    BY <2>1, Numbers DEF TypeOK
<1>2. /\ eventActive' = NoEvents
      /\ eventJobs' = eventJobs \/ eventJobs' = <<>>
      /\ UNCHANGED <<head, published, saved, complete, pruned, blockQueue,
                     blockWorker, runnerUp>>
  BY DEF UpdateProcessed, FinishEventsJob, InFlightUp, OneBlockInFlight
<1>3. /\ UNCHANGED <<sync.chainHead, sync.indexed, sync.canonical,
                     sync.canonicalBlock>>
      /\ IF Number[b] >= sync.processed
         THEN sync'.processed = Number[b] /\ sync'.processedBlock = b
         ELSE UNCHANGED <<sync.processed, sync.processedBlock>>
  BY DEF UpdateProcessed, WithProcessed, TypeOK, SyncStatus
<1>4. sync.processed \in Int /\ sync.canonical \in Nat
  BY SyncFields
<1>5. sync.processed <= sync'.processed /\ Number[b] <= sync'.processed
      /\ sync'.processed \in Int
  BY <1>1, <1>3, <1>4
<1>6. \A c \in Block : Number[c] <= sync.processed => Number[c] <= sync'.processed
  BY <1>4, <1>5, Numbers
<1>7. Rows'
  BY <1>2, <1>6, BlockTreeAssumption DEF ChainInv, Rows, TypeOK
<1>8. ProcessedRow'
  <2>1. \A c \in complete : Number[c] <= sync'.processed
    BY <1>1, <1>5, <1>6 DEF ChainInv, ProcessedRow, TypeOK
  <2>2. b # NoBlock
    BY <1>1, BlockTreeAssumption
  <2> QED
    BY <1>1, <1>2, <1>3, <2>1, <2>2 DEF ChainInv, ProcessedRow
<1>9. Settled'
  <2>1. sync.canonical <= sync.processed => sync.canonical <= sync'.processed
    BY <1>4, <1>5
  <2>2. HasSync' <=> HasSync
    BY <1>3 DEF HasSync
  <2> QED
    BY <1>2, <1>3, <2>1, <2>2 DEF ChainInv, Settled, Unpruned
<1>10. EventsOfRows'
  <2>1. DOMAIN eventJobs' \subseteq DOMAIN eventJobs
    BY <1>2, EmptySeq
  <2>2. \A i \in DOMAIN eventJobs' : eventJobs'[i] = eventJobs[i]
    BY <1>2, EmptySeq
  <2> QED
    BY <1>2, <2>1, <2>2 DEF ChainInv, EventsOfRows, NoEvents
<1>11. Fresh' /\ PruneNext' /\ Committing' /\ PrunedGone' /\ IndexedSaved'
  BY <1>2, <1>3
  DEF ChainInv, Fresh, PruneNext, Committing, PrunedGone, IndexedSaved,
      Handled, Waiting, Unpruned
<1>12. Permanent' /\ CallsOfJob' /\ FetchByNumber' /\ CallsChecked'
  BY <1>2 DEF ChainInv, Permanent, CallsOfJob, FetchByNumber, CallsChecked
<1> QED
  BY <1>7, <1>8, <1>9, <1>10, <1>11, <1>12 DEF ChainInv

\* a reset to the processed block forgets what is above it, and no more
LEMMA ResetForgets ==
    ASSUME TypeOK, ChainInv, HasSync, StartRunner
    PROVE  /\ sync.processedBlock \in complete
           /\ Number[sync.processedBlock] = sync.processed
           /\ sync.canonical <= sync.processed
           /\ saved' = {b \in saved : Number[b] <= sync.processed}
           /\ complete' = complete \cap saved'
           /\ pruned' = pruned \cap saved'
           /\ UNCHANGED <<sync.canonical, sync.canonicalBlock, sync.processed,
                          sync.processedBlock>>
           /\ HasSync'
           /\ sync'.indexed <= sync.processed
<1>1. /\ sync.processedBlock \in complete
      /\ ResetWatcherToBlock(Number[sync.processedBlock])
  BY DEF StartRunner, CanStart
<1>2. sync.processedBlock \in Block /\ sync.processedBlock # NoBlock
  BY <1>1, BlockTreeAssumption DEF TypeOK
<1>3. Number[sync.processedBlock] = sync.processed
  BY <1>2 DEF ChainInv, ProcessedRow
<1>4. /\ sync.processed \in Nat \ {0} /\ sync.canonical \in Nat
      /\ sync.indexed \in Int /\ Number[Root] <= sync.processed
  BY <1>2, <1>3, Numbers, SyncFields, BlockTreeAssumption
<1>5. sync.canonical <= sync.processed
  BY <1>4 DEF ChainInv, Settled
<1>6. PICK b \in BlocksAtHeight(sync.processed) : sync' = ResetTo(b)
  BY <1>1, <1>3 DEF ResetWatcherToBlock
<1>7. Number[b] = sync.processed
  BY <1>6 DEF BlocksAtHeight, AtHeight
<1>8. /\ sync'.chainHead = sync.processed
      /\ sync'.canonical = sync.canonical
      /\ sync'.canonicalBlock = sync.canonicalBlock
      /\ sync'.processed = sync.processed
      /\ sync'.processedBlock = sync.processedBlock
      /\ sync'.indexed <= sync.processed
  BY <1>4, <1>5, <1>6, <1>7 DEF ResetTo
<1> QED
  BY <1>1, <1>3, <1>4, <1>5, <1>8 DEF ResetWatcherToBlock, KeptByReset, HasSync

\* the job-runner resets the watcher to the block it has processed
LEMMA RunnerStarts ==
    ASSUME TypeOK, WindowInv, InFlightInv, ChainInv, StartRunner
    PROVE  ChainInv'
<1> USE DEF chainVars, tableVars, dbVars, blockQueue, eventQueue,
            completions, queueVars, blockWorker, memoryVars, processVars
<1>1. /\ batch = {} /\ active = Idle /\ tasks = {} /\ eventActive = NoEvents
      /\ UNCHANGED <<head, published, batch, active, tasks, eventActive>>
      /\ blockJobs' = {} /\ blockRetries' = {} /\ eventJobs' = <<>>
  BY DEF StartRunner, DeleteAllJobs, InFlightInv, InFlightUp, InFlightDown
<1>2. Handled' = {} /\ \A j \in Waiting' : j.kind = "number"
  BY <1>1 DEF Handled, Waiting, Idle, ByNumber
<1>3. Fresh' /\ PruneNext' /\ CallsOfJob' /\ FetchByNumber' /\ CallsChecked'
  BY <1>1, <1>2
  DEF Fresh, PruneNext, CallsOfJob, FetchByNumber, CallsChecked, Idle
<1>4. Committing' /\ EventsOfRows' /\ Permanent'
  BY <1>1, EmptySeq
  DEF Committing, EventsOfRows, ChainInv, Permanent, Idle, NoEvents
<1>5. CASE ~HasSync
  <2>1. UNCHANGED <<saved, complete, pruned, sync>>
    BY <1>5 DEF StartRunner
  <2>2. complete = {}
    BY <1>5 DEF WindowInv, FreshStart, TypeOK
  <2>3. Rows' /\ ProcessedRow' /\ IndexedSaved' /\ PrunedGone'
    BY <1>1, <2>1, <2>2
    DEF ChainInv, Rows, ProcessedRow, IndexedSaved, PrunedGone
  <2>4. Settled'
    BY <1>5, <2>1 DEF Settled, HasSync
  <2> QED
    BY <1>3, <1>4, <2>3, <2>4 DEF ChainInv
<1>6. CASE HasSync
  <2> DEFINE n == sync.processed
  <2>1. /\ sync.processedBlock \in complete /\ Number[sync.processedBlock] = n
        /\ sync.canonical <= n
        /\ saved' = {b \in saved : Number[b] <= n}
        /\ complete' = complete \cap saved'
        /\ pruned' = pruned \cap saved'
        /\ UNCHANGED <<sync.canonical, sync.canonicalBlock, sync.processed,
                       sync.processedBlock>>
        /\ sync'.indexed <= n
    BY <1>6, ResetForgets
  <2>2. n \in Int /\ sync.canonical \in Nat
    BY SyncFields
  <2>3. sync.processedBlock \in complete'
    BY <2>1, <2>2 DEF TypeOK
  <2>4. Rows'
    <3>1. IsFiniteSet(saved')
      BY <2>1, FS_Subset DEF ChainInv, Rows
    <3>2. ASSUME NEW b \in saved' \ {Root}
          PROVE  Parent[b] \in complete' /\ Number[Parent[b]] <= n
      <4>1. Parent[b] \in complete /\ Number[Parent[b]] <= n
        BY <2>1, <3>2 DEF ChainInv, Rows
      <4> QED
        BY <2>1, <4>1 DEF TypeOK
    <3> QED
      BY <2>1, <3>1, <3>2 DEF Rows
  <2>5. ProcessedRow'
    BY <2>1, <2>3 DEF ChainInv, ProcessedRow
  <2>6. IndexedSaved'
    BY <2>1, <2>3 DEF IndexedSaved
  <2>7. PrunedGone'
    BY <1>1, <2>1 DEF ChainInv, PrunedGone
  <2>8. Settled'
    <3>1. \A b \in Unpruned' : b \in Unpruned
      BY <2>1 DEF Unpruned
    <3>2. sync.canonicalBlock # Root => sync.canonicalBlock \in complete'
      BY <1>6, <2>1 DEF ChainInv, Settled, TypeOK
    <3> QED
      BY <1>1, <1>6, <2>1, <3>1, <3>2 DEF ChainInv, Settled
  <2> QED
    BY <1>3, <1>4, <2>4, <2>5, <2>6, <2>7, <2>8 DEF ChainInv
<1> QED
  BY <1>5, <1>6

-------------------------------------------------------------------------------
(* Every step.                                                              *)

\* whoever is at work, the processes are up
LEMMA AtWork ==
    ASSUME InFlightInv,
           active # Idle \/ eventActive # NoEvents \/ serverUp
    PROVE  InFlightUp
BY DEF InFlightInv, InFlightDown

\* the active job ends, done or to be retried, and leaves no call behind
LEMMA JobEnds ==
    ASSUME TypeOK, WindowInv, ChainInv, tasks = {}, active' = Idle,
           blockRetries' \subseteq blockRetries \cup {active.job},
           UNCHANGED <<chainVars, dbVars, blockJobs, eventQueue, batch, tasks,
                       eventActive, runnerUp>>
    PROVE  ChainInv'
<1> USE DEF chainVars, tableVars, dbVars, eventQueue
<1>1. \A j \in Waiting' : j \in Waiting \/ j.kind = "number"
  BY DEF Waiting, Idle, ByNumber
<1>2. \A b \in Handled' : \E c \in Handled : b \in Ancestors[c]
  BY <1>1, NothingNamed
<1> QED
  BY <1>1, <1>2, CallsGone, JobsMove DEF ChainInv, EventsOfRows, Idle

\* jobs change their queue, or are lost, or are pushed for a height
LEMMA JobsQueued ==
    ASSUME TypeOK, WindowInv, ChainInv,
           UNCHANGED <<chainVars, dbVars, eventJobs, active, tasks,
                       eventActive, runnerUp>>,
           \A j \in Waiting' : j \in Waiting \/ j.kind = "number"
    PROVE  ChainInv'
<1> USE DEF chainVars, tableVars, dbVars
<1>1. \A b \in Handled' : \E c \in Handled : b \in Ancestors[c]
  BY NothingNamed
<1> QED
  BY <1>1, CallsSame, JobsMove DEF ChainInv, EventsOfRows

\* a job starts; that of a block with the call for the block
LEMMA JobStarts ==
    ASSUME TypeOK, WindowInv, ChainInv, NEW j \in batch, TakeBlockJob(j)
    PROVE  ChainInv'
<1> USE DEF chainVars, tableVars, dbVars, blockQueue, eventQueue,
            completions, queueVars, processVars
<1>1. /\ tasks = {} /\ j \in Job /\ j \in Waiting
  BY DEF TakeBlockJob, ChainInv, CallsOfJob, Idle, TypeOK, Waiting
<1>2. /\ active'.job = j
      /\ UNCHANGED <<head, published, saved, complete, pruned, sync, blockJobs,
                     blockRetries, eventJobs, eventActive, runnerUp>>
      /\ batch' \subseteq batch
  BY DEF TakeBlockJob
<1>3. \A k \in Waiting' : k \in Waiting
  BY <1>1, <1>2 DEF Waiting
<1>4. \A i \in DOMAIN eventJobs' : runnerUp' => eventJobs'[i] \in saved
  BY <1>2 DEF ChainInv, EventsOfRows
<1>5. CASE j.kind = "hash"
  <2>1. tasks' = {Call(j, j.block)} /\ active'.stage = "index"
    BY <1>1, <1>5 DEF TakeBlockJob
  <2>2. CallsOfJob' /\ CallsChecked'
    BY <1>2, <2>1 DEF CallsOfJob, CallsChecked, Call
  <2>3. \A b \in Handled' : b \in Handled
    BY <1>1, <1>3, <1>5, <2>1 DEF Handled, Call
  <2>4. \A b \in Handled' : \E c \in Handled : b \in Ancestors[c]
    BY <2>3, HandledKnown
  <2> QED
    BY <1>2, <1>3, <1>4, <2>1, <2>2, <2>4, JobsMove
<1>6. CASE j.kind # "hash"
  <2>1. tasks' = {}
    BY <1>1, <1>6 DEF TakeBlockJob
  <2>2. \/ active'.stage = "fetch" /\ active'.job.kind = "number"
        \/ active'.stage = "prune"
    BY <1>1, <1>6 DEF TakeBlockJob, Job
  <2>3. \A b \in Handled' : \E c \in Handled : b \in Ancestors[c]
    BY <1>3, <2>1, NothingNamed
  <2> QED
    BY <1>2, <1>3, <1>4, <2>1, <2>2, <2>3, CallsGone, JobsMove
<1> QED
  BY <1>5, <1>6

\* the oldest events job starts
LEMMA EventsStart ==
    ASSUME TypeOK, WindowInv, ChainInv, TakeEventsJob
    PROVE  ChainInv'
<1> USE DEF chainVars, tableVars, dbVars, blockQueue, eventQueue,
            completions, queueVars, blockWorker, processVars
<1> DEFINE b == Head(eventJobs)
<1>1. /\ UNCHANGED <<head, published, saved, complete, pruned, sync, blockJobs,
                     blockRetries, batch, active, tasks, runnerUp>>
      /\ runnerUp /\ eventActive = NoEvents
      /\ eventJobs' = Tail(eventJobs) /\ eventJobs # <<>>
      /\ eventJobs \in Seq(Block)
  BY DEF TakeEventsJob, TypeOK
<1>2. \A i \in DOMAIN eventJobs : eventJobs[i] \in saved
  BY <1>1 DEF ChainInv, EventsOfRows
<1>3. /\ b \in saved
      /\ \A i \in DOMAIN eventJobs' : eventJobs'[i] \in saved
  <2>1. Len(eventJobs) \in Nat /\ DOMAIN eventJobs = 1..Len(eventJobs)
        /\ Len(eventJobs) >= 1
    BY <1>1, LenProperties, EmptySeq
  <2>2. b = eventJobs[1]
    BY <1>1
  <2>3. \A i \in DOMAIN eventJobs' :
            i + 1 \in DOMAIN eventJobs /\ eventJobs'[i] = eventJobs[i + 1]
    BY <1>1, <2>1
  <2> QED
    BY <1>2, <2>1, <2>2, <2>3
<1>4. \/ eventActive' = eventActive
      \/ eventActive'.stage = "process" /\ eventActive'.block = b
  BY DEF TakeEventsJob, StartEvents
<1>5. \A c \in Handled' : \E d \in Handled : c \in Ancestors[d]
  BY <1>1, NothingNamed DEF Waiting
<1> QED
  BY <1>1, <1>3, <1>4, <1>5, CallsSame, JobsMove DEF NoEvents, Waiting

\* the deployment goes down: its memory is lost, its rows are left
LEMMA Crashes ==
    ASSUME TypeOK, WindowInv, ChainInv, Crash
    PROVE  ChainInv'
<1> USE DEF chainVars, tableVars, dbVars, blockQueue, eventQueue,
            completions, queueVars
<1>1. /\ UNCHANGED <<head, published, saved, complete, pruned, sync, blockJobs,
                     blockRetries>>
      /\ ~runnerUp' /\ batch' = {} /\ active' = Idle /\ tasks' = {}
      /\ eventActive' = NoEvents
  BY DEF Crash
<1>2. \A j \in Waiting' : j \in Waiting \/ j.kind = "number"
  BY <1>1 DEF Waiting, Idle, ByNumber
<1>3. \A b \in Handled' : \E c \in Handled : b \in Ancestors[c]
  BY <1>1, <1>2, NothingNamed
<1> QED
  BY <1>1, <1>2, <1>3, CallsGone, JobsMove DEF Idle, NoEvents

\* the server deletes the jobs and pushes the next one
LEMMA ServerStarts ==
    ASSUME TypeOK, WindowInv, InFlightInv, ChainInv, StartServer
    PROVE  ChainInv'
<1> USE DEF chainVars, tableVars, dbVars
<1>1. /\ UNCHANGED <<head, published, saved, complete, pruned, sync, batch,
                     active, tasks, runnerUp>>
      /\ blockRetries' = {} /\ eventJobs' = <<>>
      /\ \A j \in blockJobs' : j.kind = "number"
      /\ eventActive = NoEvents
      /\ eventActive' = [eventActive EXCEPT !.live = FALSE]
  BY DEF StartServer, DeleteAllJobs, InFlightInv, InFlightUp, InFlightDown,
         ByNumber
<1>2. eventActive' = eventActive
  <2>1. NoEvents.live = FALSE
    BY DEF NoEvents
  <2>2. NoEvents = [x \in DOMAIN NoEvents |-> NoEvents[x]]
    BY DEF NoEvents
  <2> QED
    BY <1>1, <2>1, <2>2
<1>3. \A j \in Waiting' : j \in Waiting \/ j.kind = "number"
  BY <1>1 DEF Waiting
<1>4. \A b \in Handled' : \E c \in Handled : b \in Ancestors[c]
  BY <1>1, <1>3, NothingNamed
<1>5. \A i \in DOMAIN eventJobs' : eventJobs'[i] \in saved
  BY <1>1, EmptySeq
<1> QED
  BY <1>1, <1>2, <1>3, <1>4, <1>5, CallsSame, JobsMove

\* What is left of the steps, when nothing but prune jobs fails.
LEMMA ChainStep ==
    ASSUME NoNullRounds, ~AllBranches, FaultKinds \subseteq {"prune", "crash"},
           TypeOK, WindowInv, InFlightInv, ChainInv, [Next]_vars
    PROVE  ChainInv'
<1> USE DEF chainVars, tableVars, dbVars, blockQueue, eventQueue,
            completions, queueVars, blockWorker, memoryVars, processVars
<1>1. ASSUME NEW b \in Block, AdvanceHead(b)
      PROVE  ChainInv'
  BY <1>1, HeadMoves
<1>2. CASE FetchBatch
  <2>1. \A j \in Waiting' : j \in Waiting
    BY <1>2 DEF FetchBatch, Waiting
  <2> QED
    BY <1>2, <2>1, JobsQueued DEF FetchBatch
<1>3. ASSUME NEW j \in batch, TakeBlockJob(j)
      PROVE  ChainInv'
  BY <1>3, JobStarts
<1>4. CASE FetchBlocksAtHeight
  BY <1>4, FetchSteps
<1>5. CASE GiveUpOnNewBlock
  <2>1. tasks = {}
    BY <1>5 DEF GiveUpOnNewBlock, ChainInv, CallsOfJob
  <2> QED
    BY <1>5, <2>1, JobEnds DEF GiveUpOnNewBlock, FailBlockJob
<1>6. ASSUME NEW t \in tasks, IndexBlockStep(t)
      PROVE  ChainInv'
  BY <1>6, CallSteps, SaveSteps
<1>7. CASE FinishIndexJob
  <2>1. tasks = {}
    BY <1>7 DEF FinishIndexJob, AllIndexed, ChainInv, CallsOfJob
  <2> QED
    BY <1>7, <2>1, JobEnds DEF FinishIndexJob
<1>8. CASE PruneThrows \/ PruneSkip \/ PruneFails
  <2>1. tasks = {}
    BY <1>8 DEF PruneThrows, PruneSkip, PruneFails, ChainInv, CallsOfJob
  <2>2. CASE PruneThrows
    BY <2>1, <2>2, JobEnds DEF PruneThrows, FailBlockJob
  <2>3. CASE PruneSkip
    BY <2>1, <2>3, JobEnds DEF PruneSkip
  <2>4. CASE PruneFails
    BY <2>1, <2>4, JobEnds DEF PruneFails, FailBlockJob
  <2> QED
    BY <1>8, <2>2, <2>3, <2>4
<1>9. CASE PruneMark \/ PruneCommit
  <2>1. active.stage \in {"prune", "commit"}
    BY <1>9 DEF PruneMark, PruneCommit
  <2>2. active # Idle
    BY <2>1 DEF Idle
  <2> QED
    BY <1>9, <2>2, AtWork, PruneMarks, PruneCommits
<1>10. CASE TakeEventsJob
  BY <1>10, EventsStart
<1>11. CASE ProcessEvents
  BY <1>11, EventsProcessed
<1>12. CASE UpdateProcessed
  BY <1>12, AtWork, ProcessedUpdated DEF UpdateProcessed, NoEvents
<1>13. ~ResetAfterRetry /\ ~EventsThrow
  <2>1. eventActive = NoEvents \/ InFlightUp
    BY AtWork
  <2> QED
    BY <2>1
    DEF ResetAfterRetry, EventsThrow, InFlightUp, EntrySaved, NoEvents
<1>14. ASSUME NEW jobs \in SUBSET blockRetries, Redeliver(jobs)
       PROVE  ChainInv'
  <2>1. \A j \in Waiting' : j \in Waiting
    BY <1>14 DEF Redeliver, Waiting
  <2> QED
    BY <1>14, <2>1, JobsQueued DEF Redeliver
<1>15. eventRetries = {}
  BY DEF InFlightInv, InFlightUp, InFlightDown, OneBlockInFlight
<1>16. ASSUME NEW j \in indexDone, HandleIndexDone(j)
       PROVE  ChainInv'
  BY <1>16, IndexDoneHandled
<1>17. ASSUME NEW b \in eventsDone, HandleEventsDone(b)
       PROVE  ChainInv'
  <2>1. \A j \in Waiting' : j \in Waiting \/ j.kind = "number"
    BY <1>17 DEF HandleEventsDone, Waiting, ByNumber
  <2> QED
    BY <1>17, <2>1, JobsQueued DEF HandleEventsDone
<1>18. CASE StartRunner
  BY <1>18, RunnerStarts
<1>19. CASE StartServer
  BY <1>19, ServerStarts
<1>20. CASE Fault
  <2>1. /\ \A t \in tasks : ~TaskFails(t)
        /\ ~FinishIndexJobFails /\ ~EventsFail /\ ~ServerCrash
    BY DEF TaskFails, FinishIndexJobFails, EventsFail, ServerCrash, Faulty
  <2> QED
    BY <1>8, <1>20, <2>1, Crashes DEF Fault
<1>21. CASE UNCHANGED vars
  <2>1. \A j \in Waiting' : j \in Waiting
    BY <1>21 DEF vars, Waiting
  <2> QED
    BY <1>21, <2>1, JobsQueued DEF vars
<1> QED
  BY <1>1, <1>2, <1>3, <1>4, <1>5, <1>6, <1>7, <1>8, <1>9, <1>10,
     <1>11, <1>12, <1>13, <1>14, <1>15, <1>16, <1>17, <1>18, <1>19, <1>20,
     <1>21
  DEF Next, BlockWorkerStep, EventWorkerStep, RetryDelayOver, ServerStep,
      Restart

\* The invariant of the chain holds at the start, and every step keeps it.
LEMMA ChainInvariant ==
    ASSUME NoNullRounds, ~AllBranches, FaultKinds \subseteq {"prune", "crash"}
    PROVE  Spec => []ChainInv
<1>1. Init => ChainInv
  <2> SUFFICES ASSUME Init
               PROVE  ChainInv
    OBVIOUS
  <2>1. published = {Root} /\ head = Root /\ Ancestors[Root] \subseteq {Root}
        /\ Root \in Ancestors[Root]
    <3>1. {Root} \in ParentClosed
      BY BlockTreeAssumption DEF ParentClosed
    <3> QED
      BY <3>1, ClosedHoldsAncestors, RootAssumption, BlockTreeAssumption
      DEF Init
  <2>2. /\ ~HasSync /\ active = Idle /\ tasks = {} /\ eventActive = NoEvents
        /\ saved = {} /\ complete = {} /\ pruned = {} /\ eventJobs = <<>>
        /\ \A j \in Waiting : j.kind = "number"
    BY DEF Init, HasSync, NoSync, Waiting, Idle, ByNumber
  <2>3. Permanent
    BY <2>1, BlockTreeAssumption DEF Permanent
  <2>4. CallsOfJob /\ FetchByNumber /\ CallsChecked /\ PruneNext /\ Committing
    BY <2>2
    DEF CallsOfJob, FetchByNumber, CallsChecked, PruneNext, Committing, Idle
  <2>5. Rows
    BY <2>2, FS_EmptySet DEF Rows
  <2>6. EventsOfRows
    BY <2>2, EmptySeq DEF EventsOfRows, NoEvents
  <2>7. ProcessedRow /\ IndexedSaved
    BY <2>2 DEF Init, NoSync, ProcessedRow, IndexedSaved
  <2>8. Fresh /\ Settled /\ PrunedGone
    BY <2>2 DEF Fresh, Handled, Settled, PrunedGone
  <2> QED
    BY <2>3, <2>4, <2>5, <2>6, <2>7, <2>8 DEF ChainInv
<1>2. TypeOK /\ WindowInv /\ InFlightInv /\ ChainInv /\ [Next]_vars => ChainInv'
  BY ChainStep
<1> QED
  BY <1>1, <1>2, TypeCorrect, WindowInvariant, InFlightInvariant, PTL DEF Spec

-------------------------------------------------------------------------------
(* What follows for the rows and for the sync status.                       *)

\* A block is in the table only when its parent has been processed, also after
\* a reorg has brought blocks of another branch, or a restart has deleted some.
THEOREM ParentsFirst ==
    ASSUME NoNullRounds, ~AllBranches, FaultKinds \subseteq {"prune", "crash"}
    PROVE  Spec => []ParentProcessedFirst
<1>1. ChainInv => ParentProcessedFirst
  BY DEF ChainInv, Rows, ParentProcessedFirst
<1> QED
  BY <1>1, ChainInvariant, PTL

\* The rows that _pruneChain has left up to the canonical height are one branch.
THEOREM OneBranchLeft ==
    ASSUME NoNullRounds, ~AllBranches, FaultKinds \subseteq {"prune", "crash"}
    PROVE  Spec => []CanonicalIsOneBranch
<1>1. TypeOK /\ WindowInv /\ ChainInv => CanonicalIsOneBranch
  <2> SUFFICES ASSUME TypeOK, WindowInv, ChainInv,
                      NEW b \in Unpruned, NEW c \in Unpruned,
                      Number[b] <= sync.canonical, Number[c] <= sync.canonical
               PROVE  OnOneBranch(b, c)
    BY DEF CanonicalIsOneBranch
  <2>1. HasSync
    BY DEF WindowInv, FreshStart, Unpruned
  <2>2. b \in Ancestors[head] /\ c \in Ancestors[head] /\ head \in Block
    BY <2>1 DEF ChainInv, Settled, TypeOK
  <2> QED
    BY <2>2, AncestorsLinear
<1> QED
  BY <1>1, TypeCorrect, WindowInvariant, ChainInvariant, PTL

\* No block of the upstream chain is ever marked as pruned.
THEOREM ChainStays ==
    ASSUME NoNullRounds, ~AllBranches, FaultKinds \subseteq {"prune", "crash"}
    PROVE  Spec => []ChainNeverPruned
<1>1. ChainInv => ChainNeverPruned
  BY DEF ChainInv, PrunedGone, ChainNeverPruned
<1> QED
  BY <1>1, ChainInvariant, PTL

\* Nor is the block that the sync status names as canonical.
THEOREM CanonicalBlockStays ==
    ASSUME NoNullRounds, ~AllBranches, FaultKinds \subseteq {"prune", "crash"}
    PROVE  Spec => []CanonicalBlockUnpruned
<1>1. TypeOK /\ WindowInv /\ ChainInv => CanonicalBlockUnpruned
  <2> SUFFICES ASSUME TypeOK, WindowInv, ChainInv
               PROVE  CanonicalBlockUnpruned
    OBVIOUS
  <2>1. CASE HasSync
    BY <2>1 DEF ChainInv, Settled, PrunedGone, CanonicalBlockUnpruned
  <2>2. CASE ~HasSync
    BY <2>2 DEF WindowInv, FreshStart, TypeOK, CanonicalBlockUnpruned
  <2> QED
    BY <2>1, <2>2
<1> QED
  BY <1>1, TypeCorrect, WindowInvariant, ChainInvariant, PTL

\* The block the job-runner restarts from is in the table, and complete.
THEOREM RestartsFromComplete ==
    ASSUME NoNullRounds, ~AllBranches, FaultKinds \subseteq {"prune", "crash"}
    PROVE  Spec => []ProcessedIsComplete
<1>1. ChainInv => ProcessedIsComplete
  BY DEF ChainInv, ProcessedRow, ProcessedIsComplete
<1> QED
  BY <1>1, ChainInvariant, PTL

-------------------------------------------------------------------------------
(* The refinement.                                                          *)

NoneSettled == ~HasSync => sync.canonicalBlock = NoBlock

FollowInv == TypeOK /\ WindowInv /\ InFlightInv /\ ChainInv /\ NoneSettled

followed == <<complete, sync.canonicalBlock>>

\* a step that changes neither the complete blocks nor the settled one
LEMMA Stutters ==
    ASSUME NoneSettled, complete' = complete,
           UNCHANGED <<sync.chainHead, sync.canonicalBlock>>
    PROVE  [Follower!Next]_followed /\ NoneSettled'
BY DEF NoneSettled, HasSync, followed

\* the settled block is a block of the tree
LEMMA SettledNow ==
    ASSUME FollowInv, HasSync
    PROVE  /\ sync.canonicalBlock \in Block
           /\ sync.canonicalBlock # NoBlock
           /\ Number[sync.canonicalBlock] = sync.canonical
<1>1. head \in Block /\ sync.canonicalBlock \in Ancestors[head]
  BY DEF FollowInv, TypeOK, ChainInv, Settled
<1> QED
  BY <1>1, AncestorsTyped, BlockTreeAssumption DEF FollowInv, ChainInv, Settled

\* the first request creates the sync status, on the root
LEMMA Starts ==
    ASSUME ~AllBranches, FollowInv, FetchBlocksAtHeight
    PROVE  [Follower!Next]_followed /\ NoneSettled'
<1>1. complete' = complete
  BY DEF FetchBlocksAtHeight, tableVars
<1>2. CASE HasSync
  <2>1. /\ HasSync' /\ sync \in SyncStatus
        /\ sync' = [sync EXCEPT !.chainHead = sync'.chainHead]
    BY <1>2, FetchStarts DEF FollowInv, TypeOK
  <2>2. sync'.canonicalBlock = sync.canonicalBlock
    BY <2>1 DEF SyncStatus
  <2> QED
    BY <1>1, <2>1, <2>2 DEF NoneSettled, followed
<1>3. CASE ~HasSync
  <2>1. sync.canonicalBlock = NoBlock /\ sync'.canonicalBlock = Root /\ HasSync'
    BY <1>3, FetchStarts DEF FollowInv, NoneSettled
  <2>2. Follower!Start
    BY <1>1, <2>1 DEF Follower!Start
  <2> QED
    BY <2>1, <2>2 DEF Follower!Next, NoneSettled
<1> QED
  BY <1>2, <1>3

\* the events of a block are applied on top of those of its parent
LEMMA Processes ==
    ASSUME FollowInv, ProcessEvents
    PROVE  [Follower!Next]_followed /\ NoneSettled'
<1> DEFINE b == eventActive.block
<1>1. /\ b \in saved /\ b \in Block /\ sync' = sync
      /\ complete' = complete \cup {b}
  BY EventsProcessed DEF FollowInv, TypeOK, ProcessEvents
<1>2. CASE b \in complete
  BY <1>1, <1>2, Stutters DEF FollowInv
<1>3. CASE b \notin complete
  <2>1. HasSync
    BY <1>1 DEF FollowInv, WindowInv, FreshStart
  <2>2. b = Root \/ Parent[b] \in complete
    BY <1>1 DEF FollowInv, ChainInv, Rows
  <2>3. Follower!Process(b)
    BY <1>1, <1>3, <2>1, <2>2, SettledNow DEF Follower!Process
  <2> QED
    BY <1>1, <2>1, <2>3 DEF Follower!Next, NoneSettled, HasSync
<1> QED
  BY <1>2, <1>3

\* _pruneChain settles the child of the block it settled last
LEMMA Finalizes ==
    ASSUME NoNullRounds, FollowInv, PruneCommit
    PROVE  [Follower!Next]_followed /\ NoneSettled'
<1>1. active.stage = "commit" /\ complete' = complete
  BY DEF PruneCommit, tableVars
<1>2. active # Idle
  BY <1>1 DEF Idle
<1>3. InFlightUp
  BY <1>2, AtWork DEF FollowInv
<1>4. /\ HasSync /\ active.keep \in complete \ {Root}
      /\ Parent[active.keep] = sync.canonicalBlock
      /\ sync' = [sync EXCEPT !.canonical = Number[active.keep],
                              !.canonicalBlock = active.keep]
  BY <1>3, CommitSettles DEF FollowInv
<1>5. sync'.canonicalBlock = active.keep /\ HasSync' /\ active.keep \in Block
  BY <1>4 DEF FollowInv, TypeOK, SyncStatus, HasSync
<1>6. Follower!Finalize(active.keep)
  BY <1>1, <1>4, <1>5 DEF Follower!Finalize
<1> QED
  BY <1>5, <1>6 DEF Follower!Next, NoneSettled

\* a restart forgets the blocks above the processed one, none of them settled
LEMMA Rewinds ==
    ASSUME FollowInv, StartRunner
    PROVE  [Follower!Next]_followed /\ NoneSettled'
<1>1. CASE ~HasSync
  BY <1>1, Stutters DEF StartRunner, FollowInv, dbVars, tableVars
<1>2. CASE HasSync
  <2> DEFINE n == sync.processed
  <2>1. /\ sync.processedBlock \in complete
        /\ Number[sync.processedBlock] = n
        /\ sync.canonical <= n
        /\ saved' = {b \in saved : Number[b] <= n}
        /\ complete' = complete \cap saved'
        /\ sync'.canonicalBlock = sync.canonicalBlock
        /\ HasSync'
    BY <1>2, ResetForgets DEF FollowInv
  <2>2. complete' = {b \in complete : Number[b] <= n}
    BY <2>1 DEF FollowInv, TypeOK
  <2>3. n \in Follower!Heights(Block)
    BY <2>1 DEF Follower!Heights, FollowInv, TypeOK
  <2>4. n >= Number[sync.canonicalBlock]
    BY <1>2, <2>1, SettledNow, SyncFields DEF FollowInv
  <2>5. Follower!Rewind(n)
    BY <1>2, <2>1, <2>2, <2>4, SettledNow DEF Follower!Rewind
  <2> QED
    BY <2>1, <2>3, <2>5 DEF Follower!Next, NoneSettled
<1> QED
  BY <1>1, <1>2

\* every step follows the chain
LEMMA FollowStep ==
    ASSUME NoNullRounds, ~AllBranches, FaultKinds \subseteq {"prune", "crash"},
           FollowInv, [Next]_vars
    PROVE  [Follower!Next]_followed /\ NoneSettled'
<1> USE DEF FollowInv, chainVars, tableVars, dbVars, blockQueue, eventQueue,
            completions, queueVars, blockWorker, memoryVars, processVars
<1>1. ASSUME complete' = complete, sync' = sync
      PROVE  [Follower!Next]_followed /\ NoneSettled'
  BY <1>1, Stutters
<1>2. ASSUME NEW b \in Block, AdvanceHead(b)
      PROVE  [Follower!Next]_followed /\ NoneSettled'
  BY <1>1, <1>2 DEF AdvanceHead
<1>3. CASE FetchBatch \/ \E j \in batch : TakeBlockJob(j)
  BY <1>1, <1>3 DEF FetchBatch, TakeBlockJob
<1>4. CASE FetchBlocksAtHeight
  BY <1>4, Starts
<1>5. CASE GiveUpOnNewBlock \/ FinishIndexJob
  BY <1>1, <1>5 DEF GiveUpOnNewBlock, FinishIndexJob
<1>6. ASSUME NEW t \in tasks, IndexBlockStep(t)
      PROVE  [Follower!Next]_followed /\ NoneSettled'
  <2>1. complete' = complete /\ sync' = sync
    BY <1>6
    DEF IndexBlockStep, CheckPruning, IndexParentFirst, CheckBlock, LoadBlock,
        SaveBlock, SaveBlockAgain, PushEventsJob
  <2> QED
    BY <1>1, <2>1
<1>7. CASE PruneThrows \/ PruneSkip
  BY <1>1, <1>7 DEF PruneThrows, PruneSkip
<1>8. CASE PruneMark
  BY <1>1, <1>8 DEF PruneMark
<1>9. CASE PruneCommit
  BY <1>9, Finalizes
<1>10. CASE TakeEventsJob
  BY <1>1, <1>10 DEF TakeEventsJob
<1>11. CASE ProcessEvents
  BY <1>11, Processes
<1>12. CASE UpdateProcessed
  <2>1. complete' = complete /\ sync' = WithProcessed(eventActive.block)
    BY <1>12 DEF UpdateProcessed
  <2>2. UNCHANGED <<sync.chainHead, sync.canonicalBlock>>
    BY <2>1 DEF WithProcessed, TypeOK, SyncStatus
  <2> QED
    BY <2>1, <2>2, Stutters
<1>13. ~ResetAfterRetry /\ ~EventsThrow
  <2>1. eventActive = NoEvents \/ InFlightUp
    BY AtWork
  <2> QED
    BY <2>1
    DEF ResetAfterRetry, EventsThrow, InFlightUp, EntrySaved, NoEvents
<1>14. CASE RetryDelayOver
  BY <1>1, <1>14 DEF RetryDelayOver, Redeliver, RetryEventsJob
<1>15. ASSUME NEW j \in indexDone, HandleIndexDone(j)
       PROVE  [Follower!Next]_followed /\ NoneSettled'
  <2>1. complete' = complete
    BY <1>15 DEF HandleIndexDone
  <2>2. sync' = sync \/ sync' = WithIndexed(j.height)
    BY <1>15 DEF HandleIndexDone
  <2>3. UNCHANGED <<sync.chainHead, sync.canonicalBlock>>
    BY <2>2 DEF WithIndexed, TypeOK, SyncStatus
  <2> QED
    BY <2>1, <2>3, Stutters
<1>16. ASSUME NEW b \in eventsDone, HandleEventsDone(b)
       PROVE  [Follower!Next]_followed /\ NoneSettled'
  BY <1>1, <1>16 DEF HandleEventsDone
<1>17. CASE StartRunner
  BY <1>17, Rewinds
<1>18. CASE StartServer
  BY <1>1, <1>18 DEF StartServer
<1>19. CASE Fault
  BY <1>1, <1>19
  DEF Fault, TaskFails, FinishIndexJobFails, PruneFails, EventsFail,
      CatchEventsError, Crash, ServerCrash
<1>20. CASE UNCHANGED vars
  BY <1>1, <1>20 DEF vars
<1> QED
  BY <1>2, <1>3, <1>4, <1>5, <1>6, <1>7, <1>8, <1>9, <1>10, <1>11, <1>12,
     <1>13, <1>14, <1>15, <1>16, <1>17, <1>18, <1>19, <1>20
  DEF Next, BlockWorkerStep, EventWorkerStep, ServerStep, Restart

\* The detailed specification implements ChainFollower: however the chain is
\* reorganised, whichever jobs are retried and whenever the deployment crashes,
\* a watcher applies the events of a block once on top of those of the parent,
\* settles on one branch, block by block, and in a restart only forgets what is
\* not below the settled block.
THEOREM WatcherFollowsChain ==
    ASSUME NoNullRounds, ~AllBranches, FaultKinds \subseteq {"prune", "crash"}
    PROVE  Spec => FollowsChain
<1>1. Init => Follower!Init /\ NoneSettled
  BY DEF Init, Follower!Init, NoneSettled, NoSync
<1>2. FollowInv /\ [Next]_vars => [Follower!Next]_followed /\ NoneSettled'
  BY FollowStep
<1>3. Spec => []NoneSettled
  BY <1>1, <1>2, TypeCorrect, WindowInvariant, InFlightInvariant,
     ChainInvariant, PTL DEF Spec, FollowInv
<1>4. FollowInv /\ [Next]_vars => [Follower!Next]_<<complete, sync.canonicalBlock>>
  BY <1>2 DEF followed
<1> QED
  BY <1>1, <1>3, <1>4, TypeCorrect, WindowInvariant, InFlightInvariant,
     ChainInvariant, PTL DEF Spec, FollowInv, FollowsChain, Follower!Spec

===============================================================================
