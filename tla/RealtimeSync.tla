----------------------------- MODULE RealtimeSync -----------------------------
(***************************************************************************)
(* Realtime syncing of a watcher.  Two processes share a Postgres database  *)
(* and its pg-boss job queues:                                              *)
(*                                                                          *)
(*   job-runner  one worker for the block-processing queue (index and prune *)
(*               jobs) and one for the event-processing queue; they share   *)
(*               the in-memory _blockAndEventsMap and interleave at awaits; *)
(*   server      EventWatcher, which handles the completion of the jobs,    *)
(*               updates the sync status and pushes the next jobs.          *)
(*                                                                          *)
(* The upstream chain grows and reorganises underneath.  A step of a worker *)
(* is the code between two awaits at which another process can be seen.     *)
(***************************************************************************)
EXTENDS BlockTree, Sequences

CONSTANTS
    MaxReorgDepth,  \* MAX_REORG_DEPTH
    TeamSize,       \* DEFAULT_JOBS_PER_INTERVAL, the jobs fetched at a time
    AllBranches,    \* whether the upstream returns every block it has of a
                    \* height (ipld-eth-server) or only that of its own
                    \* chain (an RPC endpoint)
    WithEvents,     \* the blocks that have events
    WithUnknown,    \* those with an event of no watched contract
    WithContract,   \* those with an event that adds a contract to watch, when
                    \* filterLogsByAddresses is set
    FaultKinds,     \* what may go wrong: calls of an index, a prune or an
                    \* events job that fail, crashes of all or of the server
    MaxFaults       \* bound on the number of these faults

ASSUME RealtimeSyncAssumption ==
    /\ MaxReorgDepth \in Nat \ {0}
    /\ TeamSize \in Nat \ {0}
    /\ AllBranches \in BOOLEAN
    /\ WithEvents \subseteq Block
    /\ WithUnknown \subseteq WithEvents
    /\ WithContract \subseteq WithEvents
    /\ FaultKinds \subseteq {"index", "prune", "events", "crash", "server"}
    /\ MaxFaults \in Nat

VARIABLES
    head,           \* the block at the head of the upstream chain
    published,      \* every block the upstream has had on its chain
    saved,          \* rows of the block_progress table
    complete,       \* those with is_complete
    pruned,         \* those with is_pruned
    trimmed,        \* those whose unknown events have been removed
    sync,           \* the row of the sync_status table
    blockJobs,      \* jobs waiting in the block-processing queue
    blockRetries,   \* its failed jobs, to be put back in it after a delay
    eventJobs,      \* jobs of the event-processing queue, oldest first
    eventRetries,   \* blocks whose events job failed and is due a retry
    indexDone,      \* completions of index jobs the server has not handled
    eventsDone,     \* completions of events jobs the server has not handled
    batch,          \* block-processing jobs fetched and not yet started
    live,           \* whether the rows of these jobs are still in the queue
    active,         \* the block-processing job being run
    tasks,          \* the calls of _indexBlock in progress
    eventActive,    \* the events job being run
    prefetched,     \* _blockAndEventsMap
    runnerUp,       \* whether the job-runner process runs
    serverUp,       \* whether the server process runs
    faults          \* number of faults so far

chainVars == <<head, published>>
tableVars == <<saved, complete, pruned, trimmed>>
dbVars == <<tableVars, sync>>
blockQueue == <<blockJobs, blockRetries>>
eventQueue == <<eventJobs, eventRetries>>
completions == <<indexDone, eventsDone>>
queueVars == <<blockQueue, eventQueue, completions>>
blockWorker == <<batch, live, active, tasks>>
memoryVars == <<blockWorker, eventActive, prefetched>>
processVars == <<runnerUp, serverUp, faults>>
vars == <<chainVars, dbVars, queueVars, memoryVars, processVars>>

-------------------------------------------------------------------------------
(* Jobs and the records of the workers.                                     *)

ByNumber(n)  == [kind |-> "number", height |-> n, block |-> NoBlock,
                 priority |-> 0]
ByHash(b, p) == [kind |-> "hash", height |-> Number[b], block |-> b,
                 priority |-> p]
Prune(h, p)  == [kind |-> "prune", height |-> h, block |-> NoBlock,
                 priority |-> p]

Job ==
    [kind : {"number"}, height : Nat, block : {NoBlock}, priority : {0}]
    \cup [kind : {"hash"}, height : Nat, block : Block, priority : Nat]
    \cup [kind : {"prune"}, height : Nat, block : {NoBlock}, priority : Nat]

\* the jobs of a set that pg-boss may hand out first
Urgent(jobs) == {j \in jobs : \A k \in jobs : k.priority <= j.priority}

Idle == [stage |-> "idle", job |-> ByNumber(0), keep |-> NoBlock]

Worker == {Idle} \cup [stage : {"fetch", "index", "prune", "commit"}, job : Job,
                       keep : Block \cup {NoBlock}]

\* a call of _indexBlock, and whether processBlock waits for it
Task == [job : Job, block : Block, stage : {"check", "load", "save", "push"},
         waited : BOOLEAN]

Call(j, b) == [job |-> j, block |-> b, stage |-> "check", waited |-> TRUE]

NoEvents == [stage |-> "idle", block |-> NoBlock, retry |-> FALSE,
             live |-> FALSE]

EventWorker == {NoEvents} \cup [stage : {"process", "status", "reset"},
                                block : Block, retry : BOOLEAN, live : BOOLEAN]

NoSync == [chainHead |-> 0, indexed |-> -1, canonical |-> 0,
           canonicalBlock |-> NoBlock, processed |-> -1,
           processedBlock |-> NoBlock]

SyncStatus == [chainHead : Nat, indexed : Nat \cup {-1}, canonical : Nat,
               canonicalBlock : Block \cup {NoBlock},
               processed : Nat \cup {-1}, processedBlock : Block \cup {NoBlock}]

HasSync == sync.chainHead # 0

-------------------------------------------------------------------------------
(* Queries and updates of the database.                                     *)

Unpruned == saved \ pruned

\* getBlocksAtHeight(n, false)
BlocksAtHeight(n) == AtHeight(Unpruned, n)

\* mutant: canonical starts at -1 like the other heights
ChainHeadAlone(n, b) ==
    IF ~HasSync
    THEN [NoSync EXCEPT !.chainHead = n, !.canonical = -1]
    ELSE IF n >= sync.chainHead THEN [sync EXCEPT !.chainHead = n] ELSE sync

\* updateSyncStatusChainHead creates the row the first time
WithChainHead(n, b) ==
    IF ~HasSync
    THEN [NoSync EXCEPT !.chainHead = n, !.canonical = n, !.canonicalBlock = b]
    ELSE IF n >= sync.chainHead THEN [sync EXCEPT !.chainHead = n] ELSE sync

\* mutant: the height to index next is taken for the latest indexed
NextToIndex(n) ==
    IF n >= sync.indexed THEN [sync EXCEPT !.indexed = n + 1] ELSE sync

WithIndexed(n) ==
    IF n >= sync.indexed THEN [sync EXCEPT !.indexed = n] ELSE sync

WithCanonical(n, b) ==
    IF n >= sync.canonical
    THEN [sync EXCEPT !.canonical = n, !.canonicalBlock = b]
    ELSE sync

WithProcessed(b) ==
    IF Number[b] >= sync.processed
    THEN [sync EXCEPT !.processed = Number[b], !.processedBlock = b]
    ELSE sync

\* getAncestorAtHeight follows parent hashes through the table as long as the
\* parent is saved and not below n
StoredAncestor(b, n) ==
    Lowest({a \in Ancestors[b] :
              \/ a = b
              \/ /\ Number[a] >= n
                 /\ \A c \in Ancestors[b] :
                        Number[a] <= Number[c] => c \in saved})

\* resetWatcherToBlock: what its two assertions require of height n
CanResetTo(n) == /\ BlocksAtHeight(n) # {}
                 /\ BlocksAtHeight(n) \subseteq complete

\* the row of the sync status after a reset to b
ResetTo(b) ==
    LET n == Number[b]
        low(x) == IF x > n THEN n ELSE x
    IN  [chainHead |-> n,
         indexed |-> low(sync.indexed),
         canonical |-> low(sync.canonical),
         canonicalBlock |-> IF sync.canonical > n THEN b ELSE sync.canonicalBlock,
         processed |-> low(sync.processed),
         processedBlock |-> IF sync.processed > n THEN b ELSE sync.processedBlock]

\* mutant: off by one, the blocks at n are deleted too
KeptBelow(n) == {b \in saved : Number[b] < n}

KeptByReset(n) == {b \in saved : Number[b] <= n}

\* the blocks above n are deleted (their events with them) and the numbers of
\* the sync status forced back
ResetWatcherToBlock(n) ==
    /\ saved' = KeptByReset(n)
    /\ complete' = complete \cap saved'
    /\ pruned' = pruned \cap saved'
    /\ trimmed' = trimmed \cap saved'
    /\ \E b \in BlocksAtHeight(n) : sync' = ResetTo(b)

-------------------------------------------------------------------------------
(* The upstream chain.  A reorg replaces at most MaxReorgDepth heights.     *)

AdvanceHead(b) ==
    /\ b # head
    /\ Number[b] >= Number[head]
    /\ {a \in Ancestors[head] : Number[a] <= Number[head] - MaxReorgDepth}
           \subseteq Ancestors[b]
    /\ head' = b
    /\ published' = published \cup Ancestors[b]
    /\ UNCHANGED <<dbVars, queueVars, memoryVars, processVars>>

\* what getBlocks({ blockNumber }) is answered once null rounds are skipped
FetchedFrom(n) ==
    LET served == IF AllBranches THEN published ELSE Ancestors[head]
    IN  Lowest({b \in served : Number[b] >= n})

-------------------------------------------------------------------------------
(* The block-processing queue of the job-runner.                            *)

Faulty(kind) ==
    /\ kind \in FaultKinds
    /\ faults < MaxFaults
    /\ faults' = faults + 1

\* the retry delay of some failed jobs is over
Redeliver(jobs) ==
    /\ jobs # {}
    /\ jobs \subseteq blockRetries
    /\ blockJobs' = blockJobs \cup jobs
    /\ blockRetries' = blockRetries \ jobs
    /\ UNCHANGED <<chainVars, dbVars, eventQueue, completions, memoryVars,
                   processVars>>

\* the worker fetches up to TeamSize jobs, those of highest priority
FetchBatch ==
    /\ runnerUp
    /\ batch = {} /\ active = Idle
    /\ blockJobs # {}
    /\ batch' \in SUBSET blockJobs
    /\ \A j \in batch', k \in blockJobs \ batch' : k.priority <= j.priority
    /\ \/ Cardinality(batch') = TeamSize
       \/ batch' = blockJobs /\ Cardinality(batch') < TeamSize
    /\ blockJobs' = blockJobs \ batch'
    /\ live' = TRUE
    /\ UNCHANGED <<chainVars, dbVars, blockRetries, eventQueue, completions,
                   active, tasks, eventActive, prefetched, processVars>>

\* and runs them one by one
TakeBlockJob(j) ==
    /\ active = Idle
    /\ j \in Urgent(batch)
    /\ batch' = batch \ {j}
    /\ active' = [job |-> j, keep |-> NoBlock,
                  stage |-> CASE j.kind = "number" -> "fetch"
                              [] j.kind = "hash"   -> "index"
                              [] j.kind = "prune"  -> "prune"]
    /\ tasks' = IF j.kind = "hash"
                THEN tasks \cup {Call(j, j.block)} ELSE tasks
    /\ UNCHANGED <<chainVars, dbVars, queueVars, live, eventActive, prefetched,
                   processVars>>

\* the active job fails with an error; pg-boss retries it if it has its row
FailBlockJob ==
    /\ active' = Idle
    /\ blockRetries' = IF live THEN blockRetries \cup {active.job}
                               ELSE blockRetries

\* fetchBlocksAtHeight and the first part of processBlock
FetchBlocksAtHeight ==
    LET blocks == FetchedFrom(active.job.height) IN
    /\ active.stage = "fetch"
    /\ Number[head] >= active.job.height
    /\ prefetched' = [b \in Block |-> IF b \in blocks THEN "fetched"
                                                      ELSE prefetched[b]]
    /\ \E b \in blocks : sync' = WithChainHead(Number[b], b)
    /\ tasks' = tasks \cup {Call(active.job, b) : b \in blocks}
    /\ active' = [active EXCEPT !.stage = "index"]
    /\ UNCHANGED <<chainVars, tableVars, queueVars, batch, live, eventActive,
                   processVars>>

\* no block of the height after maxNewBlockRetries attempts: the job fails
GiveUpOnNewBlock ==
    /\ active.stage = "fetch"
    /\ Number[head] < active.job.height
    /\ FailBlockJob
    /\ UNCHANGED <<chainVars, dbVars, blockJobs, eventQueue, completions, batch,
                   live, tasks, eventActive, prefetched, processVars>>

-------------------------------------------------------------------------------
(* _indexBlock.                                                             *)

Move(t, stage) == (tasks \ {t}) \cup {[t EXCEPT !.stage = stage]}

\* t throws, and processBlock with it if it waits for t; the other calls of
\* its Promise.all go on
FailTask(t) ==
    IF t.waited
    THEN /\ FailBlockJob
         /\ tasks' = {[u EXCEPT !.waited = FALSE] : u \in tasks \ {t}}
    ELSE /\ UNCHANGED <<active, blockRetries>>
         /\ tasks' = tasks \ {t}

\* mutant: off by one, the height is not yet safe to prune
PruningDue == sync.indexed - sync.canonical >= MaxReorgDepth

PruningBehind == sync.indexed - sync.canonical > MaxReorgDepth

\* mutant: the chain head is taken for the canonical block
AboveChainHead(b) == Number[b] > sync.chainHead

\* the parent has to be indexed before b
AboveCanonical(b) == Number[b] > sync.canonical

\* pruning is not caught up: push a job for it and throw
CheckPruning(t) ==
    /\ t.stage = "check"
    /\ PruningBehind
    /\ FailTask(t)
    /\ blockJobs' = blockJobs \cup
                    {Prune(sync.canonical + 1, t.job.priority + 1)}
    /\ UNCHANGED <<chainVars, dbVars, eventQueue, completions, batch, live,
                   eventActive, prefetched, processVars>>

\* mutant: having pushed the job of the parent, the call throws
EndWithError(t) == FailTask(t)

\* t returns without an error
EndTask(t) ==
    /\ tasks' = tasks \ {t}
    /\ UNCHANGED <<active, blockRetries>>

\* the parent is not saved, or not complete: push a job for it, and end
IndexParentFirst(t) ==
    LET p == Parent[t.block] IN
    /\ t.stage = "check"
    /\ ~PruningBehind
    /\ AboveCanonical(t.block)
    /\ p \in Block \ complete
    /\ EndTask(t)
    /\ blockJobs' = blockJobs \cup {ByHash(p, t.job.priority + 1)}
    /\ prefetched' = IF p \in saved THEN prefetched
                     ELSE [prefetched EXCEPT ![p] = "fetched"]
    /\ UNCHANGED <<chainVars, dbVars, eventQueue, completions, batch, live,
                   eventActive, processVars>>

\* the first row of the query is taken for the parent: at or below the
\* canonical height, when the parent is not saved, the row of b itself
BlockProgressFound(b) ==
    b \in saved /\ (AboveCanonical(b) \/ Parent[b] \in saved)

\* the checks pass; assert(data) on the entry of _blockAndEventsMap
CheckBlock(t) ==
    /\ t.stage = "check"
    /\ ~PruningBehind
    /\ AboveCanonical(t.block) => Parent[t.block] \in complete
    /\ IF prefetched[t.block] = "absent"
       THEN FailTask(t)
       ELSE /\ tasks' = Move(t, IF BlockProgressFound(t.block)
                                THEN "load" ELSE "save")
            /\ UNCHANGED <<active, blockRetries>>
    /\ UNCHANGED <<chainVars, dbVars, blockJobs, eventQueue, completions, batch,
                   live, eventActive, prefetched, processVars>>

\* the block was saved before: its row goes to the map
LoadBlock(t) ==
    /\ t.stage = "load"
    /\ prefetched' = [prefetched EXCEPT ![t.block] = "saved"]
    /\ tasks' = Move(t, "push")
    /\ UNCHANGED <<chainVars, dbVars, queueVars, batch, live, active,
                   eventActive, processVars>>

\* saveBlockAndFetchEvents
SaveBlock(t) ==
    /\ t.stage = "save"
    /\ t.block \notin saved
    /\ saved' = saved \cup {t.block}
    /\ prefetched' = [prefetched EXCEPT ![t.block] = "saved"]
    /\ tasks' = Move(t, "push")
    /\ UNCHANGED <<chainVars, complete, pruned, trimmed, sync, queueVars, batch,
                   live, active, eventActive, processVars>>

\* block_progress has a unique index on block_hash
SaveBlockAgain(t) ==
    /\ t.stage = "save"
    /\ t.block \in saved
    /\ FailTask(t)
    /\ UNCHANGED <<chainVars, dbVars, blockJobs, eventQueue, completions, batch,
                   live, eventActive, prefetched, processVars>>

\* _pushEventProcessingJobsForBlocks
PushEventsJob(t) ==
    /\ t.stage = "push"
    /\ eventJobs' = Append(eventJobs, t.block)
    /\ EndTask(t)
    /\ UNCHANGED <<chainVars, dbVars, blockJobs, eventRetries, completions,
                   batch, live, eventActive, prefetched, processVars>>

\* a request or a query of the call fails
TaskFails(t) ==
    /\ Faulty("index")
    /\ FailTask(t)
    /\ UNCHANGED <<chainVars, dbVars, blockJobs, eventQueue, completions, batch,
                   live, eventActive, prefetched, runnerUp, serverUp>>

AllIndexed ==
    /\ active.stage = "index"
    /\ \A t \in tasks : ~t.waited

\* every call of _indexBlock has returned: the job completes
FinishIndexJob ==
    /\ AllIndexed
    /\ active' = Idle
    /\ indexDone' = IF live THEN indexDone \cup {active.job} ELSE indexDone
    /\ UNCHANGED <<chainVars, dbVars, blockQueue, eventQueue, eventsDone, batch,
                   live, tasks, eventActive, prefetched, processVars>>

\* switchClients, or the completion of the job, fails: the job is retried
\* although its work is done
FinishIndexJobFails ==
    /\ AllIndexed
    /\ Faulty("index")
    /\ FailBlockJob
    /\ UNCHANGED <<chainVars, dbVars, blockJobs, eventQueue, completions, batch,
                   live, tasks, eventActive, prefetched, runnerUp, serverUp>>

-------------------------------------------------------------------------------
(* _pruneChain.                                                             *)

PruneSafe(h) == sync.indexed >= h + MaxReorgDepth

\* The walk down from the block at the reorg depth takes the first height that
\* has a block; its assertion refuses a block just above the pruned height.
IndexedForPrune(h) ==
    Highest({b \in Unpruned : Number[b] \in (h + 2)..(h + MaxReorgDepth)})

\* mutant: any block of the height is kept
AnyAtHeight(h, at) == IF at = {} THEN {NoBlock} ELSE at

\* what may be kept at a height where the blocks at are saved; NoBlock stands
\* for HashZero
Canonical(h, at) ==
    IF at = {} THEN {NoBlock}
    ELSE IF Cardinality(at) = 1 THEN at
    ELSE UNION {StoredAncestor(b, h) : b \in IndexedForPrune(h)}

\* mutants: every block, or none, is pruned
EveryBlock(at, b) == at
NoneDiscarded(at, b) == {}

\* the blocks to be pruned when b is kept
Discarded(at, b) == at \ {b}

\* pruning is not safe, or no indexed block is found above h: an error
PruneThrows ==
    LET h == active.job.height IN
    /\ active.stage = "prune"
    /\ \/ ~PruneSafe(h)
       \/ sync.canonical < h /\ Canonical(h, BlocksAtHeight(h)) = {}
    /\ FailBlockJob
    /\ UNCHANGED <<chainVars, dbVars, blockJobs, eventQueue, completions, batch,
                   live, tasks, eventActive, prefetched, processVars>>

\* already pruned at this height
PruneSkip ==
    LET h == active.job.height IN
    /\ active.stage = "prune"
    /\ PruneSafe(h)
    /\ sync.canonical >= h
    /\ active' = Idle
    /\ UNCHANGED <<chainVars, dbVars, queueVars, batch, live, tasks,
                   eventActive, prefetched, processVars>>

\* choose the canonical block of the height and mark the others as pruned
PruneMark ==
    LET h  == active.job.height
        at == BlocksAtHeight(h)
    IN
    /\ active.stage = "prune"
    /\ PruneSafe(h)
    /\ sync.canonical < h
    /\ \E b \in Canonical(h, at) :
          /\ active' = [active EXCEPT !.stage = "commit", !.keep = b]
          /\ pruned' = pruned \cup Discarded(at, b)
    /\ UNCHANGED <<chainVars, saved, complete, trimmed, sync, queueVars, batch,
                   live, tasks, eventActive, prefetched, processVars>>

\* updateSyncStatusCanonicalBlock
PruneCommit ==
    /\ active.stage = "commit"
    /\ sync' = WithCanonical(active.job.height, active.keep)
    /\ active' = Idle
    /\ UNCHANGED <<chainVars, tableVars, queueVars, batch, live, tasks,
                   eventActive, prefetched, processVars>>

\* a query of the job fails
PruneFails ==
    /\ active.stage \in {"prune", "commit"}
    /\ Faulty("prune")
    /\ FailBlockJob
    /\ UNCHANGED <<chainVars, dbVars, blockJobs, eventQueue, completions, batch,
                   live, tasks, eventActive, prefetched, runnerUp, serverUp>>

-------------------------------------------------------------------------------
(* The event-processing queue of the job-runner.                            *)

StartEvents(b, isRetry) ==
    eventActive' = [stage |-> "process", block |-> b, retry |-> isRetry,
                    live |-> TRUE]

\* the oldest job is run; without an entry in the map the assertion fails
\* outside the try block
TakeEventsJob ==
    LET b == Head(eventJobs) IN
    /\ runnerUp
    /\ eventActive = NoEvents
    /\ eventJobs # <<>>
    /\ eventJobs' = Tail(eventJobs)
    /\ IF prefetched[b] = "absent"
       THEN eventRetries' = eventRetries \cup {b} /\ UNCHANGED eventActive
       ELSE StartEvents(b, FALSE) /\ UNCHANGED eventRetries
    /\ UNCHANGED <<chainVars, dbVars, blockQueue, completions, blockWorker,
                   prefetched, processVars>>

\* a retry without an entry in the map fails again and changes nothing
RetryEventsJob(b) ==
    /\ runnerUp
    /\ eventActive = NoEvents
    /\ prefetched[b] # "absent"
    /\ eventRetries' = eventRetries \ {b}
    /\ StartEvents(b, TRUE)
    /\ UNCHANGED <<chainVars, dbVars, blockQueue, eventJobs, completions,
                   blockWorker, prefetched, processVars>>

\* getBlockEvents keeps returning nothing once the events it counts on are
\* deleted or their block is pruned, and the loop over the batches never ends
EventsReadable(b) == b \in WithEvents => b \in Unpruned \ trimmed

\* processBatchEvents up to the commit of updateBlockProgress
ProcessEvents ==
    LET b == eventActive.block IN
    /\ eventActive.stage = "process"
    /\ prefetched[b] = "saved"
    /\ EventsReadable(b)
    /\ complete' = complete \cup ({b} \cap saved)
    /\ prefetched' = [prefetched EXCEPT ![b] = "absent"]
    /\ eventActive' = [eventActive EXCEPT !.stage = "status"]
    /\ UNCHANGED <<chainVars, saved, pruned, trimmed, sync, queueVars,
                   blockWorker, processVars>>

FinishEventsJob ==
    /\ eventActive' = NoEvents
    /\ eventsDone' = IF eventActive.live
                     THEN eventsDone \cup {eventActive.block} ELSE eventsDone

\* updateSyncStatusProcessedBlock and removeUnknownEvents, after the pending
\* events jobs are deleted if a contract was added
UpdateProcessed ==
    LET b == eventActive.block IN
    /\ eventActive.stage = "status"
    /\ IF b \in WithContract THEN eventJobs' = <<>> /\ eventRetries' = {}
                             ELSE UNCHANGED eventQueue
    /\ sync' = WithProcessed(b)
    /\ trimmed' = trimmed \cup ({b} \cap WithUnknown \cap saved)
    /\ IF eventActive.retry
       THEN /\ eventActive' = [eventActive EXCEPT !.stage = "reset"]
            /\ UNCHANGED eventsDone
       ELSE FinishEventsJob
    /\ UNCHANGED <<chainVars, saved, complete, pruned, blockQueue, indexDone,
                   blockWorker, prefetched, processVars>>

\* the watcher is reset to the block after a successful retry
ResetAfterRetry ==
    LET n == Number[eventActive.block] IN
    /\ eventActive.stage = "reset"
    /\ CanResetTo(n)
    /\ ResetWatcherToBlock(n)
    /\ FinishEventsJob
    /\ UNCHANGED <<chainVars, blockQueue, eventQueue, indexDone, blockWorker,
                   prefetched, processVars>>

\* the catch block of _processEvents: every pending events job is deleted, the
\* failed one is retried
CatchEventsError ==
    /\ eventActive' = NoEvents
    /\ eventJobs' = <<>>
    /\ eventRetries' = IF eventActive.live THEN {eventActive.block} ELSE {}
    /\ UNCHANGED <<chainVars, dbVars, blockQueue, completions, blockWorker,
                   prefetched, runnerUp, serverUp>>

\* a handler, a request or a query fails
EventsFail ==
    /\ eventActive.stage # "idle"
    /\ Faulty("events")
    /\ CatchEventsError

\* the map entry has been fetched anew and holds no block, or the watcher
\* cannot be reset to the block
EventsThrow ==
    /\ \/ /\ eventActive.stage = "process"
          /\ prefetched[eventActive.block] # "saved"
       \/ /\ eventActive.stage = "reset"
          /\ ~CanResetTo(Number[eventActive.block])
    /\ CatchEventsError
    /\ UNCHANGED faults

-------------------------------------------------------------------------------
(* The server: EventWatcher.                                                *)

\* _handleIndexingComplete
HandleIndexDone(j) ==
    /\ serverUp
    /\ indexDone' = indexDone \ {j}
    /\ IF BlocksAtHeight(j.height) = {}
       THEN UNCHANGED <<sync, blockJobs>>
       ELSE /\ sync' = WithIndexed(j.height)
            /\ blockJobs' = IF sync'.indexed > sync.canonical + MaxReorgDepth
                            THEN blockJobs \cup {Prune(sync.canonical + 1,
                                                       j.priority + 1)}
                            ELSE blockJobs
    /\ UNCHANGED <<chainVars, tableVars, blockRetries, eventQueue, eventsDone,
                   memoryVars, processVars>>

\* eventProcessingCompleteHandler and the loop of startRealtimeBlockProcessing;
\* the handler fails and is retried while the block is not in the table
HandleEventsDone(b) ==
    /\ serverUp
    /\ b \in saved
    /\ eventsDone' = eventsDone \ {b}
    /\ blockJobs' = IF b \in complete
                    THEN blockJobs \cup {ByNumber(Number[b] + 1)}
                    ELSE blockJobs
    /\ UNCHANGED <<chainVars, dbVars, blockRetries, eventQueue, indexDone,
                   memoryVars, processVars>>

-------------------------------------------------------------------------------
(* Crashes and restarts.                                                    *)

\* what resetToLatestProcessedBlock asserts before it resets the watcher
CanStart ==
    HasSync => /\ sync.processedBlock \in complete
               /\ CanResetTo(Number[sync.processedBlock])

\* the whole deployment goes down; the memory of the processes is lost
Crash ==
    /\ runnerUp
    /\ Faulty("crash")
    /\ runnerUp' = FALSE
    /\ serverUp' = FALSE
    /\ batch' = {} /\ live' = FALSE /\ active' = Idle /\ tasks' = {}
    /\ eventActive' = NoEvents
    /\ prefetched' = [b \in Block |-> "absent"]
    /\ UNCHANGED <<chainVars, dbVars, queueVars>>

ServerCrash ==
    /\ serverUp
    /\ Faulty("server")
    /\ serverUp' = FALSE
    /\ UNCHANGED <<chainVars, dbVars, queueVars, memoryVars, runnerUp>>

\* deleteAllJobs('completed'): pending, retried and active jobs and completions
DeleteAllJobs ==
    /\ blockRetries' = {}
    /\ eventJobs' = <<>>
    /\ eventRetries' = {}
    /\ indexDone' = {}
    /\ eventsDone' = {}

\* JobRunnerCmd.exec: delete the jobs, reset to the latest processed block
StartRunner ==
    /\ ~runnerUp
    /\ CanStart
    /\ runnerUp' = TRUE
    /\ DeleteAllJobs
    /\ blockJobs' = {}
    /\ IF HasSync THEN ResetWatcherToBlock(Number[sync.processedBlock])
                  ELSE UNCHANGED dbVars
    /\ UNCHANGED <<chainVars, memoryVars, serverUp, faults>>

\* ServerCmd.exec: delete the jobs, push a job for the first block, or for the
\* block after the chain head; the jobs being run lose their row
StartServer ==
    /\ ~serverUp
    /\ runnerUp
    /\ serverUp' = TRUE
    /\ DeleteAllJobs
    /\ blockJobs' = {ByNumber(IF HasSync THEN sync.chainHead + 1
                                         ELSE Number[Root])}
    /\ live' = FALSE
    /\ eventActive' = [eventActive EXCEPT !.live = FALSE]
    /\ UNCHANGED <<chainVars, dbVars, batch, active, tasks, prefetched,
                   runnerUp, faults>>

-------------------------------------------------------------------------------
Init ==
    /\ head = Root
    /\ published = {Root}
    /\ saved = {} /\ complete = {} /\ pruned = {} /\ trimmed = {}
    /\ sync = NoSync
    /\ blockJobs = {ByNumber(Number[Root])} /\ blockRetries = {}
    /\ eventJobs = <<>> /\ eventRetries = {}
    /\ indexDone = {} /\ eventsDone = {}
    /\ batch = {} /\ live = FALSE /\ active = Idle /\ tasks = {}
    /\ eventActive = NoEvents
    /\ prefetched = [b \in Block |-> "absent"]
    /\ runnerUp = TRUE /\ serverUp = TRUE
    /\ faults = 0

IndexBlockStep(t) ==
    \/ CheckPruning(t)
    \/ IndexParentFirst(t)
    \/ CheckBlock(t)
    \/ LoadBlock(t)
    \/ SaveBlock(t)
    \/ SaveBlockAgain(t)
    \/ PushEventsJob(t)

BlockWorkerStep ==
    \/ FetchBatch
    \/ \E j \in batch : TakeBlockJob(j)
    \/ FetchBlocksAtHeight
    \/ GiveUpOnNewBlock
    \/ \E t \in tasks : IndexBlockStep(t)
    \/ FinishIndexJob
    \/ PruneThrows
    \/ PruneSkip
    \/ PruneMark
    \/ PruneCommit

EventWorkerStep ==
    \/ TakeEventsJob
    \/ ProcessEvents
    \/ UpdateProcessed
    \/ ResetAfterRetry
    \/ EventsThrow

RetryDelayOver ==
    \/ \E jobs \in SUBSET blockRetries : Redeliver(jobs)
    \/ \E b \in eventRetries : RetryEventsJob(b)

ServerStep ==
    \/ \E j \in indexDone : HandleIndexDone(j)
    \/ \E b \in eventsDone : HandleEventsDone(b)

Restart == StartRunner \/ StartServer

Fault ==
    \/ \E t \in tasks : TaskFails(t)
    \/ FinishIndexJobFails
    \/ PruneFails
    \/ EventsFail
    \/ Crash
    \/ ServerCrash

Next ==
    \/ \E b \in Block : AdvanceHead(b)
    \/ BlockWorkerStep
    \/ EventWorkerStep
    \/ RetryDelayOver
    \/ ServerStep
    \/ Restart
    \/ Fault

Spec == Init /\ [][Next]_vars

\* The workers poll their queues and take their steps, retried jobs come back
\* when their delay is over, completions are handled, and processes that went
\* down are started again.
Fairness ==
    /\ WF_vars(BlockWorkerStep)
    /\ WF_vars(EventWorkerStep)
    /\ WF_vars(Redeliver(blockRetries))
    /\ SF_vars(\E b \in eventRetries : RetryEventsJob(b))
    /\ WF_vars(\E j \in indexDone : HandleIndexDone(j))
    /\ WF_vars(\E b \in eventsDone : HandleEventsDone(b))
    /\ WF_vars(Restart)

FairSpec == Spec /\ Fairness

-------------------------------------------------------------------------------
\* Types; only rows of the table are marked as pruned, complete or trimmed of their
\* events, and the sync status and the jobs have blocks of the tree, or none.
TypeOK ==
    /\ head \in Block
    /\ published \subseteq Block
    /\ saved \subseteq Block
    /\ complete \subseteq saved
    /\ pruned \subseteq saved
    /\ trimmed \subseteq saved
    /\ sync \in SyncStatus
    /\ blockJobs \subseteq Job
    /\ blockRetries \subseteq Job
    /\ eventJobs \in Seq(Block)
    /\ eventRetries \subseteq Block
    /\ indexDone \subseteq Job
    /\ eventsDone \subseteq Block
    /\ batch \subseteq Job
    /\ live \in BOOLEAN
    /\ active \in Worker
    /\ tasks \subseteq Task
    /\ eventActive \in EventWorker
    /\ prefetched \in [Block -> {"absent", "fetched", "saved"}]
    /\ runnerUp \in BOOLEAN
    /\ serverUp \in BOOLEAN
    /\ faults \in 0..MaxFaults

-------------------------------------------------------------------------------
(* Properties.                                                              *)

\* A block is only added to the table, and so to the watcher's view of the
\* chain, when the events of its parent have been processed, whatever branch
\* the two are on (the check of _indexBlock on the parent).
ParentProcessedFirst ==
    \A b \in saved \ {Root} : Parent[b] \in complete

\* Up to the canonical height, the blocks that pruning has left in the table
\* are on one branch (_pruneChain).
CanonicalIsOneBranch ==
    \A b, c \in {a \in Unpruned : Number[a] <= sync.canonical} :
        OnOneBranch(b, c)

\* No block of the upstream chain is ever marked as pruned, as long as no reorg
\* is deeper than MAX_REORG_DEPTH.
ChainNeverPruned == pruned \cap Ancestors[head] = {}

\* The block the sync status names as canonical is not one of the pruned.
CanonicalBlockUnpruned == sync.canonicalBlock \notin pruned

\* The canonical height stays MAX_REORG_DEPTH below the upstream head.
ReorgWindowOpen ==
    HasSync => \/ sync.canonical = Number[Root]
               \/ sync.canonical + MaxReorgDepth <= Number[head]

\* The latest processed block of the sync status, from which the job-runner
\* restarts, is in the table and complete.
ProcessedIsComplete ==
    sync.processed # -1 => sync.processedBlock \in complete

IndexJobs(jobs) == {j \in jobs : j.kind # "prune"}

\* where the block being indexed or processed may be found
Places ==
    <<IndexJobs(blockJobs), IndexJobs(blockRetries), IndexJobs(batch),
      {j \in {active.job} : active.stage = "fetch"}, tasks, DOMAIN eventJobs,
      {x \in {eventActive} : x # NoEvents}, eventsDone>>

\* Over an RPC endpoint, and when nothing fails, one block at a time is between
\* the job that indexes it and the handling of its completed events job, though
\* two queues and the workers of two processes pass it on; so no events job is retried.
OneBlockInFlight ==
    /\ \A m, n \in DOMAIN Places :
           \A x \in Places[m], y \in Places[n] : m = n /\ x = y
    /\ eventRetries = {}
    /\ ~eventActive.retry

\* The loop over the batches of events of a block comes to an end, also when the
\* block has been processed before (_processEvents).
EventsNeverStarve ==
    [](eventActive.stage = "process" => <>(eventActive.stage # "process"))

\* However the chain grows and reorganises, the watcher gets as far as its head.
HeadHeightProcessed == []<>(HasSync /\ sync.processed >= Number[head])

\* _pruneChain fails on the height it has to prune next: the walk down finds no
\* block that could tell which of its blocks to keep.
PruneBlocked ==
    LET h == sync.canonical + 1 IN
    /\ PruneSafe(h)
    /\ Canonical(h, BlocksAtHeight(h)) = {}

\* The same when heights may be null rounds: the watcher gets as far as the head
\* unless, from some time on, the next height cannot be pruned.
ProcessedUnlessBlocked == HeadHeightProcessed \/ <>[]PruneBlocked

\* An index call never inserts a block that is in the table: _indexBlock
\* queries for the block to tell.
SavedOnce == \A t \in tasks : t.stage = "save" => t.block \notin saved

\* assert(prefetchedBlock) of _processEvents on the jobs it has failed once.
RetriesHaveBlock == \A b \in eventRetries : prefetched[b] # "absent"

\* The assertions of resetWatcherToBlock after a successful retry.
RetryNeverBlocked ==
    eventActive.stage = "reset" => CanResetTo(Number[eventActive.block])

\* The assertions of resetToLatestProcessedBlock when the job-runner starts.
RestartPossible == ~runnerUp => CanStart

\* What a watcher promises, in the terms of ChainFollower.
Follower == INSTANCE ChainFollower
                WITH processed <- complete, final <- sync.canonicalBlock

\* The watcher processes each block on top of its parent and settles on the
\* canonical blocks one by one, each the child of the last and processed; only
\* blocks above the canonical one are ever processed anew after a reset.
FollowsChain == Follower!Spec
===============================================================================
