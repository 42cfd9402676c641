----------------------------- MODULE HistoricalSync -----------------------------
(***************************************************************************)
(* Historical sync (useBlockRanges): below the frothy region blocks are not *)
(* indexed one by one.  A job of the historical queue fetches the logs of a *)
(* range of blocks, saves the blocks that have any, pushes an events job    *)
(* for each, moves the sync status to the end of the range and pushes the   *)
(* job of the next range.                                                   *)
(*                                                                          *)
(* Logs are fetched for the watched contracts (filterLogsByAddresses).  An  *)
(* event may create another one, whose logs are missing in what has been    *)
(* fetched: the history is then restarted from the next block.  Events jobs *)
(* run next to historical jobs, both may fail, and the job-runner may crash.*)
(*                                                                          *)
(* The chain has no forks here.  Watching a contract also pushes a contract *)
(* job, which changes nothing in the process that watches; it is left out.  *)
(***************************************************************************)
EXTENDS Integers, SequencesExt, FiniteSetsExt

CONSTANTS
    Tip,            \* the height below which there are no reorgs
    FactoryLogs,    \* the blocks with logs of the watched contract, "factory"
    PoolLogs,       \* those with logs of "pool", once it exists
    Creations,      \* the blocks whose events may create "pool"
    LogsBlockRange, \* historicalLogsBlockRange
    FetchAhead,     \* historicalMaxFetchAhead
    NoJob,
    FaultKinds,     \* what may go wrong: "events", "fetch", "crash"
    MaxFaults       \* bound on the number of faults

Height == 0..Tip
Contract == {"factory", "pool"}

Block == 1..Tip

\* a job of the historical queue; its range may be empty, but no more than that
HistoryJob ==
    {j \in [from : 1..(Tip + 1), to : Height, priority : {0, 1}] : j.from <= j.to + 1}

\* the handler of a historical job
Batch ==
    {h \in [job : HistoryJob, at : {"wait", "fetch", "push", "next"},
            filter : SUBSET Contract, deleted : BOOLEAN, end : Height,
            left : SUBSET Block] :
        /\ h.job.from <= h.end + 1 /\ h.end <= h.job.to
        /\ h.left \subseteq h.job.from..h.end}

\* the handler of an events job
EventJob == [block : Block, retry : BOOLEAN, at : {"process", "created", "status"}]

Memory == [completedUpto : Height, lastEnd : Height, hasError : BOOLEAN,
           blocks : SUBSET Height]

ASSUME HistoryAssumption ==
    /\ {Tip, LogsBlockRange, FetchAhead} \subseteq Nat \ {0}
    /\ FactoryLogs \subseteq Height /\ PoolLogs \subseteq Height
    /\ Creations \subseteq FactoryLogs \ {0}
    /\ FaultKinds \subseteq {"events", "fetch", "crash"}
    /\ MaxFaults \in Nat
    /\ NoJob \notin Height \cup Batch \cup EventJob

VARIABLES
    creation,    \* the block whose events create "pool"
    rows,        \* block_progress: the contracts whose logs were saved for a block
    complete,    \* the blocks with isComplete
    applied,     \* applied[b][c], how often logs of c in b are in the entities
    status,      \* sync_status: chain head and latest processed block
    watched,     \* contracts, in the database and in memory
    queue,       \* jobs of QUEUE_HISTORICAL_PROCESSING that are not active
    batch,       \* the handler of a historical job
    events,      \* jobs of QUEUE_EVENT_PROCESSING that are not active
    retrying,    \* an events job that waits for its retry
    event,       \* the handler of an events job
    memory,      \* completedUpto, lastEnd, hasError of the job-runner; the blocks
                 \* of _blockAndEventsMap
    starting,    \* calls of startBlockProcessing that wait for the events queue
    server,      \* end of the history that was started; where realtime started
    finished,    \* onComplete jobs: ends of ranges, and retried events jobs
    faults,
    overlapped,  \* history: an events job created a contract or failed while a
                 \* historical job was in progress
    dropped      \* history: a historical job was dropped

dbVars == <<creation, rows, complete, applied, status, watched>>
history == <<faults, overlapped, dropped>>
vars == <<dbVars, queue, batch, events, retrying, event, memory, starting, server,
          finished, history>>

NoBlock == -1
Retried == 0  \* among the ends of ranges that have finished: a retried events job
Unsaved == [b \in Height |-> {}]
Nothing == [b \in Height |-> [c \in Contract |-> 0]]

\* the contracts with logs in block b
Emits(b) ==
    (IF b \in FactoryLogs THEN {"factory"} ELSE {})
        \cup (IF b \in PoolLogs /\ b >= creation THEN {"pool"} ELSE {})

Fail(kind) ==
    /\ kind \in FaultKinds /\ faults < MaxFaults
    /\ faults' = faults + 1

-------------------------------------------------------------------------------
\* a watcher that was stopped at block 0, long ago
Init ==
    /\ creation \in Creations
    /\ rows = [Unsaved EXCEPT ![0] = {"factory"}]
    /\ complete = {0}
    /\ applied = Nothing
    /\ status = [head |-> 0, processed |-> 0]
    /\ watched = {"factory"}
    /\ queue = <<>> /\ batch = NoJob
    /\ events = <<>> /\ retrying = NoJob /\ event = NoJob
    /\ memory = [completedUpto |-> 0, lastEnd |-> 0, hasError |-> FALSE, blocks |-> {}]
    /\ starting = 1
    /\ server = [end |-> 0, realtime |-> NoBlock]
    /\ finished = {}
    /\ faults = 0 /\ overlapped = FALSE /\ dropped = FALSE

(***************************************************************************)
(* resetWatcherToBlock: what the database and the cache are without the     *)
(* blocks above b                                                           *)
(***************************************************************************)
Saved(b) == rows[b] # {}
CanReset(b) == Saved(b) /\ b \in complete

resetWatcherToBlock(b, processed) ==
    /\ rows' = [x \in Height |-> IF x > b THEN {} ELSE rows[x]]
    /\ complete' = {x \in complete : x <= b}
    /\ applied' = [x \in Height |-> IF x > b THEN Nothing[x] ELSE applied[x]]
    /\ watched' = IF creation > b THEN watched \ {"pool"} ELSE watched
    /\ status' = [head |-> b, processed |-> Min({processed, b})]

(***************************************************************************)
(* processHistoricalBlocks                                                  *)
(***************************************************************************)
Job(from, to, priority) == [from |-> from, to |-> to, priority |-> priority]
\* the oldest of the jobs with the highest priority
NextJob(k) ==
    /\ \A i \in DOMAIN queue : queue[i].priority <= queue[k].priority
    /\ \A i \in 1..(k - 1) : queue[i].priority < queue[k].priority

\* the job that starts again after a block which created a contract
IsRestart(from) == memory.completedUpto # 0 /\ from < memory.completedUpto
Follows(from) == memory.completedUpto # 0 => from - 1 = memory.completedUpto

\* the logs of a range are requested for the contracts watched at this moment
Fetching(job, deleted) ==
    [job |-> job, at |-> "fetch", filter |-> watched, deleted |-> deleted,
     end |-> Min({job.from + LogsBlockRange, job.to}), left |-> {}]

StartHistorical ==
    /\ batch = NoJob
    /\ \E k \in DOMAIN queue :
       LET job == queue[k] IN
       /\ NextJob(k)
       /\ \/ /\ IsRestart(job.from)
             /\ queue' = <<>> /\ events' = <<>> /\ retrying' = NoJob
             /\ batch' = [Fetching(job, FALSE) EXCEPT !.at = "wait"]
             /\ UNCHANGED <<memory, dropped>>
          \/ /\ ~IsRestart(job.from) /\ Follows(job.from)
             /\ queue' = RemoveAt(queue, k)
             /\ batch' = Fetching(job, FALSE)
             /\ memory' = [memory EXCEPT !.lastEnd = job.to]
             /\ UNCHANGED <<events, retrying, dropped>>
          \/ /\ ~IsRestart(job.from) /\ ~Follows(job.from)
             /\ queue' = RemoveAt(queue, k)
             /\ dropped' = TRUE
             /\ UNCHANGED <<batch, events, retrying, memory>>
    /\ UNCHANGED <<dbVars, event, starting, server, finished, faults, overlapped>>

EventsQueueEmpty == events = <<>> /\ retrying = NoJob /\ event = NoJob

\* the events queue is empty, and the watcher is reset to the block before the range
Restart ==
    /\ batch # NoJob /\ batch.at = "wait"
    /\ EventsQueueEmpty
    /\ IF CanReset(batch.job.from - 1)
       THEN /\ resetWatcherToBlock(batch.job.from - 1, status.processed)
            /\ batch' = [Fetching(batch.job, batch.deleted) EXCEPT !.filter = watched']
            /\ memory' = [memory EXCEPT !.lastEnd = batch.job.to]
            /\ UNCHANGED queue
       ELSE \* the assertion of resetWatcherToBlock: the job is retried
            /\ batch' = NoJob
            /\ queue' = IF batch.deleted THEN queue ELSE Append(queue, batch.job)
            /\ UNCHANGED <<dbVars, memory>>
    /\ UNCHANGED <<creation, events, retrying, event, starting, server, finished, history>>

WithLogs == {b \in batch.job.from..batch.end : Emits(b) \cap batch.filter # {}}

\* fetchAndSaveFilteredLogsAndBlocks
SaveBlocks ==
    /\ batch # NoJob /\ batch.at = "fetch"
    /\ \A b \in WithLogs : ~Saved(b)
    /\ rows' = [b \in Height |-> IF b \in WithLogs THEN Emits(b) \cap batch.filter ELSE rows[b]]
    /\ memory' = [memory EXCEPT !.blocks = @ \cup WithLogs]
    /\ IF WithLogs # {} /\ memory.hasError
       THEN batch' = NoJob
       ELSE batch' = [batch EXCEPT !.at = "push", !.left = WithLogs]
    /\ UNCHANGED <<creation, complete, applied, status, watched, queue, events, retrying, event,
                   starting, server, finished, history>>

\* the request fails, or a block hash is in the table already: the job is retried
FetchFails ==
    /\ batch # NoJob /\ batch.at = "fetch"
    /\ \/ Fail("fetch")
       \/ (\E b \in WithLogs : Saved(b)) /\ UNCHANGED faults
    /\ batch' = NoJob
    /\ queue' = IF batch.deleted THEN queue ELSE Append(queue, batch.job)
    /\ UNCHANGED <<dbVars, events, retrying, event, memory, starting, server, finished,
                   overlapped, dropped>>

\* _pushEventProcessingJobsForBlocks
PushEvents ==
    /\ batch # NoJob /\ batch.at = "push"
    /\ \E b \in batch.left :
       /\ \A c \in batch.left : b <= c
       /\ events' = Append(events, b)
       /\ batch' = [batch EXCEPT !.left = @ \ {b}]
    /\ UNCHANGED <<dbVars, queue, retrying, event, memory, starting, server, finished, history>>

\* updateSyncStatus
UpdateStatus ==
    /\ batch # NoJob /\ batch.at = "push" /\ batch.left = {}
    /\ status' = [status EXCEPT !.head = batch.end]
    /\ memory' = [memory EXCEPT !.completedUpto = batch.end]
    /\ batch' = [batch EXCEPT !.at = "next"]
    /\ UNCHANGED <<creation, rows, complete, applied, watched, queue, events, retrying, event,
                   starting, server, finished, history>>

\* the job of the next range; completing a deleted job does nothing
FinishBatch ==
    /\ batch # NoJob /\ batch.at = "next"
    /\ queue' = IF batch.end < batch.job.to
                THEN Append(queue, Job(batch.end + 1, batch.job.to, 0)) ELSE queue
    /\ finished' = IF batch.deleted THEN finished ELSE finished \cup {batch.end}
    /\ batch' = NoJob
    /\ UNCHANGED <<dbVars, events, retrying, event, memory, starting, server, history>>

-------------------------------------------------------------------------------
(***************************************************************************)
(* processEvent, _processEvents                                             *)
(***************************************************************************)
Handling(block, retry) == [block |-> block, retry |-> retry, at |-> "process"]

\* of a block that is not in memory any more the job fails at once
StartEvents ==
    /\ event = NoJob
    /\ \/ /\ events # <<>>
          /\ event' = Handling(Head(events), FALSE)
          /\ events' = Tail(events)
          /\ UNCHANGED retrying
       \/ /\ retrying # NoJob
          /\ retrying \in memory.blocks
          /\ event' = Handling(retrying, TRUE)
          /\ retrying' = NoJob
          /\ UNCHANGED events
    /\ UNCHANGED <<dbVars, queue, batch, memory, starting, server, finished, history>>

Creates(b) == b = creation /\ "pool" \notin watched

\* the logs of block b that its handlers see: those saved, and those of a contract
\* that they create, fetched at the end
Logs(b) == IF Creates(b) THEN rows[b] \cup (Emits(b) \cap {"pool"}) ELSE rows[b]

\* processBatchEvents; events of a block whose rows have been deleted are awaited for
\* ever, by a loop that counts them
ProcessEvents ==
    /\ event # NoJob /\ event.at = "process"
    /\ Saved(event.block)
    /\ LET b == event.block IN
       /\ applied' = [applied EXCEPT ![b] =
                         [c \in Contract |-> IF c \in Logs(b) THEN applied[b][c] + 1
                                                            ELSE applied[b][c]]]
       /\ rows' = [rows EXCEPT ![b] = Logs(b)]
       /\ complete' = complete \cup {b}
       /\ watched' = IF b = creation THEN Contract ELSE watched
       /\ memory' = [memory EXCEPT !.blocks = @ \ {b}]
       /\ event' = [event EXCEPT !.at = IF Creates(b) THEN "created" ELSE "status"]
    /\ UNCHANGED <<creation, status, queue, batch, events, retrying, starting, server,
                   finished, history>>

\* a historical job is in progress, and does not wait for this events job
Overlaps == batch # NoJob /\ batch.at # "wait"

\* a contract was created: the history starts again after the block, if it has gone on
GoOn(b) == UNCHANGED queue
RestartAfter(b) ==
    IF memory.completedUpto > b
    THEN queue' = <<Job(b + 1, memory.lastEnd, 1)>>
    ELSE UNCHANGED queue

ContractCreated ==
    /\ event # NoJob /\ event.at = "created"
    /\ RestartAfter(event.block)
    /\ events' = <<>> /\ retrying' = NoJob
    /\ event' = [event EXCEPT !.at = "status"]
    /\ overlapped' = (overlapped \/ Overlaps)
    /\ UNCHANGED <<dbVars, batch, memory, starting, server, finished, faults, dropped>>

\* updateSyncStatusProcessedBlock; after a retry, the reset
EventsDone ==
    /\ event # NoJob /\ event.at = "status"
    /\ LET b == event.block IN
       IF event.retry
       THEN /\ CanReset(b)
            /\ resetWatcherToBlock(b, b)
            /\ finished' = finished \cup {Retried}
       ELSE /\ status' = [status EXCEPT !.processed = Max({@, b})]
            /\ UNCHANGED <<rows, complete, applied, watched, finished>>
    /\ memory' = [memory EXCEPT !.hasError = FALSE]
    /\ event' = NoJob
    /\ UNCHANGED <<creation, queue, batch, events, retrying, starting, server, history>>

\* clearProcessedBlockData: what the handlers applied before the one that throws is removed
NotCleared(b) ==
    [applied EXCEPT ![b] = [c \in Contract |-> IF c \in rows[b] THEN @[c] + 1 ELSE @[c]]]
Cleared(b) == [applied EXCEPT ![b] = Nothing[b]]

\* a handler throws: both queues are emptied, of the active historical job as well
EventsFail ==
    /\ event # NoJob /\ event.at = "process"
    /\ Fail("events")
    /\ memory' = [memory EXCEPT !.hasError = TRUE]
    /\ applied' = Cleared(event.block)
    /\ watched' = IF event.block = creation THEN watched \ {"pool"} ELSE watched
    /\ events' = <<>> /\ queue' = <<>>
    /\ batch' = IF batch = NoJob THEN NoJob ELSE [batch EXCEPT !.deleted = TRUE]
    /\ retrying' = event.block
    /\ event' = NoJob
    /\ overlapped' = (overlapped \/ Overlaps)
    /\ UNCHANGED <<creation, rows, complete, status, starting, server, finished, dropped>>

-------------------------------------------------------------------------------
(***************************************************************************)
(* The server: events.ts                                                    *)
(***************************************************************************)
startBlockProcessing ==
    /\ starting > 0
    /\ EventsQueueEmpty
    /\ starting' = starting - 1
    /\ IF queue # <<>> \/ (batch # NoJob /\ ~batch.deleted)
       THEN UNCHANGED <<queue, server>>
       ELSE LET start == status.head + 1
                end == Min({start + FetchAhead, Tip})
            IN  \/ /\ server.realtime # NoBlock
                   /\ UNCHANGED <<queue, server>>
                \/ /\ server.realtime = NoBlock /\ start < Tip
                   /\ server' = [server EXCEPT !.end = end]
                   /\ queue' = Append(queue, Job(start, end, 1))
                \/ /\ server.realtime = NoBlock /\ start >= Tip
                   /\ server' = [server EXCEPT !.realtime = start]
                   /\ UNCHANGED queue
    /\ UNCHANGED <<dbVars, batch, events, retrying, event, memory, finished, history>>

MaxStarts == 2  \* bound on the calls that wait

LastBlock(end) == end > server.end
HistoryProcessed(end) == end + 1 > server.end

historicalProcessingCompleteHandler ==
    \E end \in finished \ {Retried} :
        /\ finished' = finished \ {end}
        /\ starting' = IF HistoryProcessed(end) THEN Min({starting + 1, MaxStarts}) ELSE starting
        /\ UNCHANGED <<dbVars, queue, batch, events, retrying, event, memory, server, history>>

eventProcessingCompleteHandler ==
    /\ Retried \in finished
    /\ finished' = finished \ {Retried}
    /\ starting' = Min({starting + 1, MaxStarts})
    /\ UNCHANGED <<dbVars, queue, batch, events, retrying, event, memory, server, history>>

\* both processes crash; the job-runner starts again before the server does
Crash ==
    /\ server.realtime = NoBlock
    /\ Fail("crash")
    /\ CanReset(status.processed)
    /\ resetWatcherToBlock(status.processed, status.processed)
    /\ queue' = <<>> /\ batch' = NoJob
    /\ events' = <<>> /\ retrying' = NoJob /\ event' = NoJob
    /\ memory' = [completedUpto |-> 0, lastEnd |-> 0, hasError |-> FALSE, blocks |-> {}]
    /\ starting' = 1
    /\ server' = [end |-> 0, realtime |-> NoBlock]
    /\ finished' = {}
    /\ UNCHANGED <<creation, overlapped, dropped>>

-------------------------------------------------------------------------------
Historical == StartHistorical \/ Restart \/ SaveBlocks \/ FetchFails \/ PushEvents
                  \/ UpdateStatus \/ FinishBatch
Events == StartEvents \/ ProcessEvents \/ ContractCreated \/ EventsDone
Server == startBlockProcessing \/ historicalProcessingCompleteHandler
              \/ eventProcessingCompleteHandler

Next == Historical \/ Events \/ EventsFail \/ Server \/ Crash

Spec == Init /\ [][Next]_vars

\* the workers and the server keep on running
Fairness ==
    /\ WF_vars(Historical)
    /\ WF_vars(Events)
    /\ WF_vars(startBlockProcessing)
    /\ WF_vars(historicalProcessingCompleteHandler)
    /\ WF_vars(eventProcessingCompleteHandler)

FairSpec == Spec /\ Fairness

(***************************************************************************)
(* Properties.  Two behaviours of the code lose blocks whatever else holds; *)
(* the properties are about histories without them (the README tells them): *)
(* an events job that creates a contract or fails while a historical job is *)
(* in progress, and a restart that is dropped.                              *)
(***************************************************************************)
Types ==
    /\ creation \in Creations
    /\ rows \in [Height -> SUBSET Contract]
    /\ complete \subseteq {b \in Height : Saved(b)}
    /\ applied \in [Height -> [Contract -> Nat]]
    /\ status \in [head : Height, processed : Height]
    /\ "factory" \in watched /\ watched \subseteq Contract
    /\ queue \in Seq(HistoryJob)
    /\ batch \in {NoJob} \cup Batch
    /\ events \in Seq(Block)
    /\ retrying \in {NoJob} \cup Block
    /\ event \in {NoJob} \cup EventJob
    /\ memory \in Memory

ServerTypes == server \in [end : Height, realtime : {NoBlock} \cup 1..(Tip + 1)]

\* Types; the processed block of the sync status is one the watcher can be reset to
\* (the assertions of resetWatcherToBlock).
TypeOK == Types /\ ServerTypes /\ CanReset(status.processed)

\* The events of a block are in the entities at most once, through retries of events
\* jobs, restarts of the history and crashes (clearProcessedBlockData,
\* resetWatcherToBlock).
AppliedOnce == \A b \in Height : \A c \in Contract : applied[b][c] <= 1

Done(b) == \A c \in Emits(b) : applied[b][c] = 1
Regular == ~overlapped /\ ~dropped

\* No block below the latest processed one is skipped: the logs of all contracts, those
\* of a contract created on the way too, are in the entities (the restart of
\* _processEvents and processHistoricalBlocks).
NothingSkipped == Regular => \A b \in 1..status.processed : Done(b)

\* Block by block processing starts where the history ends: no block between them is
\* left out or still in progress (startBlockProcessing).
Handover ==
    Regular /\ server.realtime # NoBlock =>
        /\ \A b \in 1..(server.realtime - 1) : Done(b)
        /\ event = NoJob /\ batch = NoJob

\* The history is complete, up to the latest processed block, from which it can be
\* started again, and at its end, where block by block processing takes over.
HistoryComplete == TypeOK /\ NothingSkipped /\ Handover

\* The history comes to its end: through fetches and events that are retried, restarts
\* and a crash there is always a job or a call that goes on.
HistoryEnds == []Regular => <>(server.realtime # NoBlock)

\* What job-runner.ts:223 says of a start below the end of the last range, "for a
\* previous block which happens incase of template create", and does by the restart:
\* whatever block creates the contract, the history goes on after it and ends.
TemplateRestarts == []~overlapped => <>(server.realtime # NoBlock)
===============================================================================
