------------------------------ MODULE StateSync ------------------------------
(***************************************************************************)
(* The IPLD states of a watcher: for a contract an initial state, one diff  *)
(* per block that changes it, and checkpoints that merge the diffs since    *)
(* the previous one.                                                        *)
(*                                                                          *)
(* The events of a block leave a staged diff.  Hooks jobs, pushed as the    *)
(* canonical block moves up, finalize the staged diffs of one canonical     *)
(* block after the other; each pushes a checkpoint job.  The handler of a   *)
(* checkpoint job does not wait for processCheckpoint: the calls overlap,   *)
(* and one that is rejected ends the job-runner, as an unhandled rejection  *)
(* ends the process.  The checkpoint and export commands make checkpoints   *)
(* from processes of their own at any time.                                 *)
(*                                                                          *)
(* Of the sync loop of RealtimeSync this module keeps one block in flight   *)
(* and reorgs of at most MaxReorgDepth heights; there are no null rounds.   *)
(***************************************************************************)
EXTENDS BlockTree, SequencesExt

CONSTANTS
    MaxReorgDepth,      \* MAX_REORG_DEPTH
    CheckpointInterval, \* checkpointInterval
    Contract,           \* watched contracts with checkpointing on
    StartingBlock,      \* their startingBlock
    FirstContract,      \* the first of _watchedContractsByAddressMap
    Updates,            \* Updates[b], the contracts the events of b change
    NoState,            \* no row of the state table
    NoJob,
    Caller,             \* calls of createCheckpoint that may run at a time
    Command,            \* those of them that are commands
    MaxFaults           \* bound on crashes, failing steps and commands

ASSUME StateSyncAssumption ==
    /\ MaxReorgDepth \in Nat \ {0}
    /\ CheckpointInterval \in Nat \ {0}
    /\ StartingBlock \in [Contract -> Nat]
    /\ FirstContract \in Contract
    /\ Updates \in [Block -> SUBSET Contract]
    /\ Command \subseteq Caller
    /\ MaxFaults \in Nat
    /\ NoJob \notin Block /\ \A S \in SUBSET Block : S # NoState

VARIABLES
    saved,          \* rows of the block_progress table
    complete,       \* those with is_complete
    pruned,         \* those with is_pruned
    canonical,      \* latestCanonicalBlockHash of the sync status
    current,        \* the block being processed
    states,         \* the state table: the data at <<block, contract, kind>>
    indexed,        \* latestIndexedBlockNumber of the state sync status, or -1
    firstIndexed,   \* history: the height of the first hooks job that is done
    checkpointed,   \* its latestCheckpointBlockNumber
    status,         \* _stateStatusMap of the job-runner
    hooks,          \* jobs of QUEUE_HOOKS
    failed,         \* those that failed and are run again after a delay
    hooking,        \* the hooks job being run
    checkpoints,    \* jobs of QUEUE_BLOCK_CHECKPOINT, in order
    calls,          \* the calls of createCheckpoint in progress
    faults          \* number of faults and commands so far

blockVars == <<saved, complete, pruned, canonical, current>>
syncVars == <<indexed, firstIndexed, checkpointed>>
jobVars == <<hooks, failed, hooking, checkpoints>>
vars == <<blockVars, states, syncVars, status, jobVars, calls, faults>>

-------------------------------------------------------------------------------
Kind == {"init", "diff_staged", "diff", "checkpoint"}

Data == SUBSET Block

Key == Block \X Contract \X Kind

Idle == [block |-> NoJob, pc |-> "idle", todo |-> {}]

HooksJob == [block : Block \cup {NoJob}, pc : {"idle", "diffs", "status", "push"},
             todo : SUBSET Contract]

Call == [block : Block \cup {NoJob}, pc : {"idle", "merge", "save"},
         todo : SUBSET Contract, contract : Contract, data : Data, found : BOOLEAN]

NoCall == [block |-> NoJob, pc |-> "idle", todo |-> {}, contract |-> FirstContract,
           data |-> {}, found |-> FALSE]

HasStatus == indexed >= 0

Exists(b, c, k) == states[<<b, c, k>>] # NoState

\* no block number for getLatestState, which takes 0 for none as well
AnyHeight == 0

\* the unpruned blocks whose states getLatestState orders first
LatestState(c, k, n) ==
    Highest({b \in saved \ pruned : Exists(b, c, k) /\ (n # AnyHeight => Number[b] <= n)})

HeightOf(S) == IF S = {} THEN 0 ELSE Number[CHOOSE b \in S : TRUE]

\* fetchStateStatus
StoredStatus(rows, unpruned) ==
    [c \in Contract |-> [k \in Kind |->
        HeightOf(Highest({b \in unpruned : rows[<<b, c, k>>] # NoState}))]]

\* prepareStateEntry and saveOrUpdateState: data is merged into the row of the
\* block if the status map names its height, and inserted otherwise
SaveState(rows, known, b, c, k, data) ==
    IF known /\ rows[<<b, c, k>>] # NoState
    THEN [rows EXCEPT ![<<b, c, k>>] = @ \cup data]
    ELSE [rows EXCEPT ![<<b, c, k>>] = data]

\* the insertion of a second row violates the unique index of the table
CanSave(b, c, k) == Exists(b, c, k) => status[c][k] = Number[b]

Started(b) == {c \in Contract : StartingBlock[c] <= Number[b]}

Faulty == faults < MaxFaults /\ faults' = faults + 1

-------------------------------------------------------------------------------
(* Processing of blocks, and pruning.                                        *)

\* no reorg replaces more than MaxReorgDepth heights, of the rows that a crash has
\* removed neither: the canonical block was that deep below one of them
WithinReorgDepth(b) ==
    /\ canonical \in Ancestors[b]
    /\ \A t \in Highest(saved) :
          {a \in Ancestors[t] : Number[a] <= Number[t] - MaxReorgDepth}
              \subseteq Ancestors[b]

\* no 'init', 'diff' or 'checkpoint' state exists
NeedsInit(c) == \A k \in {"init", "diff", "checkpoint"} : status[c][k] = 0

\* processBlock: createInit for the contracts that have started
IndexBlock(b) ==
    LET new == {c \in Started(b) : NeedsInit(c)} IN
    /\ current = NoBlock
    /\ b \notin saved
    /\ b # Root => Parent[b] \in complete /\ Number[b] > Number[canonical]
    /\ WithinReorgDepth(b)
    /\ \A t \in saved : Number[t] - Number[canonical] <= MaxReorgDepth
    /\ saved' = saved \cup {b}
    /\ current' = b
    /\ states' = [e \in Key |-> IF e[1] = b /\ e[2] \in new /\ e[3] = "init"
                                THEN {} ELSE states[e]]
    /\ status' = [c \in Contract |-> IF c \in new
                                     THEN [status[c] EXCEPT !["init"] = Number[b]]
                                     ELSE status[c]]
    /\ UNCHANGED <<complete, pruned, canonical, syncVars, jobVars, calls, faults>>

\* the contracts whose entities the block has updated
Dumped == Updates[current] \cap Started(current)

\* dumpSubgraphState after the handlers, through createDiffStaged
DumpDiffs ==
    /\ current # NoBlock
    /\ \A c \in Dumped : CanSave(current, c, "diff_staged")
    /\ states' = [e \in Key |-> IF e[1] = current /\ e[2] \in Dumped /\ e[3] = "diff_staged"
                                THEN {current} ELSE states[e]]
    /\ status' = [c \in Contract |->
                     IF c \in Dumped
                     THEN [status[c] EXCEPT !["diff_staged"] = Number[current]]
                     ELSE status[c]]

CompleteBlock ==
    /\ DumpDiffs
    /\ complete' = complete \cup {current}
    /\ current' = NoBlock
    /\ UNCHANGED <<saved, pruned, canonical, syncVars, jobVars, calls, faults>>

\* a step after dumpSubgraphState throws, and the events are processed again
EventsFail ==
    /\ DumpDiffs
    /\ Faulty
    /\ UNCHANGED <<blockVars, syncVars, jobVars, calls>>

\* _pruneChain, and the hooks job for the parent of the canonical block
PruneBlock ==
    LET n  == Number[canonical] + 1
        at == AtHeight(saved \ pruned, n)
    IN
    /\ \E h \in saved : Number[h] = n + MaxReorgDepth
    /\ \E b \in at \cap UNION {Ancestors[h] : h \in Highest(saved)} :
          /\ pruned' = pruned \cup (at \ {b})
          /\ canonical' = b
          /\ hooks' = hooks \cup {Parent[b]}
    /\ UNCHANGED <<saved, complete, current, states, syncVars, status, failed, hooking,
                   checkpoints, calls, faults>>

-------------------------------------------------------------------------------
(* Hooks jobs.                                                               *)

IndexedUpTo(n) == HasStatus /\ indexed >= n

\* mutant: the parent need not be indexed
AnyParent(b) == TRUE

ParentIndexed(b) == HasStatus => indexed >= Number[b] - 1

\* mutant: the job for the parent is not created
OnlyAbort(b) == UNCHANGED hooks

\* the job fails, and one for the parent is created
AbortHooks(b) == hooks' = hooks \cup {Parent[b]}

\* the jobs that may be run: new ones in order, failed ones at some time later
NextHooks == Lowest(hooks \ failed) \cup failed

\* mutant: the job stays among the failed ones
OnlyTaken(b) == hooks' = hooks \ {b} /\ UNCHANGED failed

RemoveHooks(b) == hooks' = hooks \ {b} /\ failed' = failed \ {b}

\* processHooks compares the block with the state sync status
TakeHooks(b) ==
    /\ b \in NextHooks
    /\ hooking = Idle
    /\ \/ /\ ~ParentIndexed(b)
          /\ AbortHooks(b)
          /\ failed' = failed \cup {b}
          /\ UNCHANGED hooking
       \/ /\ IndexedUpTo(Number[b])
          /\ RemoveHooks(b)
          /\ UNCHANGED hooking
       \/ /\ ParentIndexed(b) /\ ~IndexedUpTo(Number[b])
          /\ hooking' = [block |-> b, pc |-> "diffs",
                         todo |-> {c \in Contract : Exists(b, c, "diff_staged")}]
          /\ UNCHANGED <<hooks, failed>>
    /\ UNCHANGED <<blockVars, states, syncVars, status, checkpoints, calls, faults>>

\* the assertions of createDiff
CanDiff(b, c) ==
    /\ status[c]["checkpoint"] = 0 => status[c]["init"] # 0
    /\ status[c]["checkpoint"] = Number[b] => ~Exists(b, c, "checkpoint")
    /\ CanSave(b, c, "diff")

\* finalizeDiffStaged: createDiff from one of the staged diffs
CreateDiff(c) ==
    LET b == hooking.block IN
    /\ hooking.pc = "diffs"
    /\ c \in hooking.todo
    /\ CanDiff(b, c)
    /\ states' = SaveState(states, status[c]["diff"] = Number[b], b, c, "diff",
                           states[<<b, c, "diff_staged">>])
    /\ status' = [status EXCEPT ![c]["diff"] = Number[b]]
    /\ hooking' = [hooking EXCEPT !.todo = @ \ {c}]
    /\ UNCHANGED <<blockVars, syncVars, hooks, failed, checkpoints, calls, faults>>

\* mutant: the staged diffs of the block only
RemoveOwn(e, b) == e[1] = b /\ e[3] = "diff_staged"

\* the staged diffs at the height, those of pruned blocks too
Removed(e, b) == Number[e[1]] = Number[b] /\ e[3] = "diff_staged"

RemoveStaged ==
    /\ hooking.pc = "diffs"
    /\ hooking.todo = {}
    /\ states' = [e \in Key |-> IF Removed(e, hooking.block) THEN NoState ELSE states[e]]
    /\ hooking' = [hooking EXCEPT !.pc = "status"]
    /\ UNCHANGED <<blockVars, syncVars, status, hooks, failed, checkpoints, calls, faults>>

\* updateStateSyncStatusIndexedBlock
UpdateIndexed ==
    /\ hooking.pc = "status"
    /\ indexed' = Max({indexed, Number[hooking.block]})
    /\ firstIndexed' = IF HasStatus THEN firstIndexed ELSE Number[hooking.block]
    /\ hooking' = [hooking EXCEPT !.pc = "push"]
    /\ UNCHANGED <<blockVars, states, checkpointed, status, hooks, failed, checkpoints,
                   calls, faults>>

FinishHooks ==
    /\ hooking.pc = "push"
    /\ checkpoints' = Append(checkpoints, hooking.block)
    /\ RemoveHooks(hooking.block)
    /\ hooking' = Idle
    /\ UNCHANGED <<blockVars, states, syncVars, status, calls, faults>>

\* createDiff fails for a staged diff of the block
Throws == hooking.pc = "diffs" /\ \E c \in hooking.todo : ~CanDiff(hooking.block, c)

\* a step of the hooks job throws, that one or any other, and the job is retried
HooksFail ==
    /\ hooking # Idle
    /\ Throws \/ faults < MaxFaults
    /\ faults' = IF Throws THEN faults ELSE faults + 1
    /\ failed' = failed \cup {hooking.block}
    /\ hooking' = Idle
    /\ UNCHANGED <<blockVars, states, syncVars, status, hooks, checkpoints, calls>>

-------------------------------------------------------------------------------
(* Checkpoints.                                                              *)

\* the steps of the job-runner after its end: deleteAllJobs,
\* resetToLatestProcessedBlock and fetchStateStatus
Restart ==
    /\ saved' = complete
    /\ current' = NoBlock
    /\ states' = [e \in Key |-> IF e[1] \in complete THEN states[e] ELSE NoState]
    /\ status' = StoredStatus(states', complete \ pruned)
    /\ hooks' = {} /\ failed' = {}
    /\ hooking' = Idle
    /\ checkpoints' = <<>>
    /\ calls' = [i \in Caller |-> IF i \in Command THEN calls[i] ELSE NoCall]
    /\ UNCHANGED <<complete, pruned, canonical, syncVars>>

Crash ==
    /\ complete # {}
    /\ Faulty
    /\ Restart

\* whether processCheckpoint goes on with block b
CheckpointNext(b) == checkpointed >= 0 => checkpointed = Number[b] - 1

CheckpointMissing(b) == checkpointed >= 0 /\ checkpointed < Number[b] - 1

\* the contracts it makes checkpoints of: those at the first watched address, once
\* they have started
Due(b) ==
    {c \in {FirstContract} \cap Started(b) :
         Number[b] % CheckpointInterval = 0 \/ status[c]["init"] = Number[b]}

\* the handler of a job: processCheckpoint is called, and not awaited
TakeCheckpoint(i) ==
    LET b == Head(checkpoints) IN
    /\ checkpoints # <<>>
    /\ i \in Caller \ Command
    /\ calls[i] = NoCall
    /\ \/ /\ CheckpointMissing(b)
          /\ Restart
          /\ UNCHANGED faults
       \/ /\ ~CheckpointMissing(b)
          /\ checkpoints' = Tail(checkpoints)
          /\ calls' = IF CheckpointNext(b)
                      THEN [calls EXCEPT ![i] = [NoCall EXCEPT !.block = b, !.pc = "merge",
                                                               !.todo = Due(b)]]
                      ELSE calls
          /\ UNCHANGED <<blockVars, states, syncVars, status, hooks, failed, hooking, faults>>

\* the checkpoint and export commands, for a contract at a block whose state is
\* indexed
StartCommand(i, b, c) ==
    /\ i \in Command
    /\ calls[i] = NoCall
    /\ Faulty
    /\ b \in complete \ pruned
    /\ HasStatus /\ Number[b] <= indexed
    /\ c \in Started(b)
    /\ calls' = [calls EXCEPT ![i] = [NoCall EXCEPT !.block = b, !.pc = "merge", !.todo = {c}]]
    /\ UNCHANGED <<blockVars, states, syncVars, status, jobVars>>

\* the diffs of c at the heights from..to of blocks that are not pruned
DiffsInRange(c, from, to) ==
    UNION {states[<<a, c, "diff">>] :
              a \in {a \in saved \ pruned : Exists(a, c, "diff")
                                              /\ from < Number[a] /\ Number[a] <= to}}

\* mutant: the diffs since the initial state, but for the first block
DiffsAfterInit(c, b) ==
    LET a == CHOOSE a \in LatestState(c, "init", AnyHeight) : TRUE IN
    states[<<a, c, "init">>] \cup DiffsInRange(c, Number[a], Number[b])

\* the previous checkpoint or the initial state, with the diffs since
Merged(c, b) ==
    LET before == LatestState(c, "checkpoint", Number[b] - 1)
        base   == IF before # {} THEN before ELSE LatestState(c, "init", AnyHeight)
        a      == CHOOSE a \in base : TRUE
    IN  IF before # {}
        THEN states[<<a, c, "checkpoint">>] \cup DiffsInRange(c, Number[a], Number[b])
        ELSE states[<<a, c, "init">>] \cup DiffsInRange(c, Number[a] - 1, Number[b])

\* createCheckpoint asserts that there is an initial state
HasBase(c, b) ==
    \/ LatestState(c, "checkpoint", Number[b] - 1) # {}
    \/ LatestState(c, "init", AnyHeight) # {}

\* the job-runner's status map gets the height of a checkpoint
NoteCheckpoint(i, c, n) ==
    status' = IF i \in Command THEN status
              ELSE [status EXCEPT ![c]["checkpoint"] = n]

\* createCheckpoint reads the diffs and the checkpoint that the block may have
MergeDiffs(i, c) ==
    LET b      == calls[i].block
        before == LatestState(c, "checkpoint", Number[b] - 1)
    IN
    /\ calls[i].pc = "merge"
    /\ c \in calls[i].todo
    /\ HasBase(c, b)
    /\ calls' = [calls EXCEPT ![i] =
                    [calls[i] EXCEPT !.pc = "save", !.contract = c, !.data = Merged(c, b),
                                     !.found = Exists(b, c, "checkpoint"), !.todo = @ \ {c}]]
    /\ IF before # {} THEN NoteCheckpoint(i, c, HeightOf(before)) ELSE UNCHANGED status
    /\ UNCHANGED <<blockVars, states, syncVars, jobVars, faults>>

\* and saves its own
SaveCheckpoint(i) ==
    LET b == calls[i].block
        c == calls[i].contract
    IN
    /\ calls[i].pc = "save"
    /\ calls[i].found \/ ~Exists(b, c, "checkpoint")
    /\ states' = [states EXCEPT ![<<b, c, "checkpoint">>] =
                     IF calls[i].found THEN @ \cup calls[i].data ELSE calls[i].data]
    /\ NoteCheckpoint(i, c, Number[b])
    /\ calls' = [calls EXCEPT ![i].pc = "merge"]
    /\ UNCHANGED <<blockVars, syncVars, jobVars, faults>>

\* updateStateSyncStatusCheckpointBlock
FinishCheckpoint(i) ==
    /\ calls[i].pc = "merge"
    /\ calls[i].todo = {}
    /\ checkpointed' = IF i \in Command THEN checkpointed
                       ELSE Max({checkpointed, Number[calls[i].block]})
    /\ calls' = [calls EXCEPT ![i] = NoCall]
    /\ UNCHANGED <<blockVars, states, indexed, firstIndexed, status, jobVars, faults>>

\* an assertion fails, or the row has been inserted by another call meanwhile
CheckpointThrows(i) ==
    LET b == calls[i].block IN
    /\ \/ calls[i].pc = "merge" /\ \E c \in calls[i].todo : ~HasBase(c, b)
       \/ calls[i].pc = "save" /\ ~calls[i].found /\ Exists(b, calls[i].contract, "checkpoint")
    /\ IF i \in Command
       THEN /\ calls' = [calls EXCEPT ![i] = NoCall]
            /\ UNCHANGED <<blockVars, states, syncVars, status, jobVars>>
       ELSE Restart
    /\ UNCHANGED faults

-------------------------------------------------------------------------------
\* the updates of c up to b
History(c, b) == {a \in Ancestors[b] : c \in Updates[a] /\ c \in Started(a)}

\* a watcher that starts without any state
NewWatcher ==
    /\ saved = {} /\ complete = {}
    /\ states = [e \in Key |-> NoState]
    /\ indexed = -1 /\ firstIndexed = -1 /\ checkpointed = -1
    /\ status = [c \in Contract |-> [k \in Kind |-> 0]]

\* import-state has filled the first block, and saved a checkpoint of each
\* contract of the export
ImportedWatcher ==
    /\ saved = {Root} /\ complete = {Root}
    /\ states = [e \in Key |-> IF e[1] = Root /\ e[2] \in Started(Root) /\ e[3] = "checkpoint"
                               THEN History(e[2], Root) ELSE NoState]
    /\ indexed = Number[Root] /\ firstIndexed = indexed + 1 /\ checkpointed = indexed
    /\ status = StoredStatus(states, {Root})

Init ==
    /\ NewWatcher \/ ImportedWatcher
    /\ pruned = {}
    /\ canonical = Root
    /\ current = NoBlock
    /\ hooks = {} /\ failed = {} /\ hooking = Idle
    /\ checkpoints = <<>>
    /\ calls = [i \in Caller |-> NoCall]
    /\ faults = 0

HooksWorker ==
    \/ \E c \in Contract : CreateDiff(c)
    \/ RemoveStaged
    \/ UpdateIndexed
    \/ FinishHooks

CallStep(i) ==
    \/ \E c \in Contract : MergeDiffs(i, c)
    \/ SaveCheckpoint(i)
    \/ FinishCheckpoint(i)
    \/ CheckpointThrows(i)

Next ==
    \/ \E b \in Block : IndexBlock(b)
    \/ CompleteBlock
    \/ PruneBlock
    \/ \E b \in Block : TakeHooks(b)
    \/ HooksWorker
    \/ \E i \in Caller : TakeCheckpoint(i)
    \/ \E i \in Command, b \in Block, c \in Contract : StartCommand(i, b, c)
    \/ \E i \in Caller : CallStep(i)
    \/ EventsFail
    \/ HooksFail
    \/ Crash

Spec == Init /\ [][Next]_vars

\* the workers of the job queues and the calls go on; nothing makes the chain
\* grow or a command start
Fairness ==
    /\ \A b \in Block : WF_vars(TakeHooks(b))
    /\ WF_vars(HooksWorker)
    /\ WF_vars(Throws /\ HooksFail)
    /\ \A i \in Caller : WF_vars(TakeCheckpoint(i)) /\ WF_vars(CallStep(i))

FairSpec == Spec /\ Fairness

-------------------------------------------------------------------------------
\* Types; states belong to blocks of the table, jobs to blocks whose events are
\* done, and the canonical block is never a pruned one.
TypeOK ==
    /\ complete \subseteq saved
    /\ saved \subseteq Block
    /\ pruned \subseteq complete
    /\ canonical \in Block \ pruned
    /\ current \in (saved \ complete) \cup {NoBlock}
    /\ states \in [Key -> Data \cup {NoState}]
    /\ \A e \in Key : states[e] # NoState => e[1] \in saved
    /\ {indexed, firstIndexed} \subseteq Nat \cup {-1}
    /\ checkpointed \in Nat \cup {-1}
    /\ status \in [Contract -> [Kind -> Nat]]
    /\ failed \subseteq hooks /\ hooks \subseteq complete
    /\ hooking \in HooksJob /\ (hooking = Idle \/ hooking.block \in complete)
    /\ checkpoints \in Seq(complete)
    /\ calls \in [Caller -> Call]
    /\ \A i \in Caller : calls[i] = NoCall \/ calls[i].block \in complete
    /\ faults \in 0..MaxFaults

\* Without a state sync status a hooks job is not held back: one that overtakes
\* the job of the first block, or follows its loss, makes the indexed heights
\* start at its own.
Indexed(b) == Number[b] \in firstIndexed..indexed

\* At the indexed heights every block of the canonical branch has the diff of each
\* contract it updates, once; of the other blocks only those that hooks jobs are for,
\* below the canonical one, may have any.
DiffsFollowCanonical ==
    HasStatus => \A b \in saved, c \in Contract :
        IF b \in Ancestors[canonical] /\ Indexed(b)
        THEN states[<<b, c, "diff">>] = IF b \in History(c, b) THEN {b} ELSE NoState
        ELSE Exists(b, c, "diff") => b \in Ancestors[canonical] \ {canonical}

\* At the indexed heights no staged diff is left, of any branch.
StagedRemoved ==
    HasStatus => \A b \in saved, c \in Contract : Indexed(b) => ~Exists(b, c, "diff_staged")

\* The indexed heights are settled: the diffs there are those of the canonical branch
\* and nothing staged is left, however hooks jobs overtake each other, fail or are lost.
IndexedIsSettled == TypeOK /\ DiffsFollowCanonical /\ StagedRemoved

\* no height was left out below the indexed ones: they start at the first block, or
\* above it if it was imported
FromTheStart ==
    /\ firstIndexed <= Number[Root] + 1
    /\ (\E c \in Contract : Exists(Root, c, "init")) => firstIndexed = Number[Root]

\* A checkpoint holds all updates of the contract up to its block, those of the
\* block of the initial state too, whichever calls and commands made it, and
\* whatever was lost on the way.
CheckpointsMergeDiffs ==
    FromTheStart => \A b \in saved, c \in Contract :
        Exists(b, c, "checkpoint") => states[<<b, c, "checkpoint">>] = History(c, b)

\* A hooks job is not blocked for ever by states that are not indexed: its block
\* is indexed in the end, unless a restart removes the jobs.
HooksCatchUp ==
    \A b \in Block : b \in hooks ~> IndexedUpTo(Number[b]) \/ hooks = {}

\* Each block whose state is indexed has its checkpoints processed in the end.
CheckpointsCatchUp ==
    \A n \in Heights(Block) : indexed = n ~> checkpointed >= n

===============================================================================
