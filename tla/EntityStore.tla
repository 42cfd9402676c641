----------------------------- MODULE EntityStore -----------------------------
(***************************************************************************)
(* The entities of a subgraph watcher.  A mapping handler reads an entity   *)
(* with store.get and writes its next version with store.set: each version  *)
(* is a row of the entity table, keyed by the id and the hash of its block. *)
(* A read looks for the version of the block's own branch in the cache of   *)
(* the frothy region and in the database, while pruning marks the versions  *)
(* of other branches, hooks move cached versions out of the frothy region,  *)
(* and failures remove the versions of a block or of every block above one. *)
(*                                                                          *)
(* Of the sync loop of RealtimeSync this module keeps what the entities can *)
(* tell: over an RPC endpoint one block at a time is indexed and processed, *)
(* a reorg replaces at most MaxReorgDepth heights, and prune and hooks jobs *)
(* run at any time.  The upstream chain has no null rounds.                 *)
(***************************************************************************)
EXTENDS BlockTree, SequencesExt

CONSTANTS
    MaxReorgDepth,  \* MAX_REORG_DEPTH
    ClearInterval,  \* clearEntitiesCacheInterval
    Entity,         \* ids of the entities of a type
    Operations,     \* Operations[b], the store calls of the handlers of b
    NoVersion,      \* no row, or no entry of a cache
    FaultKinds,     \* what may happen: failing handlers, steps after them and
                    \* prune jobs, a crash, and a reorg back to a branch that
                    \* has been processed before
    MaxFaults       \* bound on how many of these happen

Operation == [op : {"set", "remove"}, id : Entity]

ASSUME EntityStoreAssumption ==
    /\ MaxReorgDepth \in Nat \ {0}
    /\ ClearInterval \in Nat \ {0}
    /\ Operations \in [Block -> Seq(Operation)]
    /\ FaultKinds \subseteq {"handler", "status", "prune", "crash", "back"}
    /\ MaxFaults \in Nat

VARIABLES
    saved,          \* rows of the block_progress table
    complete,       \* those with is_complete
    pruned,         \* those with is_pruned
    canonical,      \* latestCanonicalBlockHash of the sync status
    processed,      \* latestProcessedBlockHash of the sync status
    next,           \* the height that is fetched from the upstream next
    versions,       \* the entity table: the value at <<id, block>>
    prunedRows,     \* its rows with is_pruned
    frothy,         \* the frothy_entity table
    latest,         \* the latest-entity table: block and value of an id
    frothyBlocks,   \* cachedEntities.frothyBlocks: the entities of a block
    latestPruned,   \* cachedEntities.latestPrunedEntities
    hooked,         \* the last block whose hooks have run
    events,         \* the events job being run
    pruning,        \* the prune job being run
    faults          \* the kinds of faults so far

blockVars == <<saved, complete, pruned, canonical, processed, next>>
tableVars == <<versions, prunedRows, frothy, latest>>
cacheVars == <<frothyBlocks, latestPruned>>
vars == <<blockVars, tableVars, cacheVars, hooked, events, pruning, faults>>

-------------------------------------------------------------------------------
(* A value is the history of the entity: the blocks that have updated it     *)
(* since it was created, <<>> once it is removed (isRemoved).                *)

Value == Seq(Block)

\* a row of the latest-entity table
Entry == [block : Block, value : Value]

\* it is not the entities of a block in the cache either
ASSUME NoVersionAssumption ==
    NoVersion \notin Value \cup Entry \cup [Entity -> Value \cup {NoVersion}]

NoEvents == [stage |-> "idle", block |-> NoBlock, pc |-> 1, retry |-> FALSE,
             got |-> NoVersion, fill |-> FALSE]

NoPruning == [stage |-> "idle", keep |-> NoBlock, drop |-> {}]

\* the value store.get gives a handler: null for a removed entity
AsRead(v) == IF v = NoVersion THEN <<>> ELSE v

Unpruned == {r \in Entity \X Block :
                versions[r] # NoVersion /\ r \notin prunedRows}

MaxNumber(S) == Max(Heights(S) \cup {0})
MinNumber(S) == Min(Heights(S))

-------------------------------------------------------------------------------
(* Queries of the database.                                                  *)

\* the rows of b and its ancestors that the hierarchical queries reach, at
\* most MAX_REORG_DEPTH of them (getFrothyEntity, getFrothyRegion)
FrothyRegion(b) ==
    {a \in Ancestors[b] :
        /\ \A c \in Ancestors[b] : Number[a] <= Number[c] => c \in saved
        /\ Cardinality({c \in Ancestors[b] : Number[c] > Number[a]})
               < MaxReorgDepth}

\* the rows with the largest number up to n of those given
LatestOf(rows, x, n) == Highest({b \in Block : <<x, b>> \in rows /\ Number[b] <= n})

\* getLatestPrunedEntity
LatestPrunedEntity(x, n) == LatestOf(Unpruned, x, n)

\* mutant: the row with the largest number, of any branch
PrevByNumber(x, b) == LatestPrunedEntity(x, Number[b])

\* the blocks whose version of x getPrevEntityVersion may return for b: the
\* nearest of the frothy region, or else the latest below it
PrevEntityVersion(x, b) ==
    LET region == FrothyRegion(b)
        near   == Highest({a \in region : versions[<<x, a>>] # NoVersion})
    IN  IF near # {} THEN near
        ELSE LatestPrunedEntity(x, MinNumber(region) + 1)

\* the rows that applyBlockHeightFilter leaves for a block hash
VisibleAt(b) ==
    LET region == FrothyRegion(b) IN
    {r \in Unpruned : r[2] \in region \/ Number[r[2]] <= MinNumber(region) + 1}

\* mutant: the frothy region is left out
VisibleBelow(n) == {r \in Unpruned : Number[r[2]] < n}

\* and for a block number
VisibleUpTo(n) == {r \in Unpruned : Number[r[2]] <= n}

VersionsIn(rows, x) == {r[2] : r \in {q \in rows : q[1] = x}}

\* mutant: the first of the rows
FirstOfAll(rows, x) ==
    {b \in VersionsIn(rows, x) : \A c \in VersionsIn(rows, x) : Number[b] <= Number[c]}

\* getEntitiesDistinctOn: one of the last of the rows
DistinctOn(rows, x) == Highest(VersionsIn(rows, x))

\* getEntitiesGroupBy: the join on the largest number returns every row that
\* is not pruned
GroupBy(rows, x) ==
    {b \in VersionsIn(Unpruned, x) : \E c \in DistinctOn(rows, x) : Number[b] = Number[c]}

\* getEntitiesLateral: the same for the ids of the latest-entity table
Lateral(rows, x) == IF latest[x] = NoVersion THEN {} ELSE DistinctOn(rows, x)

-------------------------------------------------------------------------------
(* The cache of getModelEntity.                                              *)

\* the blocks the walk over frothyBlocks visits from b
CachedBranch(b) ==
    {a \in Ancestors[b] : \A c \in Ancestors[b] :
        Number[a] <= Number[c] => frothyBlocks[c] # NoVersion}

\* the cache is used once latestPrunedEntities holds an entity
CacheUsed(b) ==
    /\ \E x \in Entity : latestPruned[x] # NoVersion
    /\ CachedBranch(b) # {}

\* the cached value of x for b, NoVersion if the database has to be queried
CacheHit(x, b) ==
    LET near == Highest({a \in CachedBranch(b) : frothyBlocks[a][x] # NoVersion})
    IN  IF ~CacheUsed(b) THEN NoVersion
        ELSE IF near # {} THEN frothyBlocks[CHOOSE a \in near : TRUE][x]
        ELSE latestPruned[x]

\* the values the query of the database may find then
QueryResults(x, b) ==
    LET found == IF CacheUsed(b)
                 THEN LatestPrunedEntity(x, MinNumber(CachedBranch(b)) + 1)
                 ELSE PrevEntityVersion(x, b)
    IN  IF found = {} THEN {NoVersion}
        ELSE {versions[<<x, a>>] : a \in found}

\* every value getModelEntity may return
EntityAt(x, b) ==
    IF CacheHit(x, b) # NoVersion THEN {CacheHit(x, b)} ELSE QueryResults(x, b)

-------------------------------------------------------------------------------
(* Removal of versions.                                                      *)

\* canonicalizeLatestEntity: the entries of the ids xs are those of height n
CanonicalizeLatest(xs, n) ==
    LET found(x) == LatestOf({r \in Entity \X Block : versions'[r] # NoVersion
                                 /\ r \notin prunedRows'}, x, n)
    IN  \E pick \in [xs -> Block \cup {NoBlock}] :
            /\ \A x \in xs : IF found(x) = {} THEN pick[x] = NoBlock
                                              ELSE pick[x] \in found(x)
            /\ latest' = [x \in Entity |->
                  IF x \notin xs THEN latest[x]
                  ELSE IF pick[x] = NoBlock THEN NoVersion
                  ELSE [block |-> pick[x], value |-> versions'[<<x, pick[x]>>]]]

LatestAbove(n) ==
    {x \in Entity : latest[x] # NoVersion /\ Number[latest[x].block] > n}

\* the versions of the blocks in gone are deleted, and the latest entries above
\* n taken back
DeleteVersions(gone, n) ==
    /\ versions' = [r \in Entity \X Block |->
                       IF r[2] \in gone THEN NoVersion ELSE versions[r]]
    /\ prunedRows' = {r \in prunedRows : r[2] \notin gone}
    /\ frothy' = {r \in frothy : r[2] \notin gone}
    /\ CanonicalizeLatest(LatestAbove(n), n)

Above(n) == {b \in Block : Number[b] > n}

Lower(b, n, to) == IF b # NoBlock /\ Number[b] > n THEN to ELSE b

\* resetWatcherToBlock: its assertions on the blocks of height n
CanResetTo(n) ==
    /\ AtHeight(saved \ pruned, n) # {}
    /\ AtHeight(saved \ pruned, n) \subseteq complete

ResetWatcherToBlock(n) ==
    /\ CanResetTo(n)
    /\ saved' = saved \ Above(n)
    /\ complete' = complete \ Above(n)
    /\ pruned' = pruned \ Above(n)
    /\ \E b \in AtHeight(saved \ pruned, n) :
          /\ canonical' = Lower(canonical, n, b)
          /\ processed' = Lower(processed, n, b)
    /\ DeleteVersions(Above(n), n)

Faulty(kind) ==
    /\ kind \in FaultKinds
    /\ kind \notin faults
    /\ Cardinality(faults) < MaxFaults
    /\ faults' = faults \cup {kind}

-------------------------------------------------------------------------------
(* The block worker: index and prune jobs.                                   *)

\* no reorg replaces more than MaxReorgDepth heights, of the rows that a crash has
\* removed neither: the canonical block was that deep below one of them
WithinReorgDepth(b) ==
    /\ canonical \in Ancestors[b]
    /\ \A t \in Highest(saved) :
          {a \in Ancestors[t] : Number[a] <= Number[t] - MaxReorgDepth}
              \subseteq Ancestors[b]

\* updateEntityCacheFrothyBlocks
CacheFrothyBlock(b) ==
    /\ frothyBlocks' = IF frothyBlocks[b] # NoVersion THEN frothyBlocks
                       ELSE [frothyBlocks EXCEPT ![b] = [x \in Entity |-> NoVersion]]
    /\ latestPruned' = IF Number[b] % ClearInterval = 0
                       THEN [x \in Entity |-> NoVersion] ELSE latestPruned

StartEvents(b, isRetry) ==
    events' = [NoEvents EXCEPT !.stage = "load", !.block = b, !.retry = isRetry]

\* a block of the next height is fetched, and pruning has caught up
Fetched(t) ==
    /\ events.stage = "idle"
    /\ Number[t] = next
    /\ WithinReorgDepth(t)
    /\ MaxNumber(saved) - Number[canonical] <= MaxReorgDepth

\* _indexBlock of t, or of the first block of its branch that is missing, with
\* processBlock and the events job it pushes
IndexBlock(t, b) ==
    /\ Fetched(t)
    /\ b \in Ancestors[t] \ complete
    /\ b # Root => Parent[b] \in complete /\ Number[b] > Number[canonical]
    /\ saved' = saved \cup {b}
    /\ CacheFrothyBlock(b)
    /\ StartEvents(b, FALSE)
    /\ UNCHANGED <<complete, pruned, canonical, processed, next, tableVars,
                   hooked, pruning, faults>>

\* t has been processed before: only the events job is pushed
IndexBlockAgain(t) ==
    /\ Fetched(t)
    /\ t \in complete
    /\ Number[t] > Number[canonical]
    /\ Faulty("back")
    /\ StartEvents(t, FALSE)
    /\ UNCHANGED <<blockVars, tableVars, cacheVars, hooked, pruning>>

PruneHeight == Number[canonical] + 1

\* the ancestor at height n of b in the table
StoredAncestor(b, n) == AtHeight(Ancestors[b] \cap saved, n)

\* _pruneChain marks the blocks that are not on the branch of the block at the
\* reorg depth
PruneBlocks ==
    LET at  == AtHeight(saved \ pruned, PruneHeight)
        top == Highest({b \in saved \ pruned :
                          Number[b] <= PruneHeight + MaxReorgDepth})
    IN
    /\ pruning.stage = "idle"
    /\ MaxNumber(saved) >= PruneHeight + MaxReorgDepth
    /\ \E keep \in IF Cardinality(at) = 1 THEN at
                   ELSE UNION {StoredAncestor(t, PruneHeight) : t \in top} :
          /\ pruned' = pruned \cup (at \ {keep})
          /\ pruning' = [stage |-> IF at = {keep} THEN "commit" ELSE "rows",
                         keep |-> keep, drop |-> at \ {keep}]
    /\ UNCHANGED <<saved, complete, canonical, processed, next, tableVars,
                   cacheVars, hooked, events, faults>>

\* mutant: the rows of the block that is kept are marked
MarkKept(ids) ==
    /\ prunedRows' = prunedRows \cup {<<x, pruning.keep>> : x \in ids}
    /\ UNCHANGED <<versions, latest>>

\* mutant: the entries of the latest-entity table are left alone
OnlyMarkRows(ids) ==
    /\ prunedRows' = prunedRows \cup {r \in Unpruned : r[1] \in ids /\ r[2] \in pruning.drop}
    /\ UNCHANGED <<versions, latest>>

\* pruneEntities on the ids that the frothy_entity table has at the height
MarkRows(ids) ==
    /\ prunedRows' = prunedRows \cup {r \in Unpruned : r[1] \in ids
                                                       /\ r[2] \in pruning.drop}
    /\ UNCHANGED versions
    /\ CanonicalizeLatest({x \in Entity : latest[x] # NoVersion
                                          /\ latest[x].block \in pruning.drop},
                          PruneHeight)

\* the second transaction of markBlocksAsPruned
PruneRows ==
    /\ pruning.stage = "rows"
    /\ MarkRows({r[1] : r \in {f \in frothy : Number[f[2]] = PruneHeight}})
    /\ pruning' = [pruning EXCEPT !.stage = "commit"]
    /\ UNCHANGED <<blockVars, frothy, cacheVars, hooked, events, faults>>

\* updateSyncStatusCanonicalBlock, and pruneFrothyEntities
PruneCommit ==
    /\ pruning.stage = "commit"
    /\ canonical' = IF PruneHeight >= Number[canonical] THEN pruning.keep ELSE canonical
    /\ frothy' = {r \in frothy : Number[r[2]] > PruneHeight}
    /\ pruning' = NoPruning
    /\ UNCHANGED <<saved, complete, pruned, processed, next, versions, prunedRows,
                   latest, cacheVars, hooked, events, faults>>

\* mutant: entities of the block are not moved over earlier ones
KeepOlder(c) ==
    /\ latestPruned' =
           IF frothyBlocks[c] = NoVersion THEN latestPruned
           ELSE [x \in Entity |-> IF latestPruned[x] # NoVersion
                                  THEN latestPruned[x] ELSE frothyBlocks[c][x]]
    /\ frothyBlocks' = [b \in Block |-> IF Number[b] <= Number[c] THEN NoVersion
                                        ELSE frothyBlocks[b]]

\* pruneEntityCacheFrothyBlocks
PruneFrothyBlocks(c) ==
    /\ latestPruned' =
           IF frothyBlocks[c] = NoVersion THEN latestPruned
           ELSE [x \in Entity |-> IF frothyBlocks[c][x] = NoVersion
                                  THEN latestPruned[x] ELSE frothyBlocks[c][x]]
    /\ frothyBlocks' = [b \in Block |-> IF Number[b] <= Number[c] THEN NoVersion
                                        ELSE frothyBlocks[b]]

\* processHooks: one after the other, the blocks below the canonical one
RunHooks(c) ==
    /\ c \in Ancestors[canonical] \ {canonical}
    /\ hooked = Parent[c]
    /\ hooked' = c
    /\ PruneFrothyBlocks(c)
    /\ UNCHANGED <<blockVars, tableVars, events, pruning, faults>>

-------------------------------------------------------------------------------
(* The event worker: the store calls of the handlers, one by one.            *)

Operation_ == Operations[events.block][events.pc]

AtOperation(stage) ==
    /\ events.stage = stage
    /\ events.pc <= Len(Operations[events.block])

Loaded(v, fill) ==
    events' = [events EXCEPT !.stage = "save", !.got = v, !.fill = fill]

\* getModelEntity finds the entity in its cache
ReadCache ==
    LET v == CacheHit(Operation_.id, events.block) IN
    /\ AtOperation("load")
    /\ v # NoVersion
    /\ Loaded(v, FALSE)
    /\ UNCHANGED <<blockVars, tableVars, cacheVars, hooked, pruning, faults>>

\* or queries the database; the cache gets the result after the await
ReadDatabase ==
    /\ AtOperation("load")
    /\ CacheHit(Operation_.id, events.block) = NoVersion
    /\ \E v \in QueryResults(Operation_.id, events.block) :
           Loaded(v, CacheUsed(events.block) /\ v # NoVersion)
    /\ UNCHANGED <<blockVars, tableVars, cacheVars, hooked, pruning, faults>>

\* the value the handler saves
Updated(o, b, v) ==
    IF o.op = "remove" THEN <<>>
    ELSE Append(IF v = NoVersion THEN <<>> ELSE v, b)

\* store.remove returns early when there is no entity
NothingToRemove == Operation_.op = "remove" /\ events.got \in {NoVersion, <<>>}

FillCache ==
    latestPruned' = IF events.fill
                    THEN [latestPruned EXCEPT ![Operation_.id] = events.got]
                    ELSE latestPruned

NextOperation == events' = [events EXCEPT !.stage = "load", !.pc = @ + 1,
                                          !.got = NoVersion, !.fill = FALSE]

SkipRemove ==
    /\ AtOperation("save")
    /\ NothingToRemove
    /\ FillCache
    /\ NextOperation
    /\ UNCHANGED <<blockVars, tableVars, frothyBlocks, hooked, pruning, faults>>

\* saveEntity, with afterEntityInsertOrUpdate in its transaction
SaveVersion ==
    LET x == Operation_.id
        b == events.block
        v == Updated(Operation_, b, events.got)
    IN
    /\ AtOperation("save")
    /\ ~NothingToRemove
    /\ FillCache
    /\ versions' = [versions EXCEPT ![<<x, b>>] = v]
    /\ frothy' = frothy \cup {<<x, b>>}
    /\ latest' = [latest EXCEPT ![x] = [block |-> b, value |-> v]]
    /\ events' = [events EXCEPT !.stage = "cache", !.got = v, !.fill = FALSE]
    /\ UNCHANGED <<blockVars, prunedRows, frothyBlocks, hooked, pruning, faults>>

\* cacheUpdatedEntityByName, after the await of saveEntity
CacheVersion ==
    LET x == Operation_.id
        b == events.block
    IN
    /\ AtOperation("cache")
    /\ frothyBlocks' = IF frothyBlocks[b] = NoVersion THEN frothyBlocks
                       ELSE [frothyBlocks EXCEPT ![b][x] = events.got]
    /\ NextOperation
    /\ UNCHANGED <<blockVars, tableVars, latestPruned, hooked, pruning, faults>>

HandlersDone ==
    events.stage = "load" /\ events.pc > Len(Operations[events.block])

\* mutant: the block is not marked as complete
LeaveIncomplete ==
    /\ HandlersDone
    /\ events' = [events EXCEPT !.stage = "status"]
    /\ UNCHANGED <<blockVars, tableVars, cacheVars, hooked, pruning, faults>>

\* the commit of updateBlockProgress
CompleteBlock ==
    /\ HandlersDone
    /\ complete' = complete \cup {events.block}
    /\ events' = [events EXCEPT !.stage = "status"]
    /\ UNCHANGED <<saved, pruned, canonical, processed, next, tableVars, cacheVars,
                   hooked, pruning, faults>>

\* the events job completes, and the next height is asked for
FinishEvents ==
    /\ events' = NoEvents
    /\ next' = Number[events.block] + 1

\* updateSyncStatusProcessedBlock
UpdateProcessed ==
    /\ events.stage = "status"
    /\ processed' = IF processed = NoBlock
                       \/ Number[events.block] >= Number[processed]
                    THEN events.block ELSE processed
    /\ IF events.retry
       THEN events' = [events EXCEPT !.stage = "reset"] /\ UNCHANGED next
       ELSE FinishEvents
    /\ UNCHANGED <<saved, complete, pruned, canonical, tableVars, cacheVars,
                   hooked, pruning, faults>>

\* the watcher is reset to the block after a successful retry
ResetAfterRetry ==
    /\ events.stage = "reset"
    /\ ResetWatcherToBlock(Number[events.block])
    /\ FinishEvents
    /\ UNCHANGED <<cacheVars, hooked, pruning, faults>>

\* the job is retried: the events are processed from the first, without an
\* index job of the block
RetryEvents ==
    /\ events.stage = "failed"
    /\ StartEvents(events.block, TRUE)
    /\ UNCHANGED <<blockVars, tableVars, cacheVars, hooked, pruning, faults>>

-------------------------------------------------------------------------------
(* Failures.                                                                 *)

NoCache ==
    /\ frothyBlocks' = [b \in Block |-> NoVersion]
    /\ latestPruned' = [x \in Entity |-> NoVersion]

\* mutant: the versions of the block stay
KeepData == UNCHANGED tableVars

\* clearProcessedBlockData
ClearProcessedBlockData ==
    DeleteVersions({events.block}, Number[events.block])

Fail == events' = [NoEvents EXCEPT !.stage = "failed", !.block = events.block]

\* a handler throws: _clearCachedEntities, and the catch of _processEvents
HandlerFails ==
    /\ \E stage \in {"load", "save", "cache"} : AtOperation(stage)
    /\ Faulty("handler")
    /\ NoCache
    /\ ClearProcessedBlockData
    /\ Fail
    /\ UNCHANGED <<blockVars, hooked, pruning>>

\* a step after the handlers throws, and the cache is kept
StatusFails ==
    /\ HandlersDone \/ events.stage \in {"status", "reset"}
    /\ Faulty("status")
    /\ ClearProcessedBlockData
    /\ Fail
    /\ UNCHANGED <<blockVars, cacheVars, hooked, pruning>>

\* a transaction of the prune job fails: the job is run again
PruneFails ==
    /\ pruning.stage \in {"rows", "commit"}
    /\ Faulty("prune")
    /\ pruning' = NoPruning
    /\ UNCHANGED <<blockVars, tableVars, cacheVars, hooked, events>>

\* the job-runner goes down and comes up again: resetToLatestProcessedBlock
Restart ==
    /\ processed # NoBlock
    /\ Faulty("crash")
    /\ ResetWatcherToBlock(Number[processed])
    /\ NoCache
    /\ events' = NoEvents
    /\ next' = Number[processed] + 1
    /\ pruning' = NoPruning
    /\ UNCHANGED hooked

-------------------------------------------------------------------------------
Init ==
    /\ saved = {} /\ complete = {} /\ pruned = {}
    /\ canonical = Root
    /\ processed = NoBlock
    /\ next = Number[Root]
    /\ versions = [r \in Entity \X Block |-> NoVersion]
    /\ prunedRows = {}
    /\ frothy = {}
    /\ latest = [x \in Entity |-> NoVersion]
    /\ frothyBlocks = [b \in Block |-> NoVersion]
    /\ latestPruned = [x \in Entity |-> NoVersion]
    /\ hooked = NoBlock
    /\ events = NoEvents
    /\ pruning = NoPruning
    /\ faults = {}

EventWorkerStep ==
    \/ ReadCache
    \/ ReadDatabase
    \/ SkipRemove
    \/ SaveVersion
    \/ CacheVersion
    \/ CompleteBlock
    \/ UpdateProcessed
    \/ ResetAfterRetry
    \/ RetryEvents

Next ==
    \/ \E t, b \in Block : IndexBlock(t, b)
    \/ \E t \in Block : IndexBlockAgain(t)
    \/ \E c \in Block : RunHooks(c)
    \/ PruneBlocks
    \/ PruneRows
    \/ PruneCommit
    \/ EventWorkerStep
    \/ HandlerFails
    \/ StatusFails
    \/ PruneFails
    \/ Restart

Spec == Init /\ [][Next]_vars

-------------------------------------------------------------------------------
\* what the first i store calls of b are to make of the entities of its parent
StateAfter[b \in Block] ==
    LET first == IF b = Root THEN [x \in Entity |-> <<>>]
                 ELSE StateAfter[Parent[b]][Len(Operations[Parent[b]])]
        state[i \in Nat] ==
            IF i = 0 THEN first
            ELSE LET o == Operations[b][i]
                 IN  [state[i - 1] EXCEPT ![o.id] = Updated(o, b, @)]
    IN  state

\* what all of them are to make
StateOf(b) == StateAfter[b][Len(Operations[b])]

\* the same, entity by entity
OperationsApplied ==
    \A b \in Block, x \in Entity :
        /\ StateAfter[b][0][x] = IF b = Root THEN <<>> ELSE StateOf(Parent[b])[x]
        /\ \A i \in 1 .. Len(Operations[b]) :
               StateAfter[b][i][x] = IF x = Operations[b][i].id
                                     THEN Updated(Operations[b][i], b, StateAfter[b][i - 1][x])
                                     ELSE StateAfter[b][i - 1][x]

\* between prune jobs, none of which was broken off
Quiet == pruning.stage = "idle" /\ faults \cap {"prune", "crash"} = {}

\* Types; the processed block of the sync status is complete, and only rows of the
\* table are marked as pruned or complete.
TypeOK ==
    /\ complete \subseteq saved
    /\ saved \subseteq Block
    /\ pruned \subseteq saved
    /\ canonical \in Block
    /\ processed \in complete \cup {NoBlock}
    /\ next \in Nat
    /\ versions \in [Entity \X Block -> Value \cup {NoVersion}]
    /\ prunedRows \subseteq Entity \X Block
    /\ frothy \subseteq Entity \X Block
    /\ latest \in [Entity -> Entry \cup {NoVersion}]
    /\ latestPruned \in [Entity -> Value \cup {NoVersion}]
    /\ frothyBlocks \in [Block -> [Entity -> Value \cup {NoVersion}] \cup {NoVersion}]
    /\ hooked \in Block \cup {NoBlock}
    /\ faults \subseteq FaultKinds

\* no version holds an update of a block that is not on its branch
VersionsOfBranch ==
    \A b \in saved, x \in Entity :
        versions[<<x, b>>] # NoVersion => Range(versions[<<x, b>>]) \subseteq Ancestors[b]

\* Through every fault, versions hold updates of their own branch only; and while no more
\* than handlers and prune jobs fail, a version holds exactly the updates of its branch,
\* each applied once, whatever branches were processed in between.
VersionsFollowBranch ==
    /\ VersionsOfBranch
    /\ faults \subseteq {"handler", "prune"} =>
           \A b \in complete, x \in Entity :
               versions[<<x, b>>] # NoVersion => versions[<<x, b>>] = StateOf(b)[x]

\* the processed blocks a branch may go on from
Tips == {b \in complete \ {events.block} :
            Number[b] >= Number[canonical] /\ Ancestors[b] \cap pruned = {}}

\* the last version of x on the branch of b
OnBranch(x, b) == Highest({a \in Ancestors[b] : versions[<<x, a>>] # NoVersion})

\* the queries below the frothy region go one height too far: up to the block
\* above its lowest row, where rows of other branches need not be marked yet
SeesOtherBranch(x, b) ==
    \E a \in VersionsIn(Unpruned, x) \ Ancestors[b] :
        /\ Number[a] <= MinNumber(FrothyRegion(b)) + 1
        /\ \A c \in OnBranch(x, b) : Number[c] <= Number[a]

ValueOf(found, x) ==
    IF found = {} THEN {<<>>} ELSE {versions[<<x, b>>] : b \in found}

\* so may the query of a read, which comes after the blocks of the branch that are looked
\* through one by one: those in the cache, once it is used, or the frothy region
Nearby(b) == IF CacheUsed(b) THEN CachedBranch(b) ELSE FrothyRegion(b)

ReadsOtherBranch(x, b) ==
    /\ CacheHit(x, b) = NoVersion
    /\ \A a \in Nearby(b) : versions[<<x, a>>] = NoVersion
    /\ \E a \in VersionsIn(Unpruned, x) \ Ancestors[b] :
          /\ Number[a] <= MinNumber(Nearby(b)) + 1
          /\ \A c \in OnBranch(x, b) : Number[c] <= Number[a]

\* Whatever the cache holds, a handler of the next block reads the last version of its
\* branch, unless a step after the handlers failed and left the cache behind, or a block
\* of the branch is being processed again.
ReadsFollowBranch ==
    "status" \notin faults => \A b \in Tips, x \in Entity :
        events.block \notin Ancestors[b] /\ ~ReadsOtherBranch(x, b) =>
            {AsRead(v) : v \in EntityAt(x, b)} = ValueOf(OnBranch(x, b), x)

\* A query at a block hash returns the last versions of its branch; by way of the
\* latest-entity table, for the entities that the first block has created.
ListsAtHash ==
    \A b \in Tips, x \in Entity :
        ~SeesOtherBranch(x, b) =>
            /\ DistinctOn(VisibleAt(b), x) = OnBranch(x, b)
            /\ versions[<<x, Root>>] # NoVersion =>
                   Lateral(VisibleAt(b), x) = OnBranch(x, b)

\* A query at a number up to the canonical block returns its branch's versions.
ListsAtNumber ==
    Quiet =>
        \A b \in (Ancestors[canonical] \cap complete) \ {events.block}, x \in Entity :
            GroupBy(VisibleUpTo(Number[b]), x) = OnBranch(x, b)

\* A query returns the last versions of the branch it is about, whether it names the
\* block or a settled height, while branches are pruned and entities change tables.
ListsFollowBranch == ListsAtHash /\ ListsAtNumber

\* No version of a pruned block is left to the queries below the frothy region.
PrunedRowsMarked ==
    Quiet => \A r \in Unpruned : r[2] \notin pruned

\* The latest-entity table names stored versions of blocks that are not pruned,
\* but for the block whose data is being cleared and processed again.
LatestIsStored ==
    Quiet /\ "status" \notin faults => \A x \in Entity : latest[x] # NoVersion =>
        \/ latest[x].block = events.block
        \/ /\ latest[x].block \notin pruned
           /\ versions[<<x, latest[x].block>>] = latest[x].value

\* The tables that are changed along with the versions, by marks, moves and removals,
\* say the same as they do, whatever prune job or handler comes in between.
TablesAgree == TypeOK /\ PrunedRowsMarked /\ LatestIsStored

===============================================================================
