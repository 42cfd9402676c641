------------------------- MODULE EntityStoreProofs -------------------------
(***************************************************************************)
(* Theorems about EntityStore, for every tree of blocks, reorg depth, set   *)
(* of entities and of the store calls of the handlers of each block, and    *)
(* any number of faults.                                                    *)
(***************************************************************************)
EXTENDS EntityStore, BlockTreeProofs, SequenceTheorems, FiniteSetTheorems, TLAPS

Busy == events.stage # "idle"

\* The job that runs is for a row, which is complete once its handlers are done.
EventsTyped ==
    /\ events \in [stage : {"idle", "load", "save", "cache", "status", "reset", "failed"},
                   block : Block \cup {NoBlock}, pc : Nat \ {0}, retry : BOOLEAN,
                   got : Value \cup {NoVersion}, fill : BOOLEAN]
    /\ IF Busy THEN events.block \in saved ELSE events = NoEvents
    /\ events.stage \in {"status", "reset"} => events.block \in complete
    /\ events.stage = "cache" => events.got \in Value

PruningTyped ==
    \/ pruning = NoPruning
    \/ /\ pruning \in [stage : {"rows", "commit"}, keep : Block, drop : SUBSET Block]

Bounded == \E n \in Nat : \A b \in saved : Number[b] <= n

TypeInv == TypeOK /\ EventsTyped /\ PruningTyped /\ Bounded

-------------------------------------------------------------------------------
\* The root comes first, and the job that runs is for a block above the canonical one.
InOrder ==
    /\ saved \subseteq {Root} \/ Root \in complete
    /\ canonical \in saved \cup {Root}
    /\ Busy => \/ Number[events.block] > Number[canonical]
               \/ events.block = Root /\ canonical = Root

\* While a prune job is due or runs, no block is saved but the one that made it due.
Window ==
    /\ Busy => \A b \in saved \ {events.block} : Number[b] <= Number[canonical] + MaxReorgDepth
    /\ pruning # NoPruning => \E b \in saved : Number[b] >= PruneHeight + MaxReorgDepth

\* A prune job marks blocks of one height, the next one.
PruneInStep ==
    /\ pruning # NoPruning => /\ Number[pruning.keep] = PruneHeight
                              /\ pruning.keep \in saved
                              /\ pruning.drop \subseteq AtHeight(saved, PruneHeight) \cap pruned
    /\ \A b \in pruned : Number[b] > Number[Root] /\ Number[b] <= PruneHeight

\* Blocks are saved after their parents, versions only for blocks that are saved, and
\* only the versions of pruned blocks are marked.
RowsInStep ==
    /\ IsFiniteSet(saved)
    /\ saved \in ParentClosed
    /\ \A r \in Entity \X Block : versions[r] # NoVersion => r[2] \in saved
    /\ \A r \in prunedRows : r[2] \in pruned

InStep == InOrder /\ Window /\ PruneInStep /\ RowsInStep

StepInv == TypeInv /\ InStep

-------------------------------------------------------------------------------
\* The canonical block only goes back in a restart or after a prune job that failed.
Unbroken == faults \cap {"prune", "crash"} = {}

\* Above the canonical block only a prune job that runs has marked blocks.
PrunedBelow == \A b \in pruned : Number[b] <= Number[canonical] \/ b \in pruning.drop

\* The rows above the canonical block are in the table that pruning looks them up in.
FrothyListed == \A r \in Unpruned : Number[r[2]] > Number[canonical] => r \in frothy

\* The rows of a pruned block are marked, or the prune job is about to mark them.
RowsMarked ==
    \A r \in Unpruned : r[2] \in pruned => pruning.stage = "rows" /\ r[2] \in pruning.drop

PruneFacts == PrunedBelow /\ FrothyListed /\ RowsMarked

PruneInv == StepInv /\ (Unbroken => PruneFacts)

-------------------------------------------------------------------------------
\* A retry saves again what the failed attempt has saved: handlers do not fail, or only
\* call store.set, which saves whatever it reads (store.remove returns early).
RetriesSave ==
    \/ "handler" \notin FaultKinds
    \/ \A b \in Block : \A i \in DOMAIN Operations[b] : Operations[b][i].op = "set"

\* the ids that the handlers of b save
Saves(b) == {Operations[b][i].id : i \in DOMAIN Operations[b]}

\* those that the job that runs has still to save
ToSave ==
    {Operations[events.block][i].id : i \in
        {j \in DOMAIN Operations[events.block] :
            \/ events.stage \in {"load", "save"} /\ j >= events.pc
            \/ events.stage = "cache" /\ j > events.pc
            \/ events.stage = "failed"}}

\* An entry of the latest-entity table is that of its row, unless the row was removed
\* when a handler failed and is to be saved again; its block is not pruned, or is dropped
\* by the prune job that then takes the entry back.
EntriesStored ==
    /\ \A x \in Entity : latest[x] # NoVersion =>
          /\ x \in Saves(latest[x].block)
          /\ latest[x].block \in pruned =>
                pruning.stage = "rows" /\ latest[x].block \in pruning.drop
          /\ \/ versions[<<x, latest[x].block>>] = latest[x].value
             \/ "handler" \in faults /\ latest[x].block = events.block /\ x \in ToSave
    /\ \A x \in Entity, b \in Block : versions[<<x, b>>] # NoVersion => x \in Saves(b)
    /\ events.stage = "failed" => events.pc = 1

LatestInv == PruneInv /\ (Unbroken /\ "status" \notin faults => EntriesStored)

-------------------------------------------------------------------------------
(* Types.                                                                    *)

LEMMA NumberTyped == \A b \in Block : Number[b] \in Nat \ {0}
BY BlockTreeAssumption

LEMMA OperationTyped ==
    ASSUME NEW b \in Block, NEW i \in Nat \ {0}, i <= Len(Operations[b])
    PROVE  /\ Operations[b][i].id \in Entity
           /\ Operations[b][i].op \in {"set", "remove"}
           /\ i \in DOMAIN Operations[b]
<1>1. Operations[b] \in Seq(Operation)
  BY EntityStoreAssumption
<1>2. i \in DOMAIN Operations[b] /\ Operations[b][i] \in Operation
  BY <1>1, ElementOfSeq, LenProperties
<1> QED
  BY <1>2 DEF Operation

\* what is put in the place of an entry of the latest-entity table
LEMMA Canonicalized ==
    ASSUME NEW xs \in SUBSET Entity, NEW n \in Nat, CanonicalizeLatest(xs, n),
           latest \in [Entity -> Entry \cup {NoVersion}],
           versions' \in [Entity \X Block -> Value \cup {NoVersion}]
    PROVE  /\ latest' \in [Entity -> Entry \cup {NoVersion}]
           /\ \A x \in Entity \ xs : latest'[x] = latest[x]
           /\ \A x \in xs : \/ latest'[x] = NoVersion
                            \/ \E b \in Block : /\ <<x, b>> \in Unpruned'
                                                /\ Number[b] <= n
                                                /\ latest'[x] = [block |-> b, value |-> versions'[<<x, b>>]]
<1> DEFINE rows == {r \in Entity \X Block : versions'[r] # NoVersion /\ r \notin prunedRows'}
           found(x) == LatestOf(rows, x, n)
           entry(x, b) == [block |-> b, value |-> versions'[<<x, b>>]]
<1>1. PICK pick \in [xs -> Block \cup {NoBlock}] :
          /\ \A x \in xs : IF found(x) = {} THEN pick[x] = NoBlock ELSE pick[x] \in found(x)
          /\ latest' = [x \in Entity |-> IF x \notin xs THEN latest[x]
                                         ELSE IF pick[x] = NoBlock THEN NoVersion
                                         ELSE entry(x, pick[x])]
  BY DEF CanonicalizeLatest
<1>2. rows = Unpruned'
  BY DEF Unpruned
<1>3. ASSUME NEW x \in xs, pick[x] # NoBlock
      PROVE  /\ pick[x] \in Block /\ <<x, pick[x]>> \in Unpruned' /\ Number[pick[x]] <= n
             /\ entry(x, pick[x]) \in Entry
  <2>1. pick[x] \in found(x)
    BY <1>1, <1>3
  <2>2. pick[x] \in Block /\ <<x, pick[x]>> \in rows /\ Number[pick[x]] <= n
    BY <2>1 DEF LatestOf, Highest
  <2>3. versions'[<<x, pick[x]>>] \in Value
    BY <2>2
  <2> QED
    BY <1>2, <2>2, <2>3 DEF Entry
<1>4. \A x \in Entity \ xs : latest'[x] = latest[x]
  BY <1>1
<1>5. ASSUME NEW x \in xs
      PROVE  latest'[x] = IF pick[x] = NoBlock THEN NoVersion ELSE entry(x, pick[x])
  BY <1>1
<1>6. \A x \in Entity : latest'[x] \in Entry \cup {NoVersion}
  BY <1>3, <1>4, <1>5
<1>7. latest' \in [Entity -> Entry \cup {NoVersion}]
  <2>1. latest' = [x \in Entity |-> latest'[x]]
    BY <1>1
  <2> QED
    BY <1>6, <2>1
<1> QED
  BY <1>3, <1>4, <1>5, <1>7

\* what is left once the versions of some blocks are deleted
LEMMA Deleted ==
    ASSUME TypeOK, NEW gone \in SUBSET Block, NEW n \in Nat, DeleteVersions(gone, n)
    PROVE  /\ versions' \in [Entity \X Block -> Value \cup {NoVersion}]
           /\ \A x \in Entity, b \in Block :
                 versions'[<<x, b>>] = IF b \in gone THEN NoVersion ELSE versions[<<x, b>>]
           /\ Unpruned' = {r \in Unpruned : r[2] \notin gone}
           /\ prunedRows' \subseteq prunedRows
           /\ frothy' = {r \in frothy : r[2] \notin gone}
           /\ frothy' \subseteq frothy
           /\ CanonicalizeLatest(LatestAbove(n), n)
           /\ latest' \in [Entity -> Entry \cup {NoVersion}]
<1>1. versions' = [r \in Entity \X Block |-> IF r[2] \in gone THEN NoVersion ELSE versions[r]]
  BY DEF DeleteVersions
<1>2. versions' \in [Entity \X Block -> Value \cup {NoVersion}]
  BY <1>1 DEF TypeOK
<1>3. Unpruned' = {r \in Unpruned : r[2] \notin gone}
  BY <1>1 DEF DeleteVersions, Unpruned
<1>4. LatestAbove(n) \in SUBSET Entity
  BY DEF LatestAbove
<1>5. latest' \in [Entity -> Entry \cup {NoVersion}]
  BY <1>2, <1>4, Canonicalized DEF DeleteVersions, TypeOK
<1> QED
  BY <1>1, <1>2, <1>3, <1>5 DEF DeleteVersions

\* every value that a read finds
LEMMA ReadTyped ==
    ASSUME TypeOK, NEW x \in Entity, NEW b \in Block
    PROVE  /\ CacheHit(x, b) \in Value \cup {NoVersion}
           /\ QueryResults(x, b) \subseteq Value \cup {NoVersion}
<1> DEFINE near == Highest({a \in CachedBranch(b) : frothyBlocks[a][x] # NoVersion})
           c == CHOOSE a \in near : TRUE
<1>1. CacheHit(x, b) \in Value \cup {NoVersion}
  <2>1. ASSUME near # {}
        PROVE  frothyBlocks[c][x] \in Value \cup {NoVersion}
    <3>1. c \in near
      BY <2>1
    <3>2. c \in CachedBranch(b)
      BY <3>1 DEF Highest
    <3>3. c \in Block /\ c \in Ancestors[b]
      BY <3>2, AncestorsTyped DEF CachedBranch
    <3> HIDE DEF c
    <3>4. frothyBlocks[c] # NoVersion
      BY <3>2, <3>3, NumberTyped DEF CachedBranch
    <3>5. frothyBlocks[c] \in [Entity -> Value \cup {NoVersion}]
      BY <3>3, <3>4 DEF TypeOK
    <3> QED
      BY <3>5
  <2>2. latestPruned[x] \in Value \cup {NoVersion}
    BY DEF TypeOK
  <2> QED
    BY <2>1, <2>2 DEF CacheHit
<1>2. ASSUME NEW S \in SUBSET Block
      PROVE  {versions[<<x, a>>] : a \in S} \subseteq Value \cup {NoVersion}
  BY DEF TypeOK
<1>3. ASSUME NEW n
      PROVE  LatestPrunedEntity(x, n) \in SUBSET Block
  BY DEF LatestPrunedEntity, LatestOf, Highest
<1>4. PrevEntityVersion(x, b) \in SUBSET Block
  <2>1. Highest({a \in FrothyRegion(b) : versions[<<x, a>>] # NoVersion}) \subseteq Block
    BY AncestorsTyped DEF FrothyRegion, Highest
  <2> QED
    BY <1>3, <2>1 DEF PrevEntityVersion
<1> QED
  BY <1>1, <1>2, <1>3, <1>4 DEF QueryResults

\* of the blocks up to some height one is the highest
LEMMA MaxNumberOf ==
    ASSUME NEW S \in SUBSET Block, \E n \in Nat : \A b \in S : Number[b] <= n
    PROVE  /\ MaxNumber(S) \in Nat
           /\ \A b \in S : Number[b] <= MaxNumber(S)
           /\ MaxNumber(S) = 0 \/ \E b \in S : Number[b] = MaxNumber(S)
<1> DEFINE H == Heights(S) \cup {0}
<1>1. PICK n \in Nat : \A b \in S : Number[b] <= n
  OBVIOUS
<1>2. H \in SUBSET Nat /\ 0 \in H /\ \A h \in H : h <= n
  BY <1>1, NumberTyped DEF Heights
<1> DEFINE T == {n - h : h \in H}
<1>3. T \in SUBSET Nat /\ T # {}
  <2> HIDE DEF H
  <2> QED
    BY <1>2
<1>4. \E x \in T : \A y \in T : <<y, x>> \notin OpToRel(<, Nat)
  <2> HIDE DEF T
  <2> QED
    BY <1>3, NatLessThanWellFounded, WFMin, Zenon
<1>5. PICK x \in T : \A y \in T : ~(y < x)
  <2> HIDE DEF T
  <2> QED
    BY <1>3, <1>4, Zenon DEF OpToRel
<1>6. PICK m \in H : x = n - m
  <2> HIDE DEF H
  <2> QED
    BY <1>5
<1>7. ASSUME NEW h \in H
      PROVE  m >= h
  <2> HIDE DEF H
  <2>1. n - h \in T
    OBVIOUS
  <2>2. ~(n - h < n - m)
    BY <1>5, <1>6, <2>1
  <2> QED
    BY <1>2, <2>2
<1>8. Max(H) \in H /\ \A h \in H : Max(H) >= h
  <2> HIDE DEF H
  <2> QED
    BY <1>7, Zenon DEF Max
<1>9. ASSUME NEW b \in S
      PROVE  Number[b] <= Max(H)
  <2>1. Number[b] \in H
    BY DEF Heights
  <2> QED
    BY <1>2, <1>8, <2>1, NumberTyped
<1>10. Max(H) = 0 \/ \E b \in S : Number[b] = Max(H)
  <2>1. CASE Max(H) = 0
    BY <2>1
  <2>2. CASE Max(H) \in Heights(S)
    BY <2>2 DEF Heights
  <2> QED
    BY <1>8, <2>1, <2>2
<1> QED
  BY <1>2, <1>8, <1>9, <1>10 DEF MaxNumber

LEMMA InitTyped == Init => TypeInv
<1> SUFFICES ASSUME Init PROVE TypeInv
  OBVIOUS
<1>1. TypeOK
  BY BlockTreeAssumption DEF Init, TypeOK
<1>2. EventsTyped
  BY DEF Init, EventsTyped, NoEvents, Busy
<1>3. PruningTyped
  BY DEF Init, PruningTyped
<1>4. Bounded
  BY DEF Init, Bounded
<1> QED
  BY <1>1, <1>2, <1>3, <1>4 DEF TypeInv

LEMMA StartTyped ==
    ASSUME NEW b \in Block, NEW retry \in BOOLEAN, StartEvents(b, retry), b \in saved'
    PROVE  EventsTyped'
<1>1. events' = [stage |-> "load", block |-> b, pc |-> 1, retry |-> retry,
                 got |-> NoVersion, fill |-> FALSE]
  BY DEF StartEvents, NoEvents
<1> QED
  BY <1>1 DEF EventsTyped, Busy

LEMMA IndexTyped ==
    ASSUME TypeInv, NEW t \in Block, NEW b \in Block, IndexBlock(t, b)
    PROVE  TypeInv'
<1> USE DEF TypeInv
<1>1. saved' = saved \cup {b}
  BY DEF IndexBlock
<1>2. TypeOK'
  <2>1. frothyBlocks' \in [Block -> [Entity -> Value \cup {NoVersion}] \cup {NoVersion}]
    BY DEF IndexBlock, CacheFrothyBlock, TypeOK
  <2>2. latestPruned' \in [Entity -> Value \cup {NoVersion}]
    BY DEF IndexBlock, CacheFrothyBlock, TypeOK
  <2> QED
    BY <2>1, <2>2 DEF IndexBlock, tableVars, TypeOK
<1>3. EventsTyped'
  BY <1>1, StartTyped DEF IndexBlock
<1>4. PruningTyped'
  BY DEF IndexBlock, PruningTyped
<1>5. Bounded'
  <2>1. PICK n \in Nat : \A c \in saved : Number[c] <= n
    BY DEF Bounded
  <2>2. \A c \in saved' : Number[c] <= n + Number[b]
    BY <1>1, <2>1, NumberTyped DEF TypeOK
  <2>3. n + Number[b] \in Nat
    BY NumberTyped
  <2> QED
    BY <2>2, <2>3 DEF Bounded
<1> QED
  BY <1>2, <1>3, <1>4, <1>5

LEMMA IndexAgainTyped ==
    ASSUME TypeInv, NEW t \in Block, IndexBlockAgain(t)
    PROVE  TypeInv'
<1> USE DEF TypeInv
<1>1. UNCHANGED <<blockVars, tableVars, cacheVars, hooked, pruning>> /\ t \in saved
  BY DEF IndexBlockAgain, TypeOK
<1>2. TypeOK'
  BY <1>1 DEF IndexBlockAgain, Faulty, TypeOK, blockVars, tableVars, cacheVars
<1>3. EventsTyped'
  BY <1>1, StartTyped DEF IndexBlockAgain, blockVars
<1> QED
  BY <1>1, <1>2, <1>3 DEF PruningTyped, Bounded, blockVars

LEMMA HooksTyped ==
    ASSUME TypeInv, NEW c \in Block, RunHooks(c)
    PROVE  TypeInv'
<1> USE DEF TypeInv
<1>1. UNCHANGED <<blockVars, tableVars, events, pruning, faults>> /\ hooked' = c
  BY DEF RunHooks
<1>2. frothyBlocks' \in [Block -> [Entity -> Value \cup {NoVersion}] \cup {NoVersion}]
  BY DEF RunHooks, PruneFrothyBlocks, TypeOK
<1>3. latestPruned' \in [Entity -> Value \cup {NoVersion}]
  <2>1. CASE frothyBlocks[c] = NoVersion
    BY <2>1 DEF RunHooks, PruneFrothyBlocks, TypeOK
  <2>2. CASE frothyBlocks[c] # NoVersion
    <3>1. frothyBlocks[c] \in [Entity -> Value \cup {NoVersion}]
      BY <2>2 DEF TypeOK
    <3>2. latestPruned' = [x \in Entity |-> IF frothyBlocks[c][x] = NoVersion
                                            THEN latestPruned[x] ELSE frothyBlocks[c][x]]
      BY <2>2 DEF RunHooks, PruneFrothyBlocks
    <3> QED
      BY <3>1, <3>2 DEF TypeOK
  <2> QED
    BY <2>1, <2>2
<1>4. TypeOK'
  BY <1>1, <1>2, <1>3 DEF TypeOK, blockVars, tableVars
<1> QED
  BY <1>1, <1>4 DEF EventsTyped, Busy, PruningTyped, Bounded, blockVars

\* the block that a prune job keeps, and those it drops
LEMMA PruneChoice ==
    ASSUME TypeInv, PruneBlocks
    PROVE  \E keep \in saved :
              /\ Number[keep] = PruneHeight
              /\ pruned' = pruned \cup (AtHeight(saved \ pruned, PruneHeight) \ {keep})
              /\ pruning' = [stage |-> IF AtHeight(saved \ pruned, PruneHeight) = {keep}
                                       THEN "commit" ELSE "rows",
                             keep |-> keep,
                             drop |-> AtHeight(saved \ pruned, PruneHeight) \ {keep}]
<1> DEFINE at  == AtHeight(saved \ pruned, PruneHeight)
           top == Highest({b \in saved \ pruned : Number[b] <= PruneHeight + MaxReorgDepth})
<1>1. PICK keep \in IF Cardinality(at) = 1 THEN at
                    ELSE UNION {StoredAncestor(t, PruneHeight) : t \in top} :
          /\ pruned' = pruned \cup (at \ {keep})
          /\ pruning' = [stage |-> IF at = {keep} THEN "commit" ELSE "rows",
                         keep |-> keep, drop |-> at \ {keep}]
  BY DEF PruneBlocks
<1>2. at \subseteq saved /\ \A b \in at : Number[b] = PruneHeight
  BY DEF AtHeight
<1>3. \A t \in top : \A b \in StoredAncestor(t, PruneHeight) : b \in saved /\ Number[b] = PruneHeight
  BY DEF StoredAncestor, AtHeight
<1>4. keep \in saved /\ Number[keep] = PruneHeight
  <2> HIDE DEF at, top
  <2> QED
    BY <1>1, <1>2, <1>3
<1> QED
  BY <1>1, <1>4

LEMMA PruneTyped ==
    ASSUME TypeInv, PruneBlocks
    PROVE  TypeInv'
<1> USE DEF TypeInv
<1> DEFINE at == AtHeight(saved \ pruned, PruneHeight)
<1>1. PICK keep \in saved :
         /\ pruned' = pruned \cup (at \ {keep})
         /\ pruning' = [stage |-> IF at = {keep} THEN "commit" ELSE "rows",
                        keep |-> keep, drop |-> at \ {keep}]
  BY PruneChoice
<1>2. at \subseteq saved
  BY DEF AtHeight
<1>3. UNCHANGED <<saved, complete, canonical, processed, next, tableVars, cacheVars,
                  hooked, events, faults>>
  BY DEF PruneBlocks
<1>4. TypeOK'
  BY <1>1, <1>2, <1>3 DEF TypeOK, tableVars, cacheVars
<1>5. PruningTyped'
  BY <1>1, <1>2 DEF PruningTyped, TypeOK
<1> QED
  BY <1>3, <1>4, <1>5 DEF EventsTyped, Busy, Bounded

LEMMA PruneRowsTyped ==
    ASSUME TypeInv, PruneRows
    PROVE  TypeInv'
<1> USE DEF TypeInv
<1>1. /\ UNCHANGED <<blockVars, frothy, cacheVars, hooked, events, faults>>
      /\ UNCHANGED versions
      /\ prunedRows' \subseteq Entity \X Block
  BY DEF PruneRows, MarkRows, TypeOK, Unpruned
<1>2. latest' \in [Entity -> Entry \cup {NoVersion}]
  <2> DEFINE xs == {x \in Entity : latest[x] # NoVersion /\ latest[x].block \in pruning.drop}
  <2>1. CanonicalizeLatest(xs, PruneHeight)
    BY DEF PruneRows, MarkRows
  <2>2. PruneHeight \in Nat
    BY NumberTyped DEF PruneHeight, TypeOK
  <2>3. xs \in SUBSET Entity
    OBVIOUS
  <2>4. /\ latest \in [Entity -> Entry \cup {NoVersion}]
        /\ versions' \in [Entity \X Block -> Value \cup {NoVersion}]
    BY <1>1 DEF TypeOK
  <2> HIDE DEF xs
  <2> QED
    BY <2>1, <2>2, <2>3, <2>4, Canonicalized
<1>3. TypeOK'
  BY <1>1, <1>2 DEF TypeOK, blockVars, cacheVars
<1>4. PruningTyped'
  <2>1. pruning.stage = "rows" /\ pruning' = [pruning EXCEPT !.stage = "commit"]
    BY DEF PruneRows
  <2>2. pruning # NoPruning
    BY <2>1 DEF NoPruning
  <2> QED
    BY <2>1, <2>2 DEF PruningTyped
<1> QED
  BY <1>1, <1>3, <1>4 DEF EventsTyped, Busy, Bounded, blockVars

LEMMA CommitTyped ==
    ASSUME TypeInv, PruneCommit
    PROVE  TypeInv'
<1> USE DEF TypeInv
<1>1. pruning.keep \in Block
  BY DEF PruneCommit, PruningTyped, NoPruning
<1>2. canonical' \in Block
  BY <1>1 DEF PruneCommit, TypeOK
<1>3. TypeOK'
  BY <1>2 DEF PruneCommit, TypeOK, cacheVars
<1> QED
  BY <1>3 DEF PruneCommit, EventsTyped, Busy, Bounded, PruningTyped

LEMMA PruneFailsTyped ==
    ASSUME TypeInv, PruneFails
    PROVE  TypeInv'
<1> USE DEF TypeInv
<1>1. UNCHANGED <<blockVars, tableVars, cacheVars, hooked, events>>
  BY DEF PruneFails
<1>2. TypeOK'
  BY <1>1 DEF PruneFails, Faulty, TypeOK, blockVars, tableVars, cacheVars
<1> QED
  BY <1>1, <1>2 DEF PruneFails, EventsTyped, Busy, Bounded, PruningTyped, blockVars

\* the call of the handler that runs
LEMMA OperationRuns ==
    ASSUME TypeInv, NEW stage \in {"load", "save", "cache"}, AtOperation(stage)
    PROVE  /\ events.block \in saved /\ events.block \in Block
           /\ Operation_.id \in Entity /\ Operation_.op \in {"set", "remove"}
           /\ events.pc \in DOMAIN Operations[events.block]
           /\ Busy
<1>1. Busy /\ events.pc \in Nat \ {0}
  BY DEF TypeInv, EventsTyped, AtOperation, Busy
<1>2. events.block \in saved /\ events.block \in Block
  BY <1>1 DEF TypeInv, EventsTyped, TypeOK
<1> QED
  BY <1>1, <1>2, OperationTyped DEF AtOperation, Operation_

LEMMA ReadKeepsTypes ==
    ASSUME TypeInv, ReadCache \/ ReadDatabase
    PROVE  TypeInv'
<1> USE DEF TypeInv
<1>1. AtOperation("load")
  BY DEF ReadCache, ReadDatabase
<1>2. Operation_.id \in Entity /\ events.block \in saved /\ events.block \in Block /\ Busy
  BY <1>1, OperationRuns
<1>3. PICK v \in Value \cup {NoVersion}, fill \in BOOLEAN : Loaded(v, fill)
  <2>1. CASE ReadCache
    <3>1. CacheHit(Operation_.id, events.block) \in Value \cup {NoVersion}
      BY <1>2, ReadTyped
    <3> QED
      BY <2>1, <3>1 DEF ReadCache
  <2>2. CASE ReadDatabase
    <3>1. QueryResults(Operation_.id, events.block) \subseteq Value \cup {NoVersion}
      BY <1>2, ReadTyped
    <3>2. PICK v \in QueryResults(Operation_.id, events.block) :
             Loaded(v, CacheUsed(events.block) /\ v # NoVersion)
      BY <2>2 DEF ReadDatabase
    <3> QED
      BY <3>1, <3>2
  <2> QED
    BY <2>1, <2>2
<1>4. UNCHANGED <<blockVars, tableVars, cacheVars, hooked, pruning, faults>>
  BY DEF ReadCache, ReadDatabase
<1>5. TypeOK'
  BY <1>4 DEF TypeOK, blockVars, tableVars, cacheVars
<1>6. EventsTyped'
  <2>1. events' = [events EXCEPT !.stage = "save", !.got = v, !.fill = fill]
    BY <1>3 DEF Loaded
  <2> QED
    BY <1>2, <1>4, <2>1 DEF EventsTyped, Busy, blockVars
<1> QED
  BY <1>4, <1>5, <1>6 DEF PruningTyped, Bounded, blockVars

LEMMA FillTyped ==
    ASSUME TypeInv, FillCache, AtOperation("save")
    PROVE  latestPruned' \in [Entity -> Value \cup {NoVersion}]
<1>1. events.got \in Value \cup {NoVersion}
  BY DEF TypeInv, EventsTyped
<1> QED
  BY <1>1 DEF TypeInv, TypeOK, FillCache

LEMMA NextTyped ==
    ASSUME TypeInv, Busy, NextOperation, UNCHANGED blockVars
    PROVE  EventsTyped'
<1>1. events' = [events EXCEPT !.stage = "load", !.pc = events.pc + 1,
                               !.got = NoVersion, !.fill = FALSE]
  BY DEF NextOperation
<1>2. EventsTyped /\ events.block \in saved' /\ events.pc + 1 \in Nat \ {0}
  BY DEF TypeInv, EventsTyped, blockVars
<1>3. events' \in [stage : {"idle", "load", "save", "cache", "status", "reset", "failed"},
                   block : Block \cup {NoBlock}, pc : Nat \ {0}, retry : BOOLEAN,
                   got : Value \cup {NoVersion}, fill : BOOLEAN]
  BY <1>1, <1>2 DEF EventsTyped
<1>4. events'.stage = "load" /\ events'.block = events.block
  BY <1>1, <1>2 DEF EventsTyped
<1> QED
  BY <1>2, <1>3, <1>4 DEF EventsTyped, Busy

LEMMA SkipTyped ==
    ASSUME TypeInv, SkipRemove
    PROVE  TypeInv'
<1> USE DEF TypeInv
<1>1. UNCHANGED <<blockVars, tableVars, frothyBlocks, hooked, pruning, faults>>
  BY DEF SkipRemove
<1>2. TypeOK'
  BY <1>1, FillTyped DEF SkipRemove, TypeOK, blockVars, tableVars
<1>3. EventsTyped'
  BY <1>1, OperationRuns, NextTyped DEF SkipRemove
<1> QED
  BY <1>1, <1>2, <1>3 DEF PruningTyped, Bounded, blockVars

LEMMA SaveTyped ==
    ASSUME TypeInv, SaveVersion
    PROVE  TypeInv'
<1> USE DEF TypeInv
<1> DEFINE x == Operation_.id
           b == events.block
           v == Updated(Operation_, b, events.got)
<1>1. UNCHANGED <<blockVars, prunedRows, frothyBlocks, hooked, pruning, faults>>
  BY DEF SaveVersion
<1>2. x \in Entity /\ b \in Block /\ b \in saved /\ Busy
  BY OperationRuns DEF SaveVersion
<1>3. v \in Value
  <2>1. events.got \in Value \cup {NoVersion} /\ <<>> \in Value
    BY EmptySeq DEF EventsTyped, Value
  <2>2. (IF events.got = NoVersion THEN <<>> ELSE events.got) \in Seq(Block)
    BY <2>1 DEF Value
  <2> QED
    BY <1>2, <2>1, <2>2, AppendProperties DEF Updated, Value
<1>4. /\ versions' = [versions EXCEPT ![<<x, b>>] = v]
      /\ frothy' = frothy \cup {<<x, b>>}
      /\ latest' = [latest EXCEPT ![x] = [block |-> b, value |-> v]]
      /\ events' = [events EXCEPT !.stage = "cache", !.got = v, !.fill = FALSE]
  BY DEF SaveVersion
<1>5. latestPruned' \in [Entity -> Value \cup {NoVersion}]
  BY FillTyped DEF SaveVersion
<1> HIDE DEF x, b, v
<1>6. versions' \in [Entity \X Block -> Value \cup {NoVersion}]
  BY <1>2, <1>3, <1>4 DEF TypeOK
<1>7. latest' \in [Entity -> Entry \cup {NoVersion}]
  BY <1>2, <1>3, <1>4 DEF TypeOK, Entry
<1>8. TypeOK'
  BY <1>1, <1>2, <1>4, <1>5, <1>6, <1>7 DEF TypeOK, blockVars
<1>9. EventsTyped'
  BY <1>1, <1>2, <1>3, <1>4 DEF EventsTyped, Busy, b, blockVars
<1> QED
  BY <1>1, <1>8, <1>9 DEF PruningTyped, Bounded, blockVars

LEMMA CacheTyped ==
    ASSUME TypeInv, CacheVersion
    PROVE  TypeInv'
<1> USE DEF TypeInv
<1> DEFINE x == Operation_.id
           b == events.block
<1>1. UNCHANGED <<blockVars, tableVars, latestPruned, hooked, pruning, faults>>
  BY DEF CacheVersion
<1>2. x \in Entity /\ b \in Block /\ Busy
  BY OperationRuns DEF CacheVersion
<1>3. events.got \in Value
  BY DEF CacheVersion, AtOperation, EventsTyped
<1>4. frothyBlocks' = IF frothyBlocks[b] = NoVersion THEN frothyBlocks
                      ELSE [frothyBlocks EXCEPT ![b] = [frothyBlocks[b] EXCEPT ![x] = events.got]]
  BY DEF CacheVersion
<1>5. frothyBlocks' \in [Block -> [Entity -> Value \cup {NoVersion}] \cup {NoVersion}]
  <2> HIDE DEF x, b
  <2>1. CASE frothyBlocks[b] = NoVersion
    BY <1>4, <2>1 DEF TypeOK
  <2>2. CASE frothyBlocks[b] # NoVersion
    <3>1. frothyBlocks[b] \in [Entity -> Value \cup {NoVersion}]
      BY <1>2, <2>2 DEF TypeOK
    <3>2. [frothyBlocks[b] EXCEPT ![x] = events.got] \in [Entity -> Value \cup {NoVersion}]
      BY <1>2, <1>3, <3>1
    <3> QED
      BY <1>2, <1>4, <2>2, <3>2 DEF TypeOK
  <2> QED
    BY <2>1, <2>2
<1>6. TypeOK'
  BY <1>1, <1>5 DEF TypeOK, blockVars, tableVars
<1>7. EventsTyped'
  BY <1>1, <1>2, NextTyped DEF CacheVersion
<1> QED
  BY <1>1, <1>6, <1>7 DEF PruningTyped, Bounded, blockVars

LEMMA CompleteTyped ==
    ASSUME TypeInv, CompleteBlock
    PROVE  TypeInv'
<1> USE DEF TypeInv
<1>1. events.stage = "load" /\ Busy /\ events.block \in saved
  BY DEF CompleteBlock, HandlersDone, EventsTyped, Busy
<1>2. /\ UNCHANGED <<saved, pruned, canonical, processed, next, tableVars, cacheVars,
                     hooked, pruning, faults>>
      /\ complete' = complete \cup {events.block}
      /\ events' = [events EXCEPT !.stage = "status"]
  BY DEF CompleteBlock
<1>3. TypeOK'
  BY <1>1, <1>2 DEF TypeOK, tableVars, cacheVars
<1>4. EventsTyped'
  BY <1>1, <1>2 DEF EventsTyped, Busy
<1> QED
  BY <1>2, <1>3, <1>4 DEF PruningTyped, Bounded

LEMMA NoEventsTyped == events' = NoEvents => EventsTyped'
BY DEF EventsTyped, NoEvents, Busy

LEMMA ProcessedTyped ==
    ASSUME TypeInv, UpdateProcessed
    PROVE  TypeInv'
<1> USE DEF TypeInv
<1>1. /\ events.stage = "status" /\ Busy /\ events.block \in saved /\ events.block \in complete
      /\ events.block \in Block
  BY DEF UpdateProcessed, EventsTyped, Busy, TypeOK
<1>2. UNCHANGED <<saved, complete, pruned, canonical, tableVars, cacheVars,
                  hooked, pruning, faults>>
  BY DEF UpdateProcessed
<1>3. processed' \in complete \cup {NoBlock}
  BY <1>1 DEF UpdateProcessed, TypeOK
<1>4. next' \in Nat
  BY <1>1, NumberTyped DEF UpdateProcessed, FinishEvents, TypeOK
<1>5. TypeOK'
  BY <1>2, <1>3, <1>4 DEF TypeOK, tableVars, cacheVars
<1>6. EventsTyped'
  <2>1. CASE events.retry
    <3>1. events' = [events EXCEPT !.stage = "reset"]
      BY <2>1 DEF UpdateProcessed
    <3> QED
      BY <1>1, <1>2, <3>1 DEF EventsTyped, Busy
  <2>2. CASE ~events.retry
    BY <2>2, NoEventsTyped DEF UpdateProcessed, FinishEvents
  <2> QED
    BY <2>1, <2>2
<1> QED
  BY <1>2, <1>5, <1>6 DEF PruningTyped, Bounded

\* a reset keeps the rows up to its height, and those that the status names
LEMMA ResetKeeps ==
    ASSUME TypeInv, NEW n \in Nat, ResetWatcherToBlock(n)
    PROVE  /\ saved' = saved \ Above(n) /\ complete' = complete \ Above(n)
           /\ pruned' = pruned \ Above(n)
           /\ canonical' \in Block /\ processed' \in complete' \cup {NoBlock}
           /\ Number[canonical] <= n => canonical' = canonical
           /\ Number[canonical] > n => canonical' \in saved /\ Number[canonical'] = n
           /\ DeleteVersions(Above(n), n) /\ Above(n) \in SUBSET Block
           /\ Bounded'
<1>1. /\ saved' = saved \ Above(n) /\ complete' = complete \ Above(n)
      /\ pruned' = pruned \ Above(n) /\ DeleteVersions(Above(n), n)
  BY DEF ResetWatcherToBlock
<1>2. PICK b \in AtHeight(saved \ pruned, n) :
         canonical' = Lower(canonical, n, b) /\ processed' = Lower(processed, n, b)
  BY DEF ResetWatcherToBlock
<1>3. b \in saved /\ Number[b] = n /\ b \in complete /\ b \in Block
  BY <1>2 DEF ResetWatcherToBlock, CanResetTo, AtHeight, TypeInv, TypeOK
<1>4. canonical \in Block /\ processed \in complete \cup {NoBlock} /\ complete \subseteq Block
  BY DEF TypeInv, TypeOK
<1>5. canonical' \in Block
  BY <1>2, <1>3, <1>4 DEF Lower
<1>6. processed' \in complete' \cup {NoBlock}
  BY <1>1, <1>2, <1>3, <1>4, NumberTyped DEF Lower, Above
<1>7. /\ Number[canonical] <= n => canonical' = canonical
      /\ Number[canonical] > n => canonical' \in saved /\ Number[canonical'] = n
  BY <1>2, <1>3, <1>4, NumberTyped, BlockTreeAssumption DEF Lower
<1>8. Bounded'
  BY <1>1 DEF TypeInv, Bounded
<1> QED
  BY <1>1, <1>5, <1>6, <1>7, <1>8 DEF Above

LEMMA ResetTypes ==
    ASSUME TypeInv, NEW n \in Nat, ResetWatcherToBlock(n), next' \in Nat, UNCHANGED hooked,
           latestPruned' \in [Entity -> Value \cup {NoVersion}],
           frothyBlocks' \in [Block -> [Entity -> Value \cup {NoVersion}] \cup {NoVersion}],
           faults' \subseteq FaultKinds
    PROVE  TypeOK' /\ Bounded'
<1>1. /\ saved' = saved \ Above(n) /\ complete' = complete \ Above(n)
      /\ pruned' = pruned \ Above(n)
      /\ canonical' \in Block /\ processed' \in complete' \cup {NoBlock}
      /\ DeleteVersions(Above(n), n) /\ Above(n) \in SUBSET Block
      /\ Bounded'
  BY ResetKeeps
<1>2. TypeOK
  BY DEF TypeInv
<1>3. /\ versions' \in [Entity \X Block -> Value \cup {NoVersion}]
      /\ prunedRows' \subseteq prunedRows
      /\ frothy' \subseteq frothy
      /\ latest' \in [Entity -> Entry \cup {NoVersion}]
  BY <1>1, <1>2, Deleted, Zenon
<1> QED
  BY <1>1, <1>2, <1>3 DEF TypeOK

LEMMA ResetTyped ==
    ASSUME TypeInv, ResetAfterRetry
    PROVE  TypeInv'
<1>1. TypeOK /\ EventsTyped /\ PruningTyped
  BY DEF TypeInv
<1>2. events.block \in Block
  BY <1>1 DEF ResetAfterRetry, EventsTyped, TypeOK
<1>3. Number[events.block] \in Nat /\ next' \in Nat
  BY <1>2, NumberTyped DEF ResetAfterRetry, FinishEvents
<1>4. ResetWatcherToBlock(Number[events.block]) /\ events' = NoEvents
      /\ UNCHANGED <<cacheVars, hooked, pruning, faults>>
  BY DEF ResetAfterRetry, FinishEvents
<1>5. /\ UNCHANGED hooked /\ faults' \subseteq FaultKinds
      /\ latestPruned' \in [Entity -> Value \cup {NoVersion}]
      /\ frothyBlocks' \in [Block -> [Entity -> Value \cup {NoVersion}] \cup {NoVersion}]
  BY <1>1, <1>4 DEF TypeOK, cacheVars
<1>6. TypeOK' /\ Bounded'
  BY <1>3, <1>4, <1>5, ResetTypes
<1> QED
  BY <1>1, <1>4, <1>6, NoEventsTyped DEF TypeInv, PruningTyped

LEMMA RestartTyped ==
    ASSUME TypeInv, Restart
    PROVE  TypeInv'
<1>1. TypeOK
  BY DEF TypeInv
<1>2. processed \in Block
  BY <1>1 DEF Restart, TypeOK
<1>3. Number[processed] \in Nat /\ next' \in Nat
  BY <1>2, NumberTyped DEF Restart
<1>4. ResetWatcherToBlock(Number[processed]) /\ events' = NoEvents /\ pruning' = NoPruning
  BY DEF Restart
<1>5. /\ UNCHANGED hooked /\ faults' \subseteq FaultKinds
      /\ latestPruned' \in [Entity -> Value \cup {NoVersion}]
      /\ frothyBlocks' \in [Block -> [Entity -> Value \cup {NoVersion}] \cup {NoVersion}]
  BY <1>1 DEF Restart, NoCache, Faulty, TypeOK
<1>6. TypeOK' /\ Bounded'
  BY <1>3, <1>4, <1>5, ResetTypes
<1> QED
  BY <1>4, <1>6, NoEventsTyped DEF TypeInv, PruningTyped

LEMMA RetryTyped ==
    ASSUME TypeInv, RetryEvents
    PROVE  TypeInv'
<1> USE DEF TypeInv
<1>1. UNCHANGED <<blockVars, tableVars, cacheVars, hooked, pruning, faults>>
  BY DEF RetryEvents
<1>2. TypeOK'
  BY <1>1 DEF TypeOK, blockVars, tableVars, cacheVars
<1>3. events.block \in saved' /\ events.block \in Block
  BY <1>1 DEF RetryEvents, EventsTyped, Busy, TypeOK, blockVars
<1>4. EventsTyped'
  BY <1>3, StartTyped DEF RetryEvents
<1> QED
  BY <1>1, <1>2, <1>4 DEF PruningTyped, Bounded, blockVars

\* a job that fails
LEMMA FailTyped ==
    ASSUME TypeInv, Busy, ClearProcessedBlockData, Fail, UNCHANGED <<blockVars, hooked, pruning>>,
           latestPruned' \in [Entity -> Value \cup {NoVersion}],
           frothyBlocks' \in [Block -> [Entity -> Value \cup {NoVersion}] \cup {NoVersion}],
           faults' \subseteq FaultKinds
    PROVE  TypeInv'
<1>1. TypeOK /\ EventsTyped /\ PruningTyped /\ Bounded
  BY DEF TypeInv
<1>2. events.block \in saved /\ {events.block} \in SUBSET Block /\ Number[events.block] \in Nat
  BY <1>1, NumberTyped DEF EventsTyped, TypeOK
<1>3. DeleteVersions({events.block}, Number[events.block])
  BY DEF ClearProcessedBlockData
<1>4. /\ versions' \in [Entity \X Block -> Value \cup {NoVersion}]
      /\ prunedRows' \subseteq prunedRows
      /\ frothy' \subseteq frothy
      /\ latest' \in [Entity -> Entry \cup {NoVersion}]
  BY <1>1, <1>2, <1>3, Deleted, Zenon
<1>5. TypeOK'
  BY <1>1, <1>4 DEF TypeOK, blockVars
<1>6. events' = [stage |-> "failed", block |-> events.block, pc |-> 1, retry |-> FALSE,
                 got |-> NoVersion, fill |-> FALSE]
  BY DEF Fail, NoEvents
<1>7. EventsTyped'
  BY <1>1, <1>2, <1>6 DEF EventsTyped, Busy, blockVars, TypeOK
<1> QED
  BY <1>1, <1>5, <1>7 DEF TypeInv, PruningTyped, Bounded, blockVars

LEMMA HandlerFailsTyped ==
    ASSUME TypeInv, HandlerFails
    PROVE  TypeInv'
<1>1. Busy
  BY DEF HandlerFails, AtOperation, Busy
<1>2. /\ latestPruned' \in [Entity -> Value \cup {NoVersion}]
      /\ frothyBlocks' \in [Block -> [Entity -> Value \cup {NoVersion}] \cup {NoVersion}]
      /\ faults' \subseteq FaultKinds
  BY DEF HandlerFails, NoCache, Faulty, TypeInv, TypeOK
<1> QED
  BY <1>1, <1>2, FailTyped DEF HandlerFails

LEMMA StatusFailsTyped ==
    ASSUME TypeInv, StatusFails
    PROVE  TypeInv'
<1>1. Busy
  BY DEF StatusFails, HandlersDone, Busy
<1>2. /\ latestPruned' \in [Entity -> Value \cup {NoVersion}]
      /\ frothyBlocks' \in [Block -> [Entity -> Value \cup {NoVersion}] \cup {NoVersion}]
      /\ faults' \subseteq FaultKinds
  BY DEF StatusFails, Faulty, TypeInv, TypeOK, cacheVars
<1>3. UNCHANGED <<blockVars, hooked, pruning>>
  BY DEF StatusFails
<1> QED
  BY <1>1, <1>2, <1>3, FailTyped DEF StatusFails

LEMMA StutterTyped ==
    ASSUME TypeInv, UNCHANGED vars
    PROVE  TypeInv'
BY DEF vars, blockVars, tableVars, cacheVars, TypeInv, TypeOK, EventsTyped, Busy, PruningTyped,
       Bounded

LEMMA TypeStep == TypeInv /\ [Next]_vars => TypeInv'
<1> SUFFICES ASSUME TypeInv, [Next]_vars PROVE TypeInv'
  OBVIOUS
<1>1. ASSUME NEW t \in Block, NEW b \in Block, IndexBlock(t, b) PROVE TypeInv'
  BY <1>1, IndexTyped
<1>2. ASSUME NEW t \in Block, IndexBlockAgain(t) PROVE TypeInv'
  BY <1>2, IndexAgainTyped
<1>3. ASSUME NEW c \in Block, RunHooks(c) PROVE TypeInv'
  BY <1>3, HooksTyped
<1>4. CASE PruneBlocks \/ PruneRows \/ PruneCommit \/ PruneFails
  BY <1>4, PruneTyped, PruneRowsTyped, CommitTyped, PruneFailsTyped
<1>5. CASE EventWorkerStep
  BY <1>5, ReadKeepsTypes, SkipTyped, SaveTyped, CacheTyped, CompleteTyped, ProcessedTyped,
     ResetTyped, RetryTyped DEF EventWorkerStep
<1>6. CASE HandlerFails \/ StatusFails \/ Restart
  BY <1>6, HandlerFailsTyped, StatusFailsTyped, RestartTyped
<1>7. CASE UNCHANGED vars
  BY <1>7, StutterTyped
<1> QED
  BY <1>1, <1>2, <1>3, <1>4, <1>5, <1>6, <1>7 DEF Next

-------------------------------------------------------------------------------
(* The jobs in step.                                                         *)

LEMMA BlocksTyped ==
    ASSUME TypeInv
    PROVE  /\ saved \subseteq Block /\ canonical \in Block /\ PruneHeight \in Nat
           /\ \A b \in saved : Number[b] \in Nat
           /\ Number[canonical] \in Nat /\ Number[Root] \in Nat
           /\ MaxReorgDepth \in Nat \ {0}
           /\ complete \subseteq saved /\ pruned \subseteq saved
           /\ Busy => events.block \in saved
           /\ \A r \in Unpruned : r \in Entity \X Block /\ r[2] \in Block
BY NumberTyped, BlockTreeAssumption, EntityStoreAssumption
   DEF TypeInv, TypeOK, PruneHeight, EventsTyped, Unpruned

LEMMA FaultsGrow ==
    ASSUME [Next]_vars
    PROVE  faults \subseteq faults'
<1>1. CASE UNCHANGED vars
  BY <1>1 DEF vars
<1>2. ASSUME NEW kind, Faulty(kind) PROVE faults \subseteq faults'
  BY <1>2 DEF Faulty
<1>3. CASE Next
  <2>1. CASE \E t, b \in Block : IndexBlock(t, b)
    BY <2>1 DEF IndexBlock
  <2>2. CASE \E t \in Block : IndexBlockAgain(t)
    BY <2>2, <1>2 DEF IndexBlockAgain
  <2>3. CASE \E c \in Block : RunHooks(c)
    BY <2>3 DEF RunHooks
  <2>4. CASE PruneBlocks \/ PruneRows \/ PruneCommit
    BY <2>4 DEF PruneBlocks, PruneRows, PruneCommit
  <2>5. CASE EventWorkerStep
    BY <2>5 DEF EventWorkerStep, ReadCache, ReadDatabase, SkipRemove, SaveVersion, CacheVersion,
       CompleteBlock, UpdateProcessed, ResetAfterRetry, RetryEvents
  <2>6. CASE HandlerFails \/ StatusFails \/ PruneFails \/ Restart
    BY <2>6, <1>2 DEF HandlerFails, StatusFails, PruneFails, Restart
  <2> QED
    BY <1>3, <2>1, <2>2, <2>3, <2>4, <2>5, <2>6 DEF Next
<1> QED
  BY <1>1, <1>3

\* the block of the job that runs is out of the reach of the prune job
LEMMA RunsAbove ==
    ASSUME TypeInv, InStep, Busy
    PROVE  /\ Number[canonical] <= Number[events.block]
           /\ pruning # NoPruning => Number[events.block] >= PruneHeight + MaxReorgDepth
<1> DEFINE b == events.block
<1>1. b \in saved /\ Number[b] \in Nat /\ Number[canonical] \in Nat /\ MaxReorgDepth \in Nat \ {0}
      /\ PruneHeight = Number[canonical] + 1
  BY BlocksTyped DEF PruneHeight
<1>2. ASSUME pruning # NoPruning
      PROVE  Number[b] >= PruneHeight + MaxReorgDepth
  <2>1. PICK t \in saved : Number[t] >= PruneHeight + MaxReorgDepth
    BY <1>2 DEF InStep, Window
  <2>2. ~(Number[t] <= Number[canonical] + MaxReorgDepth)
    BY <1>1, <2>1, BlocksTyped
  <2>3. t = b
    BY <2>1, <2>2 DEF InStep, Window
  <2> QED
    BY <2>1, <2>3
<1>3. Number[canonical] <= Number[b]
  BY <1>1 DEF InStep, InOrder
<1> QED
  BY <1>2, <1>3

\* before a block is fetched, no prune job is due
LEMMA FetchedWithin ==
    ASSUME TypeInv, InStep, NEW t \in Block, Fetched(t)
    PROVE  /\ \A b \in saved : Number[b] <= Number[canonical] + MaxReorgDepth
           /\ pruning = NoPruning
<1>1. /\ MaxNumber(saved) \in Nat /\ \A b \in saved : Number[b] <= MaxNumber(saved)
  BY MaxNumberOf, BlocksTyped DEF TypeInv, Bounded
<1>2. MaxNumber(saved) - Number[canonical] <= MaxReorgDepth
  BY DEF Fetched
<1>3. \A b \in saved : Number[b] <= Number[canonical] + MaxReorgDepth
  BY <1>1, <1>2, BlocksTyped
<1>4. ASSUME pruning # NoPruning PROVE FALSE
  <2>1. PICK b \in saved : Number[b] >= PruneHeight + MaxReorgDepth
    BY <1>4 DEF InStep, Window
  <2> QED
    BY <1>3, <2>1, BlocksTyped DEF PruneHeight
<1> QED
  BY <1>3, <1>4

LEMMA InitInStep == Init => StepInv
<1> SUFFICES ASSUME Init PROVE InStep
  BY InitTyped DEF StepInv
<1>1. InOrder
  BY DEF Init, InOrder, Busy, NoEvents
<1>2. Window
  BY DEF Init, Window, Busy, NoEvents
<1>3. PruneInStep
  BY DEF Init, PruneInStep
<1>4. RowsInStep
  BY FS_EmptySet DEF Init, RowsInStep, ParentClosed
<1> QED
  BY <1>1, <1>2, <1>3, <1>4 DEF InStep

\* the steps that leave the rows alone
LEMMA InStepFrame ==
    ASSUME InStep, complete \subseteq complete', Busy' => Busy /\ events'.block = events.block,
           pruning' \in {pruning, NoPruning},
           UNCHANGED <<saved, pruned, canonical, versions, prunedRows>>
    PROVE  InStep'
<1>1. InOrder'
  BY DEF InStep, InOrder
<1>2. Window'
  BY DEF InStep, Window, PruneHeight
<1>3. PruneInStep'
  BY DEF InStep, PruneInStep, PruneHeight, AtHeight
<1>4. RowsInStep'
  BY DEF InStep, RowsInStep
<1> QED
  BY <1>1, <1>2, <1>3, <1>4 DEF InStep

LEMMA IndexInStep ==
    ASSUME TypeInv, InStep, NEW t \in Block, NEW b \in Block, IndexBlock(t, b)
    PROVE  InStep'
<1>1. /\ UNCHANGED <<complete, pruned, canonical, pruning, versions, prunedRows>>
      /\ saved' = saved \cup {b}
      /\ events' = [NoEvents EXCEPT !.stage = "load", !.block = b, !.retry = FALSE]
      /\ b # Root => Parent[b] \in complete /\ Number[b] > Number[canonical]
  BY DEF IndexBlock, StartEvents, tableVars
<1>2. events'.block = b /\ pruning = NoPruning
      /\ \A c \in saved : Number[c] <= Number[canonical] + MaxReorgDepth
  BY <1>1, FetchedWithin DEF IndexBlock, NoEvents
<1>3. InOrder'
  <2>1. CASE b = Root
    <3>1. canonical = Root \/ Root \in complete
      BY DEF InStep, InOrder
    <3>2. Root \notin complete
      BY <2>1 DEF IndexBlock
    <3>3. saved' \subseteq {Root}
      BY <1>1, <2>1, <3>2 DEF InStep, InOrder
    <3> QED
      BY <1>1, <1>2, <2>1, <3>1, <3>2, <3>3 DEF InStep, InOrder
  <2>2. CASE b # Root
    <3>1. Root \in complete
      BY <1>1, <2>2, BlocksTyped DEF InStep, InOrder
    <3> QED
      BY <1>1, <1>2, <2>2, <3>1 DEF InStep, InOrder
  <2> QED
    BY <2>1, <2>2
<1>4. Window'
  BY <1>1, <1>2 DEF Window
<1>5. PruneInStep'
  BY <1>1, <1>2 DEF InStep, PruneInStep, PruneHeight
<1>6. RowsInStep'
  <2>1. saved' \in ParentClosed
    BY <1>1, BlocksTyped DEF InStep, RowsInStep, ParentClosed
  <2>2. IsFiniteSet(saved \cup {b})
    BY FS_AddElement DEF InStep, RowsInStep
  <2> QED
    BY <1>1, <2>1, <2>2 DEF InStep, RowsInStep
<1> QED
  BY <1>3, <1>4, <1>5, <1>6 DEF InStep

LEMMA IndexAgainInStep ==
    ASSUME TypeInv, InStep, NEW t \in Block, IndexBlockAgain(t)
    PROVE  InStep'
<1>1. /\ UNCHANGED <<saved, complete, pruned, canonical, pruning, versions, prunedRows>>
      /\ events' = [NoEvents EXCEPT !.stage = "load", !.block = t, !.retry = FALSE]
      /\ Number[t] > Number[canonical]
  BY DEF IndexBlockAgain, StartEvents, blockVars, tableVars
<1>2. events'.block = t /\ pruning = NoPruning
      /\ \A c \in saved : Number[c] <= Number[canonical] + MaxReorgDepth
  BY <1>1, FetchedWithin DEF IndexBlockAgain, NoEvents
<1>3. InOrder'
  BY <1>1, <1>2 DEF InStep, InOrder
<1>4. Window'
  BY <1>1, <1>2 DEF Window
<1>5. PruneInStep' /\ RowsInStep'
  BY <1>1 DEF InStep, PruneInStep, RowsInStep, PruneHeight, AtHeight
<1> QED
  BY <1>3, <1>4, <1>5 DEF InStep

LEMMA PruneBlocksInStep ==
    ASSUME TypeInv, InStep, PruneBlocks
    PROVE  InStep'
<1> DEFINE at == AtHeight(saved \ pruned, PruneHeight)
<1>1. PICK keep \in saved :
         /\ Number[keep] = PruneHeight
         /\ pruned' = pruned \cup (at \ {keep})
         /\ pruning' = [stage |-> IF at = {keep} THEN "commit" ELSE "rows",
                        keep |-> keep, drop |-> at \ {keep}]
  BY PruneChoice
<1>2. UNCHANGED <<saved, complete, canonical, versions, prunedRows, events>>
  BY DEF PruneBlocks, tableVars
<1>3. /\ at \subseteq AtHeight(saved, PruneHeight)
      /\ \A b \in at : Number[b] = PruneHeight
      /\ pruning'.keep = keep /\ pruning'.drop = at \ {keep}
      /\ PruneHeight' = PruneHeight
  BY <1>1, <1>2 DEF AtHeight, PruneHeight
<1>4. InOrder'
  BY <1>2 DEF InStep, InOrder, Busy
<1>5. Window'
  <2>1. MaxNumber(saved) >= PruneHeight + MaxReorgDepth
    BY DEF PruneBlocks
  <2>2. /\ MaxNumber(saved) \in Nat
        /\ MaxNumber(saved) = 0 \/ \E b \in saved : Number[b] = MaxNumber(saved)
    BY MaxNumberOf, BlocksTyped DEF TypeInv, Bounded
  <2>3. MaxNumber(saved) # 0
    BY <2>1, <2>2, BlocksTyped DEF PruneHeight
  <2>4. \E b \in saved : Number[b] >= PruneHeight + MaxReorgDepth
    BY <2>1, <2>2, <2>3
  <2> QED
    BY <1>2, <1>3, <2>4 DEF InStep, Window, Busy
<1>6. PruneInStep'
  <2>1. \A b \in at : Number[b] > Number[Root] /\ Number[b] <= PruneHeight
    <3>1. Number[Root] <= Number[canonical]
      BY RootLowest, BlocksTyped
    <3>2. PruneHeight > Number[Root] /\ PruneHeight <= PruneHeight
      BY <3>1, BlocksTyped DEF PruneHeight
    <3> QED
      BY <1>3, <3>2, Zenon
  <2>2. \A b \in pruned : Number[b] > Number[Root] /\ Number[b] <= PruneHeight
    BY DEF InStep, PruneInStep
  <2>3. AtHeight(saved, PruneHeight)' = AtHeight(saved, PruneHeight)
    BY <1>2, <1>3 DEF AtHeight
  <2> HIDE DEF at
  <2> QED
    BY <1>1, <1>2, <1>3, <2>1, <2>2, <2>3 DEF PruneInStep
<1>7. RowsInStep'
  BY <1>1, <1>2 DEF InStep, RowsInStep
<1> QED
  BY <1>4, <1>5, <1>6, <1>7 DEF InStep

LEMMA PruneRowsInStep ==
    ASSUME TypeInv, InStep, PruneRows
    PROVE  InStep'
<1>1. /\ UNCHANGED <<saved, complete, pruned, canonical, versions, events>>
      /\ pruning.stage = "rows" /\ pruning' = [pruning EXCEPT !.stage = "commit"]
  BY DEF PruneRows, MarkRows, blockVars
<1>2. pruning # NoPruning
  BY <1>1 DEF NoPruning
<1>3. pruning'.keep = pruning.keep /\ pruning'.drop = pruning.drop
  BY <1>1, <1>2 DEF TypeInv, PruningTyped
<1>4. \A r \in prunedRows' : r \in prunedRows \/ r[2] \in pruning.drop
  BY DEF PruneRows, MarkRows
<1>5. pruning.drop \subseteq pruned
  BY <1>2 DEF InStep, PruneInStep
<1>6. InOrder'
  BY <1>1 DEF InStep, InOrder, Busy
<1>7. Window'
  BY <1>1, <1>2 DEF InStep, Window, Busy, PruneHeight
<1>8. PruneInStep'
  BY <1>1, <1>2, <1>3 DEF InStep, PruneInStep, PruneHeight, AtHeight
<1>9. RowsInStep'
  BY <1>1, <1>4, <1>5 DEF InStep, RowsInStep
<1> QED
  BY <1>6, <1>7, <1>8, <1>9 DEF InStep

\* the canonical block is raised by one height
LEMMA CommitTo ==
    ASSUME TypeInv, InStep, PruneCommit
    PROVE  /\ UNCHANGED <<saved, complete, pruned, versions, prunedRows, events>>
           /\ pruning.stage = "commit" /\ pruning # NoPruning /\ pruning' = NoPruning
           /\ frothy' = {r \in frothy : Number[r[2]] > PruneHeight}
           /\ canonical' = pruning.keep /\ Number[pruning.keep] = PruneHeight
           /\ pruning.keep \in saved
           /\ PruneHeight = Number[canonical] + 1 /\ Number[canonical] \in Nat
<1>1. /\ UNCHANGED <<saved, complete, pruned, versions, prunedRows, events>>
      /\ pruning.stage = "commit" /\ pruning' = NoPruning
      /\ frothy' = {r \in frothy : Number[r[2]] > PruneHeight}
      /\ canonical' = IF PruneHeight >= Number[canonical] THEN pruning.keep ELSE canonical
  BY DEF PruneCommit
<1>2. pruning # NoPruning
  BY <1>1 DEF NoPruning
<1>3. Number[pruning.keep] = PruneHeight /\ pruning.keep \in saved
  BY <1>2 DEF InStep, PruneInStep
<1>4. PruneHeight = Number[canonical] + 1 /\ Number[canonical] \in Nat
  BY BlocksTyped DEF PruneHeight
<1> QED
  BY <1>1, <1>2, <1>3, <1>4

LEMMA CommitInStep ==
    ASSUME TypeInv, InStep, PruneCommit
    PROVE  InStep'
<1>1. /\ UNCHANGED <<saved, complete, pruned, versions, prunedRows, events>>
      /\ pruning # NoPruning /\ pruning' = NoPruning
      /\ canonical' = pruning.keep /\ Number[pruning.keep] = PruneHeight
      /\ pruning.keep \in saved
      /\ PruneHeight = Number[canonical] + 1 /\ Number[canonical] \in Nat
  BY CommitTo
<1>2. InOrder'
  <2>1. ASSUME Busy PROVE Number[events.block] > PruneHeight
    <3>1. Number[events.block] >= PruneHeight + MaxReorgDepth
      BY <1>1, <2>1, RunsAbove
    <3>2. Number[events.block] \in Nat
      BY <2>1, BlocksTyped
    <3> QED
      BY <1>1, <3>1, <3>2, BlocksTyped
  <2> QED
    BY <1>1, <2>1 DEF InStep, InOrder, Busy
<1>3. Window'
  <2>1. \A b \in saved : Number[b] <= Number[canonical] + MaxReorgDepth
                            => Number[b] <= Number[canonical'] + MaxReorgDepth
    BY <1>1, BlocksTyped
  <2> QED
    BY <1>1, <2>1 DEF InStep, Window, Busy
<1>4. PruneInStep'
  <2>1. PruneHeight' = PruneHeight + 1
    BY <1>1 DEF PruneHeight
  <2>2. \A b \in pruned : Number[b] <= PruneHeight + 1
    BY <1>1, BlocksTyped DEF InStep, PruneInStep
  <2> QED
    BY <1>1, <2>1, <2>2 DEF InStep, PruneInStep
<1>5. RowsInStep'
  BY <1>1 DEF InStep, RowsInStep
<1> QED
  BY <1>2, <1>3, <1>4, <1>5 DEF InStep

LEMMA SaveInStep ==
    ASSUME TypeInv, InStep, SaveVersion
    PROVE  InStep'
<1> DEFINE x == Operation_.id
           b == events.block
           v == Updated(Operation_, b, events.got)
<1>1. /\ UNCHANGED <<saved, complete, pruned, canonical, pruning, prunedRows>>
      /\ versions' = [versions EXCEPT ![<<x, b>>] = v]
      /\ events' = [events EXCEPT !.stage = "cache", !.got = v, !.fill = FALSE]
      /\ Busy /\ b \in saved
  BY OperationRuns DEF SaveVersion, blockVars
<1>2. events'.block = events.block
  BY <1>1 DEF TypeInv, EventsTyped
<1>3. \A r \in Entity \X Block : r # <<x, b>> => versions'[r] = versions[r]
  BY <1>1 DEF TypeInv, TypeOK
<1>4. <<x, b>>[2] = b
  OBVIOUS
<1> HIDE DEF x, b, v
<1>5. InOrder' /\ Window' /\ PruneInStep'
  BY <1>1, <1>2 DEF InStep, InOrder, Window, PruneInStep, Busy, PruneHeight, AtHeight
<1>6. RowsInStep'
  BY <1>1, <1>3, <1>4 DEF InStep, RowsInStep
<1> QED
  BY <1>5, <1>6 DEF InStep

LEMMA DeletedRows ==
    ASSUME NEW gone \in SUBSET Block, NEW n, DeleteVersions(gone, n)
    PROVE  /\ Unpruned' = {r \in Unpruned : r[2] \notin gone}
           /\ frothy' = {r \in frothy : r[2] \notin gone}
           /\ prunedRows' = {r \in prunedRows : r[2] \notin gone}
           /\ \A r \in Entity \X Block :
                 versions'[r] = IF r[2] \in gone THEN NoVersion ELSE versions[r]
BY DEF DeleteVersions, Unpruned

\* a reset to a height from the root's on, which a prune job that runs does not notice
LEMMA ResetInStep ==
    ASSUME TypeInv, InStep, NEW n \in Nat, Number[Root] <= n, ResetWatcherToBlock(n), ~Busy',
           \/ pruning' = NoPruning
           \/ pruning' = pruning /\ (pruning # NoPruning => n >= PruneHeight + MaxReorgDepth)
    PROVE  InStep'
<1>1. /\ saved' = saved \ Above(n) /\ complete' = complete \ Above(n)
      /\ pruned' = pruned \ Above(n)
      /\ canonical' \in Block
      /\ Number[canonical] <= n => canonical' = canonical
      /\ Number[canonical] > n => canonical' \in saved /\ Number[canonical'] = n
      /\ DeleteVersions(Above(n), n) /\ Above(n) \in SUBSET Block
  BY ResetKeeps
<1>2. /\ prunedRows' = {r \in prunedRows : r[2] \notin Above(n)}
      /\ \A r \in Entity \X Block :
            versions'[r] = IF r[2] \in Above(n) THEN NoVersion ELSE versions[r]
  BY <1>1, DeletedRows
<1>3. \A c \in saved : Number[c] <= n => c \in saved'
  BY <1>1, BlocksTyped DEF Above
<1>4. \A c \in Block : c \notin Above(n) => Number[c] <= n
  BY NumberTyped DEF Above
<1>5. canonical' \in saved' \cup {Root}
  <2>1. CASE Number[canonical] <= n
    BY <1>1, <1>3, <2>1 DEF InStep, InOrder
  <2>2. CASE Number[canonical] > n
    <3>1. canonical' \in saved /\ Number[canonical'] <= n
      BY <1>1, <2>2
    <3> QED
      BY <1>3, <3>1
  <2> QED
    BY <2>1, <2>2, BlocksTyped
<1>6. InOrder'
  <2>1. Root \in complete => Root \in complete'
    BY <1>1, BlocksTyped DEF Above
  <2> QED
    BY <1>1, <1>5, <2>1 DEF InStep, InOrder
<1>7. ASSUME pruning' # NoPruning
      PROVE  /\ pruning' = pruning /\ pruning # NoPruning
             /\ n >= PruneHeight + MaxReorgDepth /\ n >= PruneHeight
             /\ canonical' = canonical /\ PruneHeight' = PruneHeight
  <2>1. pruning' = pruning /\ pruning # NoPruning /\ n >= PruneHeight + MaxReorgDepth
    BY <1>7
  <2>2. n >= PruneHeight /\ Number[canonical] <= n
    BY <2>1, BlocksTyped DEF PruneHeight
  <2> QED
    BY <1>1, <2>1, <2>2 DEF PruneHeight
<1>8. Window'
  <2>1. ASSUME pruning' # NoPruning
        PROVE  \E b \in saved' : Number[b] >= PruneHeight' + MaxReorgDepth
    <3>1. PICK b \in AtHeight(saved \ pruned, n) : TRUE
      BY DEF ResetWatcherToBlock, CanResetTo
    <3>2. b \in saved /\ Number[b] = n
      BY DEF AtHeight
    <3>3. b \in saved' /\ Number[b] >= PruneHeight' + MaxReorgDepth
      BY <1>3, <1>7, <2>1, <3>2
    <3> QED
      BY <3>3
  <2> QED
    BY <2>1 DEF Window
<1>9. PruneInStep'
  <2>1. ASSUME pruning' # NoPruning
        PROVE  /\ Number[pruning'.keep] = PruneHeight' /\ pruning'.keep \in saved'
               /\ pruning'.drop \subseteq AtHeight(saved', PruneHeight') \cap pruned'
    <3>1. /\ Number[pruning.keep] = PruneHeight /\ pruning.keep \in saved
          /\ pruning.drop \subseteq AtHeight(saved, PruneHeight) \cap pruned
      BY <1>7, <2>1 DEF InStep, PruneInStep
    <3>2. pruning.keep \in saved'
      BY <1>3, <1>7, <2>1, <3>1
    <3>3. ASSUME NEW c \in pruning.drop
          PROVE  c \in saved' /\ Number[c] = PruneHeight /\ c \in pruned'
      <4>1. c \in saved /\ Number[c] = PruneHeight /\ c \in pruned /\ Number[c] <= n
        BY <1>7, <2>1, <3>1, <3>3 DEF AtHeight
      <4>2. c \notin Above(n)
        BY <4>1, BlocksTyped DEF Above
      <4> QED
        BY <1>1, <4>1, <4>2
    <3> QED
      BY <1>7, <2>1, <3>1, <3>2, <3>3 DEF AtHeight
  <2>2. ASSUME NEW b \in pruned'
        PROVE  Number[b] > Number[Root] /\ Number[b] <= PruneHeight'
    <3>1. b \in pruned /\ b \in Block /\ Number[b] <= n /\ Number[b] \in Nat
      BY <1>1, <1>4, <2>2, BlocksTyped
    <3>2. Number[b] > Number[Root] /\ Number[b] <= PruneHeight
      BY <3>1 DEF InStep, PruneInStep
    <3>3. Number[b] <= Number[canonical'] + 1
      BY <1>1, <3>1, <3>2, BlocksTyped DEF PruneHeight
    <3> QED
      BY <3>2, <3>3 DEF PruneHeight
  <2> QED
    BY <2>1, <2>2 DEF PruneInStep, AtHeight
<1>10. RowsInStep'
  <2>1. saved' \in ParentClosed
    <3>1. saved \in ParentClosed
      BY DEF InStep, RowsInStep
    <3>2. ASSUME NEW b \in saved' \ {Root}
          PROVE  Parent[b] \in saved'
      <4>1. b \in saved /\ b \in Block /\ Number[b] <= n
        BY <1>1, <1>4, BlocksTyped
      <4>2. Parent[b] \in saved /\ Number[Parent[b]] < Number[b]
        BY <3>1, <4>1, BlockTreeAssumption DEF ParentClosed
      <4>3. Number[Parent[b]] <= n
        BY <4>1, <4>2, BlocksTyped
      <4> QED
        BY <1>3, <4>2, <4>3
    <3> QED
      BY <1>1, <3>1, <3>2 DEF ParentClosed
  <2>2. \A r \in Entity \X Block : versions'[r] # NoVersion => r[2] \in saved'
    BY <1>1, <1>2 DEF InStep, RowsInStep
  <2>3. \A r \in prunedRows' : r[2] \in pruned'
    BY <1>1, <1>2 DEF InStep, RowsInStep
  <2>4. IsFiniteSet(saved \ Above(n))
    BY FS_Subset DEF InStep, RowsInStep
  <2> QED
    BY <1>1, <2>1, <2>2, <2>3, <2>4 DEF RowsInStep
<1> QED
  BY <1>6, <1>8, <1>9, <1>10 DEF InStep

\* the reset after a retry is above the canonical block, and above what is pruned
LEMMA ResetAbove ==
    ASSUME TypeInv, InStep, ResetAfterRetry
    PROVE  /\ ResetWatcherToBlock(Number[events.block]) /\ events' = NoEvents /\ pruning' = pruning
           /\ events.block \in saved /\ Number[events.block] \in Nat
           /\ Number[canonical] <= Number[events.block]
           /\ pruning # NoPruning => Number[events.block] >= PruneHeight + MaxReorgDepth
           /\ Number[Root] <= Number[events.block]
<1>1. Busy /\ ResetWatcherToBlock(Number[events.block]) /\ events' = NoEvents /\ pruning' = pruning
  BY DEF ResetAfterRetry, FinishEvents, Busy
<1>2. events.block \in saved /\ Number[events.block] \in Nat
  BY <1>1, BlocksTyped
<1>3. Number[Root] <= Number[events.block]
  BY <1>2, RootLowest, BlocksTyped
<1> QED
  BY <1>1, <1>2, <1>3, RunsAbove

LEMMA RestartInStep ==
    ASSUME TypeInv, InStep, Restart
    PROVE  InStep'
<1>1. /\ ResetWatcherToBlock(Number[processed]) /\ events' = NoEvents /\ pruning' = NoPruning
      /\ processed \in Block
  BY DEF Restart, TypeInv, TypeOK
<1>2. Number[processed] \in Nat /\ Number[Root] <= Number[processed]
  BY <1>1, RootLowest, NumberTyped, BlocksTyped
<1>3. ~Busy'
  BY <1>1 DEF Busy, NoEvents
<1> QED
  BY <1>1, <1>2, <1>3, ResetInStep

LEMMA FailInStep ==
    ASSUME TypeInv, InStep, Busy, ClearProcessedBlockData, Fail,
           UNCHANGED <<blockVars, hooked, pruning>>
    PROVE  InStep'
<1>1. DeleteVersions({events.block}, Number[events.block]) /\ {events.block} \in SUBSET Block
  BY BlocksTyped DEF ClearProcessedBlockData
<1>2. /\ prunedRows' = {r \in prunedRows : r[2] \notin {events.block}}
      /\ \A r \in Entity \X Block :
            versions'[r] = IF r[2] \in {events.block} THEN NoVersion ELSE versions[r]
  BY <1>1 DEF DeleteVersions, Unpruned
<1>3. UNCHANGED <<saved, complete, pruned, canonical, pruning>> /\ events'.block = events.block
  BY DEF Fail, NoEvents, blockVars
<1>4. InOrder' /\ Window' /\ PruneInStep'
  BY <1>3 DEF InStep, InOrder, Window, PruneInStep, PruneHeight, AtHeight
<1>5. RowsInStep'
  BY <1>2, <1>3 DEF InStep, RowsInStep
<1> QED
  BY <1>4, <1>5 DEF InStep

\* the steps of the event worker that leave the rows alone
LEMMA WorkerKeeps ==
    ASSUME TypeInv, \/ ReadCache \/ ReadDatabase \/ SkipRemove \/ CacheVersion
                    \/ CompleteBlock \/ UpdateProcessed \/ RetryEvents
    PROVE  /\ UNCHANGED <<saved, pruned, canonical, pruning, versions, prunedRows, frothy, latest>>
           /\ complete \subseteq complete'
           /\ Busy' => Busy /\ events'.block = events.block
<1>1. UNCHANGED <<saved, pruned, canonical, pruning, versions, prunedRows, frothy, latest>>
  BY DEF ReadCache, ReadDatabase, SkipRemove, CacheVersion, CompleteBlock, UpdateProcessed,
     RetryEvents, blockVars, tableVars
<1>2. complete \subseteq complete'
  BY DEF ReadCache, ReadDatabase, SkipRemove, CacheVersion, CompleteBlock, UpdateProcessed,
     RetryEvents, blockVars
<1>3. Busy
  BY DEF ReadCache, ReadDatabase, SkipRemove, CacheVersion, CompleteBlock, UpdateProcessed,
     RetryEvents, Busy, AtOperation, HandlersDone
<1>4. events' = NoEvents \/ events'.block = events.block
  BY DEF ReadCache, ReadDatabase, SkipRemove, CacheVersion, CompleteBlock,
     UpdateProcessed, RetryEvents, Loaded, NextOperation, FinishEvents, StartEvents, NoEvents,
     TypeInv, EventsTyped
<1>5. Busy' => Busy /\ events'.block = events.block
  BY <1>3, <1>4 DEF Busy, NoEvents
<1> QED
  BY <1>1, <1>2, <1>5

LEMMA FailureClears ==
    ASSUME HandlerFails \/ StatusFails
    PROVE  Busy /\ ClearProcessedBlockData /\ Fail /\ UNCHANGED <<blockVars, hooked, pruning>>
BY DEF HandlerFails, StatusFails, HandlersDone, AtOperation, Busy

LEMMA StepInStep == StepInv /\ [Next]_vars => StepInv'
<1> SUFFICES ASSUME TypeInv, InStep, [Next]_vars PROVE InStep'
  BY TypeStep DEF StepInv
<1>1. ASSUME NEW t \in Block, NEW b \in Block, IndexBlock(t, b) PROVE InStep'
  BY <1>1, IndexInStep
<1>2. ASSUME NEW t \in Block, IndexBlockAgain(t) PROVE InStep'
  BY <1>2, IndexAgainInStep
<1>3. CASE (\E c \in Block : RunHooks(c)) \/ UNCHANGED vars \/ PruneFails
  <2>1. UNCHANGED <<blockVars, tableVars, events>> /\ pruning' \in {pruning, NoPruning}
    BY <1>3 DEF RunHooks, PruneFails, vars
  <2> QED
    BY <2>1, InStepFrame DEF Busy, blockVars, tableVars
<1>4. CASE PruneBlocks \/ PruneRows \/ PruneCommit
  BY <1>4, PruneBlocksInStep, PruneRowsInStep, CommitInStep
<1>5. CASE ReadCache \/ ReadDatabase \/ SkipRemove \/ CacheVersion \/ CompleteBlock
           \/ UpdateProcessed \/ RetryEvents
  BY <1>5, WorkerKeeps, InStepFrame
<1>6. CASE SaveVersion
  BY <1>6, SaveInStep
<1>7. CASE ResetAfterRetry
  <2>1. ~Busy'
    BY <1>7, ResetAbove DEF Busy, NoEvents
  <2>2. PICK n \in Nat : n = Number[events.block]
    BY <1>7, ResetAbove
  <2> QED
    BY <1>7, <2>1, <2>2, ResetAbove, ResetInStep
<1>8. CASE HandlerFails \/ StatusFails
  BY <1>8, FailureClears, FailInStep
<1>9. CASE Restart
  BY <1>9, RestartInStep
<1> QED
  BY <1>1, <1>2, <1>3, <1>4, <1>5, <1>6, <1>7, <1>8, <1>9 DEF Next, EventWorkerStep

-------------------------------------------------------------------------------
(* Pruned rows.                                                              *)

\* the block of the job that runs is not pruned
LEMMA RunsUnpruned ==
    ASSUME TypeInv, InStep, PruneFacts, Busy
    PROVE  events.block \notin pruned
<1> DEFINE b == events.block
<1>1. b \in saved /\ Number[b] \in Nat /\ Number[canonical] \in Nat /\ MaxReorgDepth \in Nat \ {0}
      /\ PruneHeight = Number[canonical] + 1
  BY BlocksTyped DEF PruneHeight
<1> SUFFICES ASSUME b \in pruned PROVE FALSE
  OBVIOUS
<1>2. Number[b] > Number[Root]
  BY DEF InStep, PruneInStep
<1>3. b # Root
  BY <1>2, BlocksTyped
<1>4. ~(Number[b] <= Number[canonical])
  BY <1>1, <1>3 DEF InStep, InOrder
<1>5. b \in pruning.drop
  BY <1>4 DEF PruneFacts, PrunedBelow
<1>6. pruning # NoPruning
  BY <1>5 DEF NoPruning
<1>7. Number[b] = PruneHeight
  BY <1>5, <1>6 DEF InStep, PruneInStep, AtHeight
<1>8. Number[b] >= PruneHeight + MaxReorgDepth
  BY <1>6, RunsAbove
<1> QED
  BY <1>1, <1>7, <1>8

LEMMA InitPruned == Init => PruneInv
<1> SUFFICES ASSUME Init PROVE PruneFacts
  BY InitInStep DEF PruneInv
<1>1. FrothyListed /\ RowsMarked
  BY DEF Init, FrothyListed, RowsMarked, Unpruned
<1> QED
  BY <1>1 DEF Init, PruneFacts, PrunedBelow

LEMMA PrunedFrame ==
    ASSUME PruneFacts, UNCHANGED <<pruned, canonical, pruning, versions, prunedRows, frothy>>
    PROVE  PruneFacts'
BY DEF PruneFacts, PrunedBelow, FrothyListed, RowsMarked, Unpruned

LEMMA PruneBlocksPruned ==
    ASSUME TypeInv, InStep, PruneFacts, PruneBlocks
    PROVE  PruneFacts'
<1> DEFINE at == AtHeight(saved \ pruned, PruneHeight)
<1>1. PICK keep \in saved :
         /\ Number[keep] = PruneHeight
         /\ pruned' = pruned \cup (at \ {keep})
         /\ pruning' = [stage |-> IF at = {keep} THEN "commit" ELSE "rows",
                        keep |-> keep, drop |-> at \ {keep}]
  BY PruneChoice
<1>2. UNCHANGED <<canonical, versions, prunedRows, frothy>>
  BY DEF PruneBlocks, tableVars
<1>3. pruning = NoPruning /\ pruning.drop = {} /\ pruning.stage # "rows"
  BY DEF PruneBlocks, TypeInv, PruningTyped, NoPruning
<1> HIDE DEF at
<1>4. PrunedBelow'
  BY <1>1, <1>2, <1>3 DEF PruneFacts, PrunedBelow
<1>5. Unpruned' = Unpruned
  BY <1>2 DEF Unpruned
<1>6. FrothyListed'
  BY <1>2, <1>5 DEF PruneFacts, FrothyListed
<1>7. RowsMarked'
  BY <1>1, <1>3, <1>5 DEF PruneFacts, RowsMarked
<1> QED
  BY <1>4, <1>6, <1>7 DEF PruneFacts

\* every row that is to be marked is found by way of the frothy table
LEMMA RowsPruned ==
    ASSUME TypeInv, InStep, PruneFacts, PruneRows
    PROVE  /\ PruneFacts'
           /\ \A r \in Unpruned' : r \in Unpruned /\ r[2] \notin pruned
<1> DEFINE ids == {r[1] : r \in {f \in frothy : Number[f[2]] = PruneHeight}}
<1>1. /\ UNCHANGED <<pruned, canonical, versions, frothy>>
      /\ pruning.stage = "rows" /\ pruning' = [pruning EXCEPT !.stage = "commit"]
      /\ prunedRows' = prunedRows \cup {r \in Unpruned : r[1] \in ids /\ r[2] \in pruning.drop}
  BY DEF PruneRows, MarkRows, blockVars
<1>2. pruning # NoPruning
  BY <1>1 DEF NoPruning
<1>3. pruning'.drop = pruning.drop
  BY <1>1, <1>2 DEF TypeInv, PruningTyped
<1>4. ASSUME NEW r \in Unpruned'
      PROVE  r \in Unpruned /\ r[2] \notin pruned
  <2>1. r \in Unpruned /\ r \notin prunedRows'
    BY <1>1 DEF Unpruned
  <2>2. ASSUME r[2] \in pruned PROVE FALSE
    <3>1. r[2] \in pruning.drop
      BY <2>1, <2>2 DEF PruneFacts, RowsMarked
    <3>2. Number[r[2]] = PruneHeight
      BY <1>2, <3>1 DEF InStep, PruneInStep, AtHeight
    <3>3. r \in frothy
      BY <2>1, <3>2, BlocksTyped DEF PruneFacts, FrothyListed, PruneHeight
    <3>4. r[1] \in ids
      BY <3>2, <3>3
    <3> QED
      BY <1>1, <2>1, <3>1, <3>4
  <2> QED
    BY <2>1, <2>2
<1>5. PrunedBelow'
  BY <1>1, <1>3 DEF PruneFacts, PrunedBelow
<1>6. FrothyListed'
  BY <1>1, <1>4 DEF PruneFacts, FrothyListed
<1>7. RowsMarked'
  BY <1>1, <1>4 DEF RowsMarked
<1> QED
  BY <1>4, <1>5, <1>6, <1>7 DEF PruneFacts

LEMMA CommitPruned ==
    ASSUME TypeInv, InStep, PruneFacts, PruneCommit
    PROVE  PruneFacts'
<1>1. /\ UNCHANGED <<saved, complete, pruned, versions, prunedRows, events>>
      /\ pruning.stage = "commit" /\ pruning # NoPruning /\ pruning' = NoPruning
      /\ frothy' = {r \in frothy : Number[r[2]] > PruneHeight}
      /\ canonical' = pruning.keep /\ Number[pruning.keep] = PruneHeight
      /\ PruneHeight = Number[canonical] + 1 /\ Number[canonical] \in Nat
  BY CommitTo
<1>2. PrunedBelow'
  BY <1>1 DEF InStep, PruneInStep, PrunedBelow
<1>3. Unpruned' = Unpruned
  BY <1>1 DEF Unpruned
<1>4. FrothyListed'
  <2>1. ASSUME NEW r \in Unpruned, Number[r[2]] > PruneHeight
        PROVE  r \in frothy'
    <3>1. Number[r[2]] \in Nat
      BY BlocksTyped, NumberTyped
    <3>2. r \in frothy
      BY <1>1, <2>1, <3>1 DEF PruneFacts, FrothyListed
    <3> QED
      BY <1>1, <2>1, <3>2
  <2> QED
    BY <1>1, <1>3, <2>1 DEF FrothyListed
<1>5. RowsMarked'
  BY <1>1, <1>3 DEF PruneFacts, RowsMarked
<1> QED
  BY <1>2, <1>4, <1>5 DEF PruneFacts

LEMMA SavePruned ==
    ASSUME TypeInv, InStep, PruneFacts, SaveVersion
    PROVE  /\ PruneFacts'
           /\ events.block \notin pruned
<1> DEFINE x == Operation_.id
           b == events.block
           v == Updated(Operation_, b, events.got)
<1>1. /\ UNCHANGED <<pruned, canonical, pruning, prunedRows>>
      /\ versions' = [versions EXCEPT ![<<x, b>>] = v]
      /\ frothy' = frothy \cup {<<x, b>>}
      /\ Busy
  BY OperationRuns DEF SaveVersion, blockVars
<1>2. b \notin pruned
  BY <1>1, RunsUnpruned
<1>3. ASSUME NEW r \in Unpruned', r # <<x, b>>
      PROVE  r \in Unpruned
  BY <1>1, <1>3 DEF Unpruned, TypeInv, TypeOK
<1>4. <<x, b>>[2] = b
  OBVIOUS
<1> HIDE DEF x, b, v
<1>5. PrunedBelow'
  BY <1>1 DEF PruneFacts, PrunedBelow
<1>6. FrothyListed'
  <2>1. ASSUME NEW r \in Unpruned', Number[r[2]] > Number[canonical]
        PROVE  r \in frothy'
    BY <1>1, <1>3, <2>1 DEF PruneFacts, FrothyListed
  <2> QED
    BY <1>1, <2>1 DEF FrothyListed
<1>7. RowsMarked'
  <2>1. ASSUME NEW r \in Unpruned', r[2] \in pruned
        PROVE  pruning.stage = "rows" /\ r[2] \in pruning.drop
    <3>1. r # <<x, b>>
      BY <1>2, <1>4, <2>1
    <3> QED
      BY <1>3, <2>1, <3>1 DEF PruneFacts, RowsMarked
  <2> QED
    BY <1>1, <2>1 DEF RowsMarked
<1> QED
  BY <1>2, <1>5, <1>6, <1>7 DEF PruneFacts, b

LEMMA DeletedPruned ==
    ASSUME PruneFacts, NEW gone \in SUBSET Block,
           Unpruned' = {r \in Unpruned : r[2] \notin gone},
           frothy' = {r \in frothy : r[2] \notin gone},
           UNCHANGED <<canonical, pruning>>, pruned' \subseteq pruned
    PROVE  PruneFacts'
BY DEF PruneFacts, PrunedBelow, FrothyListed, RowsMarked

LEMMA ResetPruned ==
    ASSUME TypeInv, InStep, PruneFacts, ResetAfterRetry
    PROVE  PruneFacts'
<1>1. PICK n \in Nat : n = Number[events.block]
  BY ResetAbove
<1>2. ResetWatcherToBlock(n) /\ Number[canonical] <= n /\ pruning' = pruning
  BY <1>1, ResetAbove
<1>3. /\ pruned' = pruned \ Above(n) /\ canonical' = canonical
      /\ DeleteVersions(Above(n), n) /\ Above(n) \in SUBSET Block
  BY <1>2, ResetKeeps
<1>4. /\ Unpruned' = {r \in Unpruned : r[2] \notin Above(n)}
      /\ frothy' = {r \in frothy : r[2] \notin Above(n)}
  BY <1>3, DeletedRows
<1>5. pruned' \subseteq pruned /\ UNCHANGED <<canonical, pruning>>
  BY <1>2, <1>3
<1> QED
  BY <1>3, <1>4, <1>5, DeletedPruned

LEMMA FailPruned ==
    ASSUME TypeInv, PruneFacts, Busy, ClearProcessedBlockData, Fail,
           UNCHANGED <<blockVars, hooked, pruning>>
    PROVE  PruneFacts'
<1>1. DeleteVersions({events.block}, Number[events.block])
      /\ {events.block} \in SUBSET Block
  BY BlocksTyped DEF ClearProcessedBlockData
<1>2. Unpruned' = {r \in Unpruned : r[2] \notin {events.block}}
      /\ frothy' = {r \in frothy : r[2] \notin {events.block}}
  BY <1>1 DEF DeleteVersions, Unpruned
<1>3. pruned' \subseteq pruned /\ UNCHANGED <<canonical, pruning>>
  BY DEF blockVars
<1> QED
  BY <1>1, <1>2, <1>3, DeletedPruned, Zenon

LEMMA PruneStep == PruneInv /\ [Next]_vars => PruneInv'
<1> SUFFICES ASSUME PruneInv, [Next]_vars, Unbroken' PROVE PruneFacts'
  BY StepInStep DEF PruneInv
<1>1. TypeInv /\ InStep /\ PruneFacts
  BY FaultsGrow DEF PruneInv, StepInv, Unbroken
<1>2. CASE \/ \E t, b \in Block : IndexBlock(t, b)
           \/ \E t \in Block : IndexBlockAgain(t)
           \/ \E c \in Block : RunHooks(c)
           \/ UNCHANGED vars
  <2>1. UNCHANGED <<pruned, canonical, pruning, versions, prunedRows, frothy>>
    BY <1>2 DEF IndexBlock, IndexBlockAgain, RunHooks, vars, blockVars, tableVars
  <2> QED
    BY <1>1, <2>1, PrunedFrame
<1>3. CASE PruneBlocks \/ PruneRows \/ PruneCommit
  BY <1>1, <1>3, PruneBlocksPruned, RowsPruned, CommitPruned
<1>4. CASE ReadCache \/ ReadDatabase \/ SkipRemove \/ CacheVersion \/ CompleteBlock
           \/ UpdateProcessed \/ RetryEvents
  BY <1>1, <1>4, WorkerKeeps, PrunedFrame
<1>5. CASE SaveVersion \/ ResetAfterRetry
  BY <1>1, <1>5, SavePruned, ResetPruned
<1>6. CASE HandlerFails \/ StatusFails
  BY <1>1, <1>6, FailureClears, FailPruned
<1>7. CASE PruneFails \/ Restart
  BY <1>7 DEF PruneFails, Restart, Faulty, Unbroken
<1> QED
  BY <1>2, <1>3, <1>4, <1>5, <1>6, <1>7 DEF Next, EventWorkerStep

LEMMA PrunedMarked == PruneInv => PrunedRowsMarked
BY DEF PruneInv, StepInv, TypeInv, PruningTyped, PruneFacts, RowsMarked, PrunedRowsMarked, Quiet, Unbroken, NoPruning

\* The types of the state; with them, the block of every job is a row of the table, the
\* processed block is complete, and the values are histories of blocks.
THEOREM EntityTypes == Spec => []TypeOK
<1>1. TypeInv => TypeOK
  BY DEF TypeInv
<1> QED
  BY <1>1, InitTyped, TypeStep, PTL DEF Spec

\* Whatever branches are processed, and however often handlers and the steps after them
\* fail in between, once a prune job has ended no version of a block it pruned is left to
\* the queries below the frothy region (pruneEntities, pruneFrothyEntities).
THEOREM PrunedVersionsMarked == Spec => []PrunedRowsMarked
BY InitPruned, PruneStep, PrunedMarked, PTL DEF Spec

-------------------------------------------------------------------------------
(* The latest-entity table.                                                  *)

LEMMA EntryTyped ==
    ASSUME TypeInv, NEW x \in Entity, latest[x] # NoVersion
    PROVE  latest[x] \in Entry /\ latest[x].block \in Block
BY DEF TypeInv, TypeOK, Entry

\* while no handler runs, each entry is that of its row
LEMMA EntriesSettled ==
    ASSUME TypeInv, EntriesStored, events.stage \in {"idle", "status", "reset"} \/ HandlersDone
    PROVE  \A x \in Entity : latest[x] # NoVersion =>
               versions[<<x, latest[x].block>>] = latest[x].value
<1> SUFFICES ASSUME NEW x \in Entity, latest[x] # NoVersion,
                    latest[x].block = events.block, x \in ToSave
             PROVE  FALSE
  BY DEF EntriesStored
<1>1. events.block \in Block
  BY EntryTyped
<1>2. PICK j \in DOMAIN Operations[events.block] :
         \/ events.stage \in {"load", "save"} /\ j >= events.pc
         \/ events.stage = "cache" /\ j > events.pc
         \/ events.stage = "failed"
  BY DEF ToSave
<1>3. HandlersDone /\ j >= events.pc
  BY <1>2 DEF HandlersDone
<1>4. Operations[events.block] \in Seq(Operation)
  BY <1>1, EntityStoreAssumption
<1>5. j \in Nat /\ j <= Len(Operations[events.block]) /\ Len(Operations[events.block]) \in Nat
  BY <1>4, LenProperties
<1>6. events.pc \in Nat
  BY DEF TypeInv, EventsTyped
<1> QED
  BY <1>3, <1>5, <1>6 DEF HandlersDone

\* the steps that leave the table and the rows alone
LEMMA EntriesFrame ==
    ASSUME EntriesStored, UNCHANGED <<latest, versions, pruned, pruning>>, faults \subseteq faults',
           events'.stage = "failed" => events'.pc = 1,
           \/ \A x \in Entity : latest[x] # NoVersion =>
                  versions[<<x, latest[x].block>>] = latest[x].value
           \/ events'.block = events.block /\ ToSave \subseteq ToSave'
    PROVE  EntriesStored'
<1>1. ASSUME NEW x \in Entity, latest[x] # NoVersion
      PROVE  \/ versions[<<x, latest[x].block>>] = latest[x].value
             \/ "handler" \in faults' /\ latest[x].block = events'.block /\ x \in ToSave'
  BY <1>1 DEF EntriesStored
<1>2. ASSUME NEW x \in Entity, latest'[x] # NoVersion
      PROVE  /\ x \in Saves(latest'[x].block)
             /\ latest'[x].block \in pruned' =>
                   pruning'.stage = "rows" /\ latest'[x].block \in pruning'.drop
             /\ \/ versions'[<<x, latest'[x].block>>] = latest'[x].value
                \/ "handler" \in faults' /\ latest'[x].block = events'.block /\ x \in ToSave'
  BY <1>1, <1>2 DEF EntriesStored
<1>3. \A x \in Entity, b \in Block : versions'[<<x, b>>] # NoVersion => x \in Saves(b)
  BY DEF EntriesStored
<1> QED
  BY <1>2, <1>3 DEF EntriesStored, Saves

LEMMA InitStored == Init => LatestInv
<1> SUFFICES ASSUME Init PROVE EntriesStored
  BY InitPruned DEF LatestInv
<1> QED
  BY DEF Init, EntriesStored, NoEvents

LEMMA PruneBlocksStored ==
    ASSUME TypeInv, EntriesStored, PruneBlocks
    PROVE  EntriesStored'
<1> DEFINE at == AtHeight(saved \ pruned, PruneHeight)
<1>1. PICK keep \in saved :
         /\ Number[keep] = PruneHeight
         /\ pruned' = pruned \cup (at \ {keep})
         /\ pruning' = [stage |-> IF at = {keep} THEN "commit" ELSE "rows",
                        keep |-> keep, drop |-> at \ {keep}]
  BY PruneChoice
<1>2. UNCHANGED <<versions, latest, events, faults>> /\ pruning.stage = "idle"
  BY DEF PruneBlocks, tableVars
<1>3. ToSave' = ToSave
  BY <1>2 DEF ToSave
<1> HIDE DEF at
<1>4. ASSUME NEW b, b \notin pruned, b \in pruned'
      PROVE  pruning'.stage = "rows" /\ b \in pruning'.drop
  BY <1>1, <1>4
<1>5. ASSUME NEW x \in Entity, latest[x] # NoVersion
      PROVE  latest[x].block \notin pruned
  BY <1>2, <1>5 DEF EntriesStored
<1> QED
  BY <1>2, <1>3, <1>4, <1>5 DEF EntriesStored

LEMMA PruneRowsStored ==
    ASSUME TypeInv, InStep, PruneFacts, EntriesStored, PruneRows
    PROVE  EntriesStored'
<1> DEFINE xs == {x \in Entity : latest[x] # NoVersion /\ latest[x].block \in pruning.drop}
<1>1. /\ UNCHANGED <<versions, pruned, events, faults>>
      /\ CanonicalizeLatest(xs, PruneHeight)
  BY DEF PruneRows, MarkRows, blockVars
<1>2. /\ xs \in SUBSET Entity /\ PruneHeight \in Nat
      /\ latest \in [Entity -> Entry \cup {NoVersion}]
      /\ versions' \in [Entity \X Block -> Value \cup {NoVersion}]
  BY <1>1, BlocksTyped DEF TypeInv, TypeOK
<1>3. /\ \A x \in Entity \ xs : latest'[x] = latest[x]
      /\ \A x \in xs : \/ latest'[x] = NoVersion
                       \/ \E b \in Block : /\ <<x, b>> \in Unpruned'
                                           /\ Number[b] <= PruneHeight
                                           /\ latest'[x] = [block |-> b, value |-> versions'[<<x, b>>]]
  <2> HIDE DEF xs
  <2> QED
    BY <1>1, <1>2, Canonicalized
<1>4. ToSave' = ToSave
  BY <1>1 DEF ToSave
<1>5. ASSUME NEW x \in Entity, latest'[x] # NoVersion
      PROVE  /\ x \in Saves(latest'[x].block)
             /\ latest'[x].block \notin pruned
             /\ \/ versions'[<<x, latest'[x].block>>] = latest'[x].value
                \/ "handler" \in faults' /\ latest'[x].block = events'.block /\ x \in ToSave'
  <2>1. CASE x \in xs
    <3>1. PICK b \in Block : /\ <<x, b>> \in Unpruned'
                             /\ latest'[x] = [block |-> b, value |-> versions'[<<x, b>>]]
      BY <1>3, <1>5, <2>1
    <3>2. <<x, b>> \in Unpruned /\ <<x, b>>[2] \notin pruned
      BY <3>1, RowsPruned
    <3>3. x \in Saves(b)
      BY <3>2 DEF Unpruned, EntriesStored
    <3> QED
      BY <3>1, <3>2, <3>3
  <2>2. CASE x \notin xs
    <3>1. latest'[x] = latest[x] /\ latest[x] # NoVersion
      BY <1>3, <1>5, <2>2
    <3>2. latest[x].block \notin pruned
      BY <2>2, <3>1 DEF EntriesStored
    <3> QED
      BY <1>1, <1>4, <3>1, <3>2 DEF EntriesStored
  <2> QED
    BY <2>1, <2>2
<1>6. (\A x \in Entity, b \in Block : versions'[<<x, b>>] # NoVersion => x \in Saves(b))
      /\ (events'.stage = "failed" => events'.pc = 1)
  BY <1>1 DEF EntriesStored
<1> HIDE DEF xs
<1> QED
  BY <1>1, <1>5, <1>6 DEF EntriesStored, Saves

LEMMA CommitStored ==
    ASSUME TypeInv, EntriesStored, PruneCommit
    PROVE  EntriesStored'
<1>1. UNCHANGED <<versions, latest, pruned, events, faults>> /\ pruning.stage = "commit"
  BY DEF PruneCommit
<1>2. ToSave' = ToSave
  BY <1>1 DEF ToSave
<1> QED
  BY <1>1, <1>2 DEF EntriesStored

\* what a deletion of versions leaves in the table
LEMMA EntriesDeleted ==
    ASSUME TypeInv, PruneFacts, EntriesStored, NEW gone \in SUBSET Block, NEW n \in Nat,
           DeleteVersions(gone, n), pruned' \subseteq pruned, pruning' = pruning
    PROVE  /\ \A x \in Entity : latest'[x] # NoVersion =>
                 /\ x \in Saves(latest'[x].block)
                 /\ latest'[x].block \in pruned' =>
                       pruning'.stage = "rows" /\ latest'[x].block \in pruning'.drop
                 /\ \/ versions'[<<x, latest'[x].block>>] = latest'[x].value
                    \/ latest'[x] = latest[x] /\ Number[latest[x].block] <= n
           /\ \A x \in Entity, b \in Block : versions'[<<x, b>>] # NoVersion => x \in Saves(b)
<1> DEFINE xs == LatestAbove(n)
<1>1. /\ versions' \in [Entity \X Block -> Value \cup {NoVersion}]
      /\ \A x \in Entity, b \in Block :
            versions'[<<x, b>>] = IF b \in gone THEN NoVersion ELSE versions[<<x, b>>]
  BY Deleted DEF TypeInv
<1>2. CanonicalizeLatest(xs, n) /\ xs \in SUBSET Entity
  BY DEF DeleteVersions, LatestAbove
<1>3. latest \in [Entity -> Entry \cup {NoVersion}]
  BY DEF TypeInv, TypeOK
<1>4. /\ \A x \in Entity \ xs : latest'[x] = latest[x]
      /\ \A x \in xs : \/ latest'[x] = NoVersion
                       \/ \E b \in Block : /\ <<x, b>> \in Unpruned'
                                           /\ Number[b] <= n
                                           /\ latest'[x] = [block |-> b, value |-> versions'[<<x, b>>]]
  <2> HIDE DEF xs
  <2> QED
    BY <1>1, <1>2, <1>3, Canonicalized
<1>5. \A x \in Entity, b \in Block : versions'[<<x, b>>] # NoVersion => x \in Saves(b)
  BY <1>1 DEF EntriesStored
<1>6. Unpruned' = {r \in Unpruned : r[2] \notin gone}
  BY DeletedRows
<1>7. ASSUME NEW x \in Entity, latest'[x] # NoVersion
      PROVE  /\ x \in Saves(latest'[x].block)
             /\ latest'[x].block \in pruned =>
                   pruning.stage = "rows" /\ latest'[x].block \in pruning.drop
             /\ \/ versions'[<<x, latest'[x].block>>] = latest'[x].value
                \/ latest'[x] = latest[x] /\ Number[latest[x].block] <= n
  <2>1. CASE x \in xs
    <3>1. PICK b \in Block : /\ <<x, b>> \in Unpruned'
                             /\ latest'[x] = [block |-> b, value |-> versions'[<<x, b>>]]
      BY <1>4, <1>7, <2>1
    <3>2. <<x, b>> \in Unpruned /\ <<x, b>>[2] = b
      BY <1>6, <3>1
    <3>3. x \in Saves(b)
      BY <3>2 DEF Unpruned, EntriesStored
    <3>4. b \in pruned => pruning.stage = "rows" /\ b \in pruning.drop
      BY <3>2 DEF PruneFacts, RowsMarked
    <3> QED
      BY <3>1, <3>3, <3>4
  <2>2. CASE x \notin xs
    <3>1. latest'[x] = latest[x] /\ latest[x] # NoVersion
      BY <1>4, <1>7, <2>2
    <3>2. Number[latest[x].block] <= n
      BY <2>2, <3>1, EntryTyped, NumberTyped DEF LatestAbove
    <3> QED
      BY <3>1, <3>2 DEF EntriesStored
  <2> QED
    BY <2>1, <2>2
<1> HIDE DEF xs
<1> QED
  BY <1>5, <1>7

LEMMA ResetStored ==
    ASSUME TypeInv, PruneFacts, EntriesStored, ResetAfterRetry
    PROVE  EntriesStored'
<1> DEFINE n == Number[events.block]
           gone == Above(n)
<1>1. /\ events.stage = "reset" /\ events' = NoEvents /\ pruning' = pruning
      /\ ResetWatcherToBlock(n) /\ Busy
  BY DEF ResetAfterRetry, FinishEvents, Busy
<1>2. n \in Nat
  BY <1>1, BlocksTyped
<1>3. DeleteVersions(gone, n) /\ gone \in SUBSET Block /\ pruned' \subseteq pruned
  <2> HIDE DEF n
  <2> QED
    BY <1>1, <1>2, ResetKeeps
<1>4. \A x \in Entity : latest[x] # NoVersion =>
          versions[<<x, latest[x].block>>] = latest[x].value
  BY <1>1, EntriesSettled
<1>5. \A x \in Entity, b \in Block : b \notin gone => versions'[<<x, b>>] = versions[<<x, b>>]
  BY <1>3 DEF DeleteVersions
<1>6. /\ \A x \in Entity : latest'[x] # NoVersion =>
            /\ x \in Saves(latest'[x].block)
            /\ latest'[x].block \in pruned' =>
                  pruning'.stage = "rows" /\ latest'[x].block \in pruning'.drop
            /\ \/ versions'[<<x, latest'[x].block>>] = latest'[x].value
               \/ latest'[x] = latest[x] /\ Number[latest[x].block] <= n
      /\ \A x \in Entity, b \in Block : versions'[<<x, b>>] # NoVersion => x \in Saves(b)
  <2> HIDE DEF n, gone
  <2> QED
    BY <1>1, <1>2, <1>3, EntriesDeleted
<1>7. ASSUME NEW x \in Entity, latest'[x] # NoVersion
      PROVE  versions'[<<x, latest'[x].block>>] = latest'[x].value
  <2>1. CASE latest'[x] = latest[x] /\ Number[latest[x].block] <= n
    <3>1. latest[x].block \in Block \ gone
      BY <1>2, <1>7, <2>1, EntryTyped, NumberTyped DEF Above
    <3> QED
      BY <1>4, <1>5, <1>7, <2>1, <3>1
  <2> QED
    BY <1>6, <1>7, <2>1
<1>8. events'.stage # "failed"
  BY <1>1 DEF NoEvents
<1> QED
  BY <1>6, <1>7, <1>8 DEF EntriesStored, Saves

\* the handlers that failed are to save what their block had in the table
LEMMA HandlerFailsStored ==
    ASSUME TypeInv, PruneFacts, EntriesStored, HandlerFails
    PROVE  EntriesStored'
<1> DEFINE b == events.block
           n == Number[b]
<1>1. /\ DeleteVersions({b}, n)
      /\ UNCHANGED <<blockVars, hooked, pruning>>
      /\ "handler" \in faults'
      /\ events' = [NoEvents EXCEPT !.stage = "failed", !.block = events.block]
  BY DEF HandlerFails, ClearProcessedBlockData, Faulty, Fail
<1>2. Busy
  BY DEF HandlerFails, AtOperation, Busy
<1>3. b \in Block /\ n \in Nat
  BY <1>2, BlocksTyped
<1>4. events'.stage = "failed" /\ events'.block = b /\ events'.pc = 1
  BY <1>1 DEF NoEvents
<1>5. ToSave' = Saves(b)
  BY <1>4 DEF ToSave, Saves
<1>6. \A x \in Entity, c \in Block : c # b => versions'[<<x, c>>] = versions[<<x, c>>]
  BY <1>1 DEF DeleteVersions
<1>7. /\ \A x \in Entity : latest'[x] # NoVersion =>
            /\ x \in Saves(latest'[x].block)
            /\ latest'[x].block \in pruned' =>
                  pruning'.stage = "rows" /\ latest'[x].block \in pruning'.drop
            /\ \/ versions'[<<x, latest'[x].block>>] = latest'[x].value
               \/ latest'[x] = latest[x] /\ Number[latest[x].block] <= n
      /\ \A x \in Entity, c \in Block : versions'[<<x, c>>] # NoVersion => x \in Saves(c)
  <2>1. pruned' \subseteq pruned /\ pruning' = pruning /\ {b} \in SUBSET Block
    BY <1>1, <1>3 DEF blockVars
  <2> HIDE DEF n, b
  <2> QED
    BY <1>1, <1>3, <2>1, EntriesDeleted
<1>8. ASSUME NEW x \in Entity, latest'[x] # NoVersion
      PROVE  \/ versions'[<<x, latest'[x].block>>] = latest'[x].value
             \/ "handler" \in faults' /\ latest'[x].block = events'.block /\ x \in ToSave'
  <2>1. CASE latest'[x].block = b
    <3>1. x \in Saves(b)
      BY <1>7, <1>8, <2>1
    <3> QED
      BY <1>1, <1>4, <1>5, <2>1, <3>1
  <2>2. CASE latest'[x] = latest[x] /\ latest[x].block # b
    <3>1. latest[x].block \in Block
      BY <1>8, <2>2, EntryTyped
    <3>2. versions[<<x, latest[x].block>>] = latest[x].value
      BY <1>8, <2>2 DEF EntriesStored
    <3> QED
      BY <1>6, <2>2, <3>1, <3>2
  <2> QED
    BY <1>7, <1>8, <2>1, <2>2
<1> HIDE DEF b, n
<1>9. \A x \in Entity : latest'[x] # NoVersion =>
            /\ x \in Saves(latest'[x].block)
            /\ latest'[x].block \in pruned' =>
                  pruning'.stage = "rows" /\ latest'[x].block \in pruning'.drop
  BY <1>7
<1> QED
  BY <1>4, <1>7, <1>8, <1>9 DEF EntriesStored, Saves

LEMMA SaveStored ==
    ASSUME TypeInv, InStep, PruneFacts, EntriesStored, SaveVersion
    PROVE  EntriesStored'
<1> DEFINE y == Operation_.id
           b == events.block
           v == Updated(Operation_, b, events.got)
<1>1. /\ UNCHANGED <<pruned, pruning, faults>>
      /\ versions' = [versions EXCEPT ![<<y, b>>] = v]
      /\ latest' = [latest EXCEPT ![y] = [block |-> b, value |-> v]]
      /\ events' = [events EXCEPT !.stage = "cache", !.got = v, !.fill = FALSE]
      /\ events.stage = "save"
  BY DEF SaveVersion, AtOperation, blockVars
<1>2. /\ y \in Entity /\ b \in Block /\ events.pc \in DOMAIN Operations[b]
      /\ b \notin pruned
  BY OperationRuns, SavePruned DEF SaveVersion
<1>3. y \in Saves(b)
  BY <1>2 DEF Saves, Operation_
<1>4. /\ events'.block = b /\ events'.pc = events.pc /\ events'.stage = "cache"
  BY <1>1 DEF TypeInv, EventsTyped
<1>5. ASSUME NEW x \in ToSave, x # y
      PROVE  x \in ToSave'
  <2>1. PICK j \in DOMAIN Operations[b] : j >= events.pc /\ x = Operations[b][j].id
    BY <1>1, <1>5 DEF ToSave
  <2>2. j # events.pc
    BY <1>5, <2>1 DEF Operation_
  <2>3. j \in Nat /\ events.pc \in Nat
    <3>1. Operations[b] \in Seq(Operation)
      BY <1>2, EntityStoreAssumption
    <3> QED
      BY <3>1, LenProperties DEF TypeInv, EventsTyped
  <2>4. j > events.pc
    BY <2>1, <2>2, <2>3
  <2> QED
    BY <1>4, <2>1, <2>4 DEF ToSave
<1> HIDE DEF y, b, v
<1>6. /\ latest'[y] = [block |-> b, value |-> v]
      /\ \A x \in Entity : x # y => latest'[x] = latest[x]
  BY <1>1, <1>2 DEF TypeInv, TypeOK
<1>7. /\ versions'[<<y, b>>] = v
      /\ \A x \in Entity, c \in Block : <<x, c>> # <<y, b>> => versions'[<<x, c>>] = versions[<<x, c>>]
  BY <1>1, <1>2 DEF TypeInv, TypeOK
<1>8. ASSUME NEW x \in Entity, latest'[x] # NoVersion
      PROVE  /\ x \in Saves(latest'[x].block)
             /\ latest'[x].block \in pruned' =>
                   pruning'.stage = "rows" /\ latest'[x].block \in pruning'.drop
             /\ \/ versions'[<<x, latest'[x].block>>] = latest'[x].value
                \/ "handler" \in faults' /\ latest'[x].block = events'.block /\ x \in ToSave'
  <2>1. CASE x = y
    <3>1. latest'[x].block = b /\ latest'[x].value = v
      BY <1>6, <2>1
    <3> QED
      BY <1>1, <1>2, <1>3, <1>7, <2>1, <3>1
  <2>2. CASE x # y
    <3>1. latest'[x] = latest[x] /\ latest[x] # NoVersion
      BY <1>6, <1>8, <2>2
    <3>2. latest[x].block \in Block
      BY <3>1, EntryTyped
    <3>3. versions'[<<x, latest[x].block>>] = versions[<<x, latest[x].block>>]
      BY <1>7, <2>2, <3>2
    <3>4. x \in ToSave => x \in ToSave'
      BY <1>5, <2>2 DEF y
    <3>5. latest[x].block = events.block => latest[x].block = events'.block
      BY <1>4 DEF b
    <3> QED
      BY <1>1, <3>1, <3>3, <3>4, <3>5 DEF EntriesStored
  <2> QED
    BY <2>1, <2>2
<1>9. \A x \in Entity, c \in Block : versions'[<<x, c>>] # NoVersion => x \in Saves(c)
  <2>1. ASSUME NEW x \in Entity, NEW c \in Block, versions'[<<x, c>>] # NoVersion
        PROVE  x \in Saves(c)
    <3>1. CASE <<x, c>> = <<y, b>>
      BY <1>3, <3>1
    <3>2. CASE <<x, c>> # <<y, b>>
      BY <1>7, <2>1, <3>2 DEF EntriesStored
    <3> QED
      BY <3>1, <3>2
  <2> QED
    BY <2>1
<1> QED
  BY <1>4, <1>8, <1>9 DEF EntriesStored, Saves

\* the store calls that no handler fails in have no entries left to save again, and a
\* retry of sets skips none
LEMMA SkipStored ==
    ASSUME RetriesSave, TypeInv, EntriesStored, SkipRemove
    PROVE  EntriesStored'
<1>1. /\ UNCHANGED <<latest, versions, pruned, pruning, faults>>
      /\ events'.stage = "load"
  BY DEF SkipRemove, NextOperation, TypeInv, EventsTyped, blockVars, tableVars
<1>2. events.block \in Block /\ events.pc \in DOMAIN Operations[events.block]
      /\ Operation_.op = "remove"
  BY OperationRuns DEF SkipRemove, NothingToRemove
<1>3. "handler" \notin faults
  <2>1. "handler" \notin FaultKinds
    BY <1>2 DEF RetriesSave, Operation_
  <2> QED
    BY <2>1 DEF TypeInv, TypeOK
<1>4. \A x \in Entity : latest[x] # NoVersion =>
          versions[<<x, latest[x].block>>] = latest[x].value
  BY <1>3 DEF EntriesStored
<1> QED
  BY <1>1, <1>4, EntriesFrame

LEMMA WorkerStored ==
    ASSUME TypeInv, EntriesStored,
           \/ ReadCache \/ ReadDatabase \/ CacheVersion
           \/ CompleteBlock \/ UpdateProcessed \/ RetryEvents
    PROVE  EntriesStored'
<1>1. UNCHANGED <<latest, versions, pruned, pruning, faults>>
  BY DEF ReadCache, ReadDatabase, CacheVersion, CompleteBlock, UpdateProcessed, RetryEvents,
     blockVars, tableVars
<1>2. CASE ReadCache \/ ReadDatabase
  <2>1. /\ events'.stage = "save" /\ events'.block = events.block /\ events'.pc = events.pc
        /\ events.stage = "load"
    BY <1>2 DEF ReadCache, ReadDatabase, Loaded, AtOperation, TypeInv, EventsTyped
  <2>2. ToSave \subseteq ToSave'
    BY <2>1 DEF ToSave
  <2> QED
    BY <1>1, <2>1, <2>2, EntriesFrame
<1>3. CASE CacheVersion
  <2>1. /\ events'.stage = "load" /\ events'.block = events.block
        /\ events'.pc = events.pc + 1 /\ events.stage = "cache"
    BY <1>3 DEF CacheVersion, NextOperation, AtOperation, TypeInv, EventsTyped
  <2>2. ASSUME NEW x \in ToSave
        PROVE  x \in ToSave'
    <3>1. PICK j \in DOMAIN Operations[events.block] :
             j > events.pc /\ x = Operations[events.block][j].id
      BY <2>1, <2>2 DEF ToSave
    <3>2. events.block \in Block
      BY <1>3, OperationRuns DEF CacheVersion
    <3>3. j \in Nat /\ events.pc \in Nat
      <4>1. Operations[events.block] \in Seq(Operation)
        BY <3>2, EntityStoreAssumption
      <4> QED
        BY <4>1, LenProperties DEF TypeInv, EventsTyped
    <3>4. j >= events'.pc
      BY <2>1, <3>1, <3>3
    <3> QED
      BY <2>1, <3>1, <3>4 DEF ToSave
  <2>3. ToSave \subseteq ToSave'
    BY <2>2
  <2> QED
    BY <1>1, <2>1, <2>3, EntriesFrame
<1>4. CASE CompleteBlock \/ UpdateProcessed
  <2>1. events.stage = "status" \/ HandlersDone
    BY <1>4 DEF CompleteBlock, UpdateProcessed
  <2>2. events'.stage # "failed"
    BY <1>4 DEF CompleteBlock, UpdateProcessed, FinishEvents, NoEvents, TypeInv, EventsTyped
  <2>3. \A x \in Entity : latest[x] # NoVersion =>
            versions[<<x, latest[x].block>>] = latest[x].value
    BY <2>1, EntriesSettled
  <2> QED
    BY <1>1, <2>2, <2>3, EntriesFrame
<1>5. CASE RetryEvents
  <2>1. /\ events'.stage = "load" /\ events'.block = events.block
        /\ events'.pc = 1 /\ events.stage = "failed"
    BY <1>5 DEF RetryEvents, StartEvents, NoEvents
  <2>2. ASSUME NEW x \in ToSave
        PROVE  x \in ToSave'
    <3>1. PICK j \in DOMAIN Operations[events.block] : x = Operations[events.block][j].id
      BY <2>2 DEF ToSave
    <3>2. events.block \in Block
      BY <2>1, BlocksTyped DEF Busy
    <3>3. j >= 1
      <4>1. Operations[events.block] \in Seq(Operation)
        BY <3>2, EntityStoreAssumption
      <4> QED
        BY <3>1, <4>1, LenProperties
    <3> QED
      BY <2>1, <3>1, <3>3 DEF ToSave
  <2>3. ToSave \subseteq ToSave'
    BY <2>2
  <2> QED
    BY <1>1, <2>1, <2>3, EntriesFrame
<1> QED
  BY <1>2, <1>3, <1>4, <1>5

LEMMA IndexStored ==
    ASSUME TypeInv, EntriesStored,
           \/ \E t, b \in Block : IndexBlock(t, b)
           \/ \E t \in Block : IndexBlockAgain(t)
    PROVE  EntriesStored'
<1>1. /\ UNCHANGED <<latest, versions, pruned, pruning>> /\ faults \subseteq faults'
      /\ events.stage = "idle" /\ events'.stage # "failed"
  BY DEF IndexBlock, IndexBlockAgain, Fetched, StartEvents, NoEvents, Faulty, blockVars, tableVars
<1>2. \A x \in Entity : latest[x] # NoVersion =>
          versions[<<x, latest[x].block>>] = latest[x].value
  BY <1>1, EntriesSettled
<1> QED
  BY <1>1, <1>2, EntriesFrame

LEMMA LatestStep ==
    ASSUME RetriesSave, LatestInv, [Next]_vars
    PROVE  LatestInv'
<1> SUFFICES ASSUME Unbroken', "status" \notin faults' PROVE EntriesStored'
  BY PruneStep DEF LatestInv
<1>1. TypeInv /\ InStep /\ PruneFacts /\ EntriesStored
  BY FaultsGrow DEF LatestInv, PruneInv, StepInv, Unbroken
<1>2. CASE \/ \E t, b \in Block : IndexBlock(t, b)
           \/ \E t \in Block : IndexBlockAgain(t)
  BY <1>1, <1>2, IndexStored
<1>3. CASE (\E c \in Block : RunHooks(c)) \/ UNCHANGED vars
  <2>1. UNCHANGED <<latest, versions, pruned, pruning, events, faults>>
    BY <1>3 DEF RunHooks, vars, blockVars, tableVars
  <2>2. ToSave' = ToSave
    BY <2>1 DEF ToSave
  <2>3. events'.stage = "failed" => events'.pc = 1
    BY <1>1, <2>1 DEF EntriesStored
  <2> QED
    BY <1>1, <2>1, <2>2, <2>3, EntriesFrame
<1>4. CASE PruneBlocks \/ PruneRows \/ PruneCommit
  BY <1>1, <1>4, PruneBlocksStored, PruneRowsStored, CommitStored
<1>5. CASE EventWorkerStep
  BY <1>1, <1>5, WorkerStored, SkipStored, SaveStored, ResetStored DEF EventWorkerStep
<1>6. CASE HandlerFails
  BY <1>1, <1>6, HandlerFailsStored
<1>7. CASE StatusFails \/ PruneFails \/ Restart
  BY <1>7 DEF StatusFails, PruneFails, Restart, Faulty, Unbroken
<1> QED
  BY <1>2, <1>3, <1>4, <1>5, <1>6, <1>7 DEF Next

LEMMA LatestAgrees == LatestInv => LatestIsStored
<1> SUFFICES ASSUME LatestInv, Quiet, "status" \notin faults,
                    NEW x \in Entity, latest[x] # NoVersion, latest[x].block # events.block
             PROVE  /\ latest[x].block \notin pruned
                    /\ versions[<<x, latest[x].block>>] = latest[x].value
  BY DEF LatestIsStored
<1>1. EntriesStored
  BY DEF LatestInv, Quiet, Unbroken
<1>2. pruning.stage = "idle"
  BY DEF Quiet
<1> QED
  BY <1>1, <1>2 DEF EntriesStored

\* Besides the types and the marks of pruned rows: while no prune job, no step after the
\* handlers and no process fails, each entry of the latest-entity table is the row of a
\* block that is not pruned, though handlers fail after they have saved entries and the
\* rows under these are deleted (saveEntity, resetLatestEntities, canonicalizeLatestEntity).
\* Without RetriesSave it is false: see LoneRemove in MCEntityStore.
THEOREM EntityTablesAgree ==
    ASSUME RetriesSave
    PROVE  Spec => []TablesAgree
<1>1. LatestInv => TablesAgree
  BY PrunedMarked, LatestAgrees DEF LatestInv, PruneInv, StepInv, TypeInv, TablesAgree
<1>2. LatestInv /\ [Next]_vars => LatestInv'
  BY LatestStep
<1> QED
  BY <1>1, <1>2, InitStored, PTL DEF Spec

-------------------------------------------------------------------------------
(* Queries at a block.                                                       *)

\* The latest-entity table has an entry for each entity of the first block.
RootListed ==
    \A x \in Entity : versions[<<x, Root>>] # NoVersion => latest[x] # NoVersion

ListInv == StepInv /\ RootListed

\* of blocks some have the smallest number
LEMMA MinNumberOf ==
    ASSUME NEW S \in SUBSET Block, S # {}
    PROVE  /\ MinNumber(S) \in Nat
           /\ \A b \in S : MinNumber(S) <= Number[b]
           /\ \E b \in S : Number[b] = MinNumber(S)
<1> DEFINE H == Heights(S)
<1>1. H \in SUBSET Nat /\ H # {}
  BY NumberTyped DEF Heights
<1>2. \E m \in H : \A h \in H : <<h, m>> \notin OpToRel(<, Nat)
  <2> HIDE DEF H
  <2> QED
    BY <1>1, NatLessThanWellFounded, WFMin, Zenon
<1>3. PICK m \in H : \A h \in H : ~(h < m)
  <2> HIDE DEF H
  <2> QED
    BY <1>1, <1>2, Zenon DEF OpToRel
<1>4. \A h \in H : m <= h
  <2> HIDE DEF H
  <2> QED
    BY <1>1, <1>3
<1>5. Min(H) \in H /\ \A h \in H : Min(H) <= h
  <2> HIDE DEF H
  <2> QED
    BY <1>4, Zenon DEF Min
<1>6. \A b \in S : Number[b] \in H
  BY DEF Heights
<1>7. \E b \in S : Number[b] = Min(H)
  BY <1>5 DEF Heights
<1> QED
  BY <1>1, <1>5, <1>6, <1>7 DEF MinNumber

\* of blocks up to some height some have the largest number
LEMMA HighestExists ==
    ASSUME NEW S \in SUBSET Block, S # {}, \E n \in Nat : \A b \in S : Number[b] <= n
    PROVE  Highest(S) # {}
<1>1. /\ MaxNumber(S) \in Nat
      /\ \A b \in S : Number[b] <= MaxNumber(S)
      /\ MaxNumber(S) = 0 \/ \E b \in S : Number[b] = MaxNumber(S)
  BY MaxNumberOf
<1>2. PICK c \in S : TRUE
  OBVIOUS
<1>3. Number[c] \in Nat \ {0} /\ Number[c] <= MaxNumber(S)
  BY <1>1, <1>2, NumberTyped
<1>4. PICK b \in S : Number[b] = MaxNumber(S)
  BY <1>1, <1>3
<1> QED
  BY <1>1, <1>4 DEF Highest

\* a block has finitely many ancestors, one at a height
LEMMA AncestorsFinite ==
    ASSUME NEW b \in Block
    PROVE  IsFiniteSet(Ancestors[b])
<1> DEFINE f == [a \in Ancestors[b] |-> Number[a]]
<1>1. Number[b] \in Nat \ {0} /\ \A a \in Ancestors[b] : Number[a] \in Nat \ {0}
  BY NumberTyped, AncestorsTyped
<1>2. \A a \in Ancestors[b] : Number[a] <= Number[b]
  BY <1>1, AncestorsBelow
<1>3. f \in [Ancestors[b] -> 1 .. Number[b]]
  BY <1>1, <1>2
<1>4. \A x, y \in Ancestors[b] : f[x] = f[y] => x = y
  BY OneAncestorPerHeight
<1>5. f \in Injection(Ancestors[b], 1 .. Number[b])
  BY <1>3, <1>4 DEF Injection, IsInjective
<1>6. IsFiniteSet(1 .. Number[b])
  BY <1>1, FS_Interval
<1> QED
  BY <1>5, <1>6, FS_Injection

\* the frothy region goes from the block down without a gap
LEMMA FrothyFromAbove ==
    ASSUME NEW b \in Block, NEW c \in FrothyRegion(b), NEW a \in Ancestors[b],
           Number[c] <= Number[a]
    PROVE  a \in FrothyRegion(b)
<1> DEFINE over(d) == {e \in Ancestors[b] : Number[e] > Number[d]}
<1>1. c \in Ancestors[b] /\ \A e \in Ancestors[b] : Number[c] <= Number[e] => e \in saved
  BY DEF FrothyRegion
<1>2. Cardinality(over(c)) < MaxReorgDepth
  BY DEF FrothyRegion
<1>3. \A e \in Ancestors[b] : Number[e] \in Nat
  BY AncestorsTyped, NumberTyped
<1>4. \A e \in Ancestors[b] : Number[a] <= Number[e] => e \in saved
  BY <1>1, <1>3
<1>5. over(a) \subseteq over(c) /\ over(c) \subseteq Ancestors[b]
  BY <1>1, <1>3
<1> HIDE DEF over
<1>6. IsFiniteSet(over(c))
  BY <1>5, AncestorsFinite, FS_Subset
<1>7. /\ IsFiniteSet(over(a))
      /\ Cardinality(over(a)) <= Cardinality(over(c))
  BY <1>5, <1>6, FS_Subset
<1>8. Cardinality(over(a)) \in Nat /\ Cardinality(over(c)) \in Nat
  BY <1>6, <1>7, FS_CardinalityType
<1>9. Cardinality(over(a)) < MaxReorgDepth
  BY <1>2, <1>7, <1>8, EntityStoreAssumption
<1> QED
  BY <1>4, <1>9 DEF FrothyRegion, over

\* and holds the block itself
LEMMA FrothyHolds ==
    ASSUME NEW b \in Block, b \in saved
    PROVE  b \in FrothyRegion(b) /\ FrothyRegion(b) \in SUBSET Block
<1>1. b \in Ancestors[b] /\ Ancestors[b] \subseteq Block
  BY AncestorsClosed, AncestorsTyped
<1>2. \A a \in Ancestors[b] : a = b \/ Number[a] < Number[b]
  BY AncestorsBelow
<1>3. \A a \in Ancestors[b] : Number[b] <= Number[a] => a \in saved
  BY <1>1, <1>2, NumberTyped
<1>4. {a \in Ancestors[b] : Number[a] > Number[b]} = {}
  BY <1>1, <1>2, NumberTyped
<1>5. Cardinality({a \in Ancestors[b] : Number[a] > Number[b]}) < MaxReorgDepth
  <2>1. Cardinality({}) = 0 /\ MaxReorgDepth \in Nat \ {0}
    BY FS_EmptySet, EntityStoreAssumption
  <2>2. 0 < MaxReorgDepth
    BY <2>1
  <2> QED
    BY <1>4, <2>1, <2>2, Zenon
<1> QED
  BY <1>1, <1>3, <1>5 DEF FrothyRegion

\* the blocks of a set that are higher than all of the others are its highest ones
LEMMA HighestOfBoth ==
    ASSUME NEW A \in SUBSET Block, NEW V \in SUBSET Block, A \subseteq V,
           \A v \in V \ A : \E c \in Highest(A) : Number[v] < Number[c]
    PROVE  Highest(V) = Highest(A)
<1>1. \A v \in V : Number[v] \in Nat
  BY NumberTyped
<1>2. ASSUME NEW h \in Highest(V)
      PROVE  h \in Highest(A)
  <2>1. h \in V /\ \A v \in V : Number[v] <= Number[h]
    BY DEF Highest
  <2>2. h \in A
    <3> SUFFICES ASSUME h \notin A PROVE FALSE
      OBVIOUS
    <3>1. PICK c \in Highest(A) : Number[h] < Number[c]
      BY <2>1
    <3>2. c \in V
      BY DEF Highest
    <3> QED
      BY <1>1, <2>1, <3>1, <3>2
  <2> QED
    BY <2>1, <2>2 DEF Highest
<1>3. ASSUME NEW h \in Highest(A)
      PROVE  h \in Highest(V)
  <2>1. h \in A /\ h \in V /\ \A a \in A : Number[a] <= Number[h]
    BY DEF Highest
  <2>2. ASSUME NEW v \in V \ A
        PROVE  Number[v] <= Number[h]
    <3>1. PICK c \in Highest(A) : Number[v] < Number[c]
      OBVIOUS
    <3>2. c \in A
      BY DEF Highest
    <3>3. Number[c] <= Number[h]
      BY <2>1, <3>2
    <3> QED
      BY <1>1, <2>1, <3>1, <3>2, <3>3
  <2> QED
    BY <2>1, <2>2 DEF Highest
<1> QED
  BY <1>2, <1>3

\* a query at a block of a branch without pruned blocks
LEMMA DistinctOnBranch ==
    ASSUME TypeInv, InStep, NEW b \in saved, NEW x \in Entity,
           Ancestors[b] \cap pruned = {}, ~SeesOtherBranch(x, b)
    PROVE  DistinctOn(VisibleAt(b), x) = OnBranch(x, b)
<1> DEFINE A == {a \in Ancestors[b] : versions[<<x, a>>] # NoVersion}
           V == VersionsIn(VisibleAt(b), x)
           region == FrothyRegion(b)
           m == MinNumber(region)
<1>1. b \in Block /\ Ancestors[b] \subseteq Block
  BY BlocksTyped, AncestorsTyped
<1>2. region \in SUBSET Block /\ b \in region
  BY <1>1, FrothyHolds
<1>3. m \in Nat /\ (\A a \in region : m <= Number[a]) /\ \E a \in region : Number[a] = m
  <2> HIDE DEF region
  <2> QED
    BY <1>2, MinNumberOf
<1>4. A \in SUBSET Block
  BY <1>1
<1>5. VisibleAt(b) = {r \in Unpruned : r[2] \in region \/ Number[r[2]] <= m + 1}
  BY DEF VisibleAt
<1>6. ASSUME NEW a \in Block
      PROVE  a \in V <=> <<x, a>> \in VisibleAt(b)
  BY DEF VersionsIn, VisibleAt, Unpruned
<1>7. V \in SUBSET Block
  BY DEF VersionsIn, VisibleAt, Unpruned
<1>8. ASSUME NEW a \in A
      PROVE  a \in V
  <2>1. a \in Block /\ a \in Ancestors[b] /\ versions[<<x, a>>] # NoVersion
    BY <1>1
  <2>2. <<x, a>> \notin prunedRows
    <3>1. a \notin pruned
      BY <2>1
    <3>2. <<x, a>> \in prunedRows => <<x, a>>[2] \in pruned
      BY DEF InStep, RowsInStep
    <3> QED
      BY <3>1, <3>2
  <2>3. <<x, a>> \in Unpruned
    BY <2>1, <2>2 DEF Unpruned
  <2>4. a \in region \/ Number[a] <= m + 1
    <3>1. PICK c \in region : Number[c] = m
      BY <1>3
    <3>2. Number[c] <= Number[a] => a \in region
      BY <1>1, <2>1, <3>1, FrothyFromAbove
    <3>3. Number[a] \in Nat
      BY <2>1, NumberTyped
    <3> QED
      BY <1>3, <3>1, <3>2, <3>3
  <2>5. <<x, a>> \in VisibleAt(b)
    BY <1>5, <2>3, <2>4
  <2> QED
    BY <1>6, <2>1, <2>5
<1>9. ASSUME NEW v \in V \ A
      PROVE  \E c \in Highest(A) : Number[v] < Number[c]
  <2>1. v \in Block /\ <<x, v>> \in VisibleAt(b)
    BY <1>6, <1>7
  <2>2. <<x, v>> \in Unpruned /\ (v \in region \/ Number[v] <= m + 1)
    BY <1>5, <2>1
  <2>3. v \notin Ancestors[b]
    BY <2>2 DEF Unpruned
  <2>4. v \notin region
    BY <2>3 DEF FrothyRegion
  <2>5. v \in VersionsIn(Unpruned, x) \ Ancestors[b]
    BY <2>2, <2>3 DEF VersionsIn
  <2>6. PICK c \in OnBranch(x, b) : ~(Number[c] <= Number[v])
    BY <2>2, <2>4, <2>5 DEF SeesOtherBranch
  <2>7. c \in Highest(A) /\ c \in Block
    BY <1>4, <2>6 DEF OnBranch, Highest
  <2>8. Number[v] < Number[c]
    BY <2>1, <2>6, <2>7, NumberTyped
  <2> QED
    BY <2>7, <2>8
<1>10. Highest(V) = Highest(A)
  <2> HIDE DEF A, V
  <2> QED
    BY <1>4, <1>7, <1>8, <1>9, HighestOfBoth
<1> QED
  BY <1>10 DEF DistinctOn, OnBranch

\* an entity that is canonicalized at a height from the root's on keeps an entry
LEMMA RootFound ==
    ASSUME NEW xs \in SUBSET Entity, NEW n \in Nat, Number[Root] <= n, CanonicalizeLatest(xs, n),
           versions' \in [Entity \X Block -> Value \cup {NoVersion}],
           NEW x \in Entity, <<x, Root>> \in Unpruned', latest[x] # NoVersion
    PROVE  latest'[x] # NoVersion
<1> DEFINE rows == {r \in Entity \X Block : versions'[r] # NoVersion /\ r \notin prunedRows'}
           found(y) == LatestOf(rows, y, n)
           entry(y, b) == [block |-> b, value |-> versions'[<<y, b>>]]
<1>1. PICK pick \in [xs -> Block \cup {NoBlock}] :
          /\ \A y \in xs : IF found(y) = {} THEN pick[y] = NoBlock ELSE pick[y] \in found(y)
          /\ latest' = [y \in Entity |-> IF y \notin xs THEN latest[y]
                                         ELSE IF pick[y] = NoBlock THEN NoVersion
                                         ELSE entry(y, pick[y])]
  BY DEF CanonicalizeLatest
<1>2. CASE x \notin xs
  BY <1>1, <1>2
<1>3. CASE x \in xs
  <2> DEFINE S == {b \in Block : <<x, b>> \in rows /\ Number[b] <= n}
  <2>1. Root \in S
    BY BlockTreeAssumption DEF Unpruned
  <2>2. S \in SUBSET Block /\ S # {} /\ \A b \in S : Number[b] <= n
    BY <2>1
  <2>3. Highest(S) # {}
    <3> HIDE DEF S
    <3> QED
      BY <2>2, HighestExists
  <2>4. found(x) # {} /\ found(x) \subseteq Block
    BY <2>2, <2>3 DEF LatestOf, Highest
  <2>5. pick[x] \in found(x)
    BY <1>1, <1>3, <2>4
  <2>6. pick[x] \in Block /\ <<x, pick[x]>> \in rows
    BY <2>5 DEF LatestOf, Highest
  <2>7. latest'[x] = entry(x, pick[x])
    BY <1>1, <1>3, <2>6, BlockTreeAssumption
  <2>8. versions'[<<x, pick[x]>>] \in Value
    BY <2>6
  <2>9. entry(x, pick[x]) \in Entry
    BY <2>6, <2>8 DEF Entry
  <2> QED
    BY <2>7, <2>9, NoVersionAssumption
<1> QED
  BY <1>2, <1>3

LEMMA RootStays ==
    ASSUME TypeInv, InStep
    PROVE  /\ Root \notin pruned
           /\ \A x \in Entity : <<x, Root>> \notin prunedRows
<1>1. Root \notin pruned
  BY BlocksTyped DEF InStep, PruneInStep
<1>2. ASSUME NEW x \in Entity PROVE <<x, Root>> \notin prunedRows
  <2>1. <<x, Root>> \in prunedRows => <<x, Root>>[2] \in pruned
    BY DEF InStep, RowsInStep
  <2> QED
    BY <1>1, <2>1
<1> QED
  BY <1>1, <1>2

\* what a deletion of versions leaves of the root's
LEMMA DeletedListed ==
    ASSUME TypeInv, InStep, RootListed, NEW gone \in SUBSET Block, NEW n \in Nat,
           Number[Root] <= n, DeleteVersions(gone, n)
    PROVE  RootListed'
<1> SUFFICES ASSUME NEW x \in Entity, versions'[<<x, Root>>] # NoVersion
             PROVE  latest'[x] # NoVersion
  BY DEF RootListed
<1>1. /\ versions' \in [Entity \X Block -> Value \cup {NoVersion}]
      /\ \A b \in Block :
            versions'[<<x, b>>] = IF b \in gone THEN NoVersion ELSE versions[<<x, b>>]
      /\ prunedRows' \subseteq prunedRows
      /\ CanonicalizeLatest(LatestAbove(n), n)
  BY Deleted, Zenon DEF TypeInv
<1>2. Root \in Block
  BY BlockTreeAssumption
<1>3. versions[<<x, Root>>] # NoVersion
  BY <1>1, <1>2
<1>4. <<x, Root>> \in Unpruned'
  BY <1>1, <1>2, RootStays DEF Unpruned
<1>5. latest[x] # NoVersion
  BY <1>3 DEF RootListed
<1>6. LatestAbove(n) \in SUBSET Entity
  BY DEF LatestAbove
<1> QED
  BY <1>1, <1>4, <1>5, <1>6, RootFound

LEMMA PruneRowsListed ==
    ASSUME TypeInv, InStep, RootListed, PruneRows
    PROVE  RootListed'
<1> SUFFICES ASSUME NEW x \in Entity, versions'[<<x, Root>>] # NoVersion
             PROVE  latest'[x] # NoVersion
  BY DEF RootListed
<1> DEFINE xs == {y \in Entity : latest[y] # NoVersion /\ latest[y].block \in pruning.drop}
<1>1. UNCHANGED <<versions, pruned>> /\ CanonicalizeLatest(xs, PruneHeight)
  BY DEF PruneRows, MarkRows, blockVars
<1>2. InStep' /\ TypeInv'
  BY PruneRowsInStep, PruneRowsTyped
<1>3. Root \in Block /\ PruneHeight \in Nat /\ Number[Root] <= PruneHeight
  BY BlocksTyped, RootLowest, BlockTreeAssumption DEF PruneHeight
<1>4. <<x, Root>> \notin prunedRows'
  <2>1. <<x, Root>> \in prunedRows' => <<x, Root>>[2] \in pruned'
    BY <1>2 DEF InStep, RowsInStep
  <2> QED
    BY <1>1, <2>1, RootStays
<1>5. <<x, Root>> \in Unpruned'
  BY <1>3, <1>4 DEF Unpruned
<1>6. latest[x] # NoVersion
  BY <1>1 DEF RootListed
<1>7. versions' \in [Entity \X Block -> Value \cup {NoVersion}] /\ xs \in SUBSET Entity
  BY <1>2 DEF TypeInv, TypeOK
<1> HIDE DEF xs
<1> QED
  BY <1>1, <1>3, <1>5, <1>6, <1>7, RootFound

LEMMA SaveListed ==
    ASSUME TypeInv, RootListed, SaveVersion
    PROVE  RootListed'
<1> DEFINE y == Operation_.id
           b == events.block
           v == Updated(Operation_, b, events.got)
<1>1. /\ versions' = [versions EXCEPT ![<<y, b>>] = v]
      /\ latest' = [latest EXCEPT ![y] = [block |-> b, value |-> v]]
  BY DEF SaveVersion
<1>2. y \in Entity /\ b \in Block
  BY OperationRuns DEF SaveVersion
<1>3. v \in Value
  <2>1. events.got \in Value \cup {NoVersion} /\ <<>> \in Value
    BY EmptySeq DEF TypeInv, EventsTyped, Value
  <2>2. (IF events.got = NoVersion THEN <<>> ELSE events.got) \in Seq(Block)
    BY <2>1 DEF Value
  <2> QED
    BY <1>2, <2>1, <2>2, AppendProperties DEF Updated, Value
<1> HIDE DEF y, b, v
<1>4. [block |-> b, value |-> v] \in Entry
  BY <1>2, <1>3 DEF Entry
<1>5. ASSUME NEW x \in Entity, versions'[<<x, Root>>] # NoVersion
      PROVE  latest'[x] # NoVersion
  <2>1. CASE x = y
    BY <1>1, <1>2, <1>4, <2>1, NoVersionAssumption DEF TypeInv, TypeOK
  <2>2. CASE x # y
    <3>1. versions'[<<x, Root>>] = versions[<<x, Root>>] /\ latest'[x] = latest[x]
      BY <1>1, <1>2, <2>2, BlockTreeAssumption DEF TypeInv, TypeOK
    <3> QED
      BY <1>5, <3>1 DEF RootListed
  <2> QED
    BY <2>1, <2>2
<1> QED
  BY <1>5 DEF RootListed

LEMMA InitListed == Init => ListInv
BY InitInStep, BlockTreeAssumption DEF Init, ListInv, RootListed

LEMMA ListStep == ListInv /\ [Next]_vars => ListInv'
<1> SUFFICES ASSUME TypeInv, InStep, RootListed, [Next]_vars PROVE RootListed'
  BY StepInStep DEF ListInv, StepInv
<1>1. CASE \/ \E t, b \in Block : IndexBlock(t, b)
           \/ \E t \in Block : IndexBlockAgain(t)
           \/ \E c \in Block : RunHooks(c)
           \/ PruneBlocks \/ PruneCommit \/ PruneFails
           \/ UNCHANGED vars
  <2>1. UNCHANGED <<versions, latest>>
    BY <1>1 DEF IndexBlock, IndexBlockAgain, RunHooks, PruneBlocks, PruneCommit, PruneFails,
       vars, tableVars
  <2> QED
    BY <2>1 DEF RootListed
<1>2. CASE ReadCache \/ ReadDatabase \/ SkipRemove \/ CacheVersion \/ CompleteBlock
           \/ UpdateProcessed \/ RetryEvents
  BY <1>2, WorkerKeeps DEF RootListed
<1>3. CASE PruneRows \/ SaveVersion
  BY <1>3, PruneRowsListed, SaveListed
<1>4. CASE ResetAfterRetry
  <2>1. PICK n \in Nat : n = Number[events.block]
    BY <1>4, ResetAbove
  <2>2. Number[Root] <= n /\ DeleteVersions(Above(n), n) /\ Above(n) \in SUBSET Block
    BY <1>4, <2>1, ResetAbove, ResetKeeps
  <2> QED
    BY <2>2, DeletedListed
<1>5. CASE HandlerFails \/ StatusFails
  <2>1. Busy /\ ClearProcessedBlockData
    BY <1>5, FailureClears
  <2>2. PICK b \in Block : b = events.block
    BY <2>1, BlocksTyped
  <2>3. PICK n \in Nat : n = Number[b]
    BY <2>2, NumberTyped
  <2>4. Number[Root] <= n /\ DeleteVersions({b}, n) /\ {b} \in SUBSET Block
    BY <2>1, <2>2, <2>3, RootLowest, BlocksTyped DEF ClearProcessedBlockData
  <2> QED
    BY <2>4, DeletedListed
<1>6. CASE Restart
  <2>1. PICK b \in Block : b = processed /\ ResetWatcherToBlock(Number[b])
    BY <1>6 DEF Restart, TypeInv, TypeOK
  <2>2. PICK n \in Nat : n = Number[b]
    BY <2>1, NumberTyped
  <2>3. Number[Root] <= n /\ DeleteVersions(Above(n), n) /\ Above(n) \in SUBSET Block
    BY <2>1, <2>2, RootLowest, BlocksTyped, ResetKeeps
  <2> QED
    BY <2>3, DeletedListed
<1> QED
  BY <1>1, <1>2, <1>3, <1>4, <1>5, <1>6 DEF Next, EventWorkerStep

LEMMA ListedAtHash == ListInv => ListsAtHash
<1> SUFFICES ASSUME ListInv, NEW b \in Tips, NEW x \in Entity, ~SeesOtherBranch(x, b)
             PROVE  /\ DistinctOn(VisibleAt(b), x) = OnBranch(x, b)
                    /\ versions[<<x, Root>>] # NoVersion =>
                          Lateral(VisibleAt(b), x) = OnBranch(x, b)
  BY DEF ListsAtHash
<1>1. b \in saved /\ Ancestors[b] \cap pruned = {}
  BY DEF Tips, ListInv, StepInv, TypeInv, TypeOK
<1>2. DistinctOn(VisibleAt(b), x) = OnBranch(x, b)
  BY <1>1, DistinctOnBranch DEF ListInv, StepInv
<1> QED
  BY <1>2 DEF ListInv, RootListed, Lateral

-------------------------------------------------------------------------------
(* Queries at a number.                                                      *)

NoNullRounds == \A b \in Block \ {Root} : Number[b] = Number[Parent[b]] + 1

\* Up to the canonical block, one branch is left of the blocks that are not pruned.
OneBranch ==
    /\ \A b \in saved \ pruned : Number[b] <= Number[canonical] => b \in Ancestors[canonical]
    /\ Ancestors[canonical] \cap pruned = {}

\* The block that makes a prune job due is one height above the others, on the branch
\* of the canonical block.
MadeDue ==
    \A b \in saved : Number[b] > Number[canonical] + MaxReorgDepth =>
        /\ canonical \in Ancestors[b]
        /\ Number[b] = PruneHeight + MaxReorgDepth
        /\ \A c \in saved \ {b} : Number[c] <= Number[canonical] + MaxReorgDepth

\* A prune job keeps the child of the canonical block, and no other block of its height.
KeepsChild ==
    pruning # NoPruning =>
        /\ pruning.keep # Root /\ Parent[pruning.keep] = canonical
        /\ pruning.keep \notin pruned
        /\ \A b \in saved \ pruned : Number[b] = PruneHeight => b = pruning.keep

BranchFacts == OneBranch /\ MadeDue /\ KeepsChild

BranchInv == PruneInv /\ (Unbroken => BranchFacts)

\* one block above another on a branch is its child
LEMMA ChildOf ==
    ASSUME NoNullRounds, NEW c \in Block, NEW b \in Block, c \in Ancestors[b],
           Number[b] = Number[c] + 1
    PROVE  b # Root /\ Parent[b] = c
<1>1. Number[c] \in Nat /\ Number[b] \in Nat /\ Number[Root] \in Nat
  BY NumberTyped, BlockTreeAssumption
<1>2. c # b /\ b # Root
  BY <1>1, RootLowest, NumberTyped
<1>3. Parent[b] \in Block /\ Number[b] = Number[Parent[b]] + 1
  BY <1>2, BlockTreeAssumption DEF NoNullRounds
<1>4. c \in Ancestors[Parent[b]]
  BY <1>2, AncestorsOfParent
<1>5. Number[c] = Number[Parent[b]]
  BY <1>1, <1>3, NumberTyped
<1>6. Parent[b] \in Ancestors[Parent[b]]
  BY <1>3, AncestorsClosed
<1> QED
  BY <1>2, <1>3, <1>4, <1>5, <1>6, OneAncestorPerHeight

\* a block above another on a branch has an ancestor that is the child of the other
LEMMA ChildTowards ==
    ASSUME NoNullRounds, NEW c \in Block, NEW b \in Block, c \in Ancestors[b],
           Number[b] > Number[c]
    PROVE  \E a \in Ancestors[b] : Number[a] = Number[c] + 1 /\ c \in Ancestors[a]
<1> DEFINE S == {a \in Ancestors[b] : Number[a] > Number[c]}
<1>1. Ancestors[b] \subseteq Block /\ b \in Ancestors[b]
  BY AncestorsTyped, AncestorsClosed
<1>2. S \in SUBSET Block /\ S # {}
  BY <1>1
<1>3. /\ MinNumber(S) \in Nat
      /\ \A a \in S : MinNumber(S) <= Number[a]
      /\ \E a \in S : Number[a] = MinNumber(S)
  <2> HIDE DEF S
  <2> QED
    BY <1>2, MinNumberOf
<1>4. PICK a \in S : Number[a] = MinNumber(S)
  BY <1>3
<1>5. a \in Block /\ a \in Ancestors[b] /\ Number[a] > Number[c]
  BY <1>1, <1>4
<1>6. c \in Ancestors[a]
  <2>1. a \in Ancestors[c] \/ c \in Ancestors[a]
    BY <1>5, AncestorsLinear DEF OnOneBranch
  <2>2. a \in Ancestors[c] => a = c \/ Number[a] < Number[c]
    BY AncestorsBelow
  <2> QED
    BY <1>5, <2>1, <2>2, NumberTyped
<1>7. a # Root
  BY <1>5, RootLowest, NumberTyped, BlockTreeAssumption
<1>8. Parent[a] \in Block /\ Number[a] = Number[Parent[a]] + 1 /\ Parent[a] \in Ancestors[b]
  BY <1>5, <1>7, AncestorsClosed, BlockTreeAssumption DEF NoNullRounds, ParentClosed
<1>9. ~(Number[Parent[a]] > Number[c])
  <2>1. Number[Parent[a]] > Number[c] => Parent[a] \in S
    BY <1>8
  <2>2. Number[Parent[a]] \in Nat /\ Number[a] \in Nat
    BY <1>5, <1>8, NumberTyped
  <2>3. Parent[a] \in S => Number[a] <= Number[Parent[a]]
    BY <1>3, <1>4
  <2> QED
    BY <1>8, <2>1, <2>2, <2>3
<1>10. Number[a] = Number[c] + 1
  BY <1>5, <1>8, <1>9, NumberTyped
<1> QED
  BY <1>5, <1>6, <1>10

LEMMA InitBranch == Init => BranchInv
<1> SUFFICES ASSUME Init PROVE BranchFacts
  BY InitPruned DEF BranchInv
<1>1. OneBranch
  BY DEF Init, OneBranch
<1>2. MadeDue /\ KeepsChild
  BY DEF Init, MadeDue, KeepsChild
<1> QED
  BY <1>1, <1>2 DEF BranchFacts

LEMMA BranchFrame ==
    ASSUME BranchFacts, UNCHANGED <<saved, pruned, canonical, pruning>>
    PROVE  BranchFacts'
BY DEF BranchFacts, OneBranch, MadeDue, KeepsChild, PruneHeight

LEMMA IndexBranch ==
    ASSUME NoNullRounds, TypeInv, InStep, BranchFacts,
           NEW t \in Block, NEW b \in Block, IndexBlock(t, b)
    PROVE  BranchFacts'
<1>1. /\ UNCHANGED <<pruned, canonical, pruning>> /\ saved' = saved \cup {b}
      /\ b \in Ancestors[t] /\ canonical \in Ancestors[t]
      /\ b # Root => Parent[b] \in saved /\ Number[b] > Number[canonical]
  BY BlocksTyped DEF IndexBlock, Fetched, WithinReorgDepth
<1>2. pruning = NoPruning /\ \A c \in saved : Number[c] <= Number[canonical] + MaxReorgDepth
  BY FetchedWithin DEF IndexBlock
<1>3. Number[b] \in Nat /\ Number[canonical] \in Nat /\ MaxReorgDepth \in Nat \ {0}
      /\ canonical \in Block /\ PruneHeight = Number[canonical] + 1 /\ Number[Root] \in Nat
  BY NumberTyped, BlocksTyped DEF PruneHeight
<1>4. OneBranch'
  <2>1. Number[b] <= Number[canonical] => b = Root
    BY <1>1, <1>3
  <2>2. Root \in Ancestors[canonical]
    BY <1>3, RootAssumption
  <2> QED
    BY <1>1, <2>1, <2>2 DEF BranchFacts, OneBranch
<1>5. MadeDue'
  <2>1. ASSUME Number[b] > Number[canonical] + MaxReorgDepth
        PROVE  canonical \in Ancestors[b] /\ Number[b] = PruneHeight + MaxReorgDepth
    <3>1. b # Root
      BY <1>3, <2>1, RootLowest
    <3>2. Number[b] = Number[Parent[b]] + 1 /\ Parent[b] \in saved
      BY <1>1, <3>1 DEF NoNullRounds
    <3>3. Number[Parent[b]] <= Number[canonical] + MaxReorgDepth /\ Number[Parent[b]] \in Nat
      BY <1>2, <3>2, BlocksTyped
    <3>4. canonical \in Ancestors[b] \/ b \in Ancestors[canonical]
      BY <1>1, AncestorsLinear DEF OnOneBranch
    <3>5. b \in Ancestors[canonical] => b = canonical \/ Number[b] < Number[canonical]
      BY <1>3, AncestorsBelow
    <3>6. canonical \in Ancestors[b]
      BY <1>3, <2>1, <3>4, <3>5
    <3> QED
      BY <1>3, <2>1, <3>2, <3>3, <3>6
  <2>2. PruneHeight' = PruneHeight
    BY <1>1 DEF PruneHeight
  <2>3. \A c \in saved : ~(Number[c] > Number[canonical] + MaxReorgDepth)
    BY <1>2, <1>3, BlocksTyped
  <2> QED
    BY <1>1, <1>2, <2>1, <2>2, <2>3 DEF MadeDue
<1>6. KeepsChild'
  BY <1>1, <1>2 DEF KeepsChild
<1> QED
  BY <1>4, <1>5, <1>6 DEF BranchFacts

\* between prune jobs none of the blocks above the canonical one is pruned
LEMMA UnprunedAbove ==
    ASSUME TypeInv, PruneFacts, pruning = NoPruning, NEW b \in saved,
           Number[b] > Number[canonical]
    PROVE  b \notin pruned
<1>1. b \in pruned => Number[b] <= Number[canonical]
  BY DEF PruneFacts, PrunedBelow, NoPruning
<1> QED
  BY <1>1, BlocksTyped

\* a prune job keeps the child of the canonical block on the branch that made it due
LEMMA PruneKeepsChild ==
    ASSUME NoNullRounds, TypeInv, InStep, PruneFacts, BranchFacts, PruneBlocks
    PROVE  \E w \in saved, k \in AtHeight(saved \ pruned, PruneHeight) :
              /\ Number[w] > Number[canonical] + MaxReorgDepth
              /\ k \in Ancestors[w] /\ canonical \in Ancestors[k]
              /\ pruned' = pruned \cup (AtHeight(saved \ pruned, PruneHeight) \ {k})
              /\ pruning'.keep = k
<1> DEFINE at == AtHeight(saved \ pruned, PruneHeight)
           low == {b \in saved \ pruned : Number[b] <= PruneHeight + MaxReorgDepth}
           top == Highest(low)
<1>1. PICK keep \in IF Cardinality(at) = 1 THEN at
                    ELSE UNION {StoredAncestor(t, PruneHeight) : t \in top} :
          /\ pruned' = pruned \cup (at \ {keep})
          /\ pruning' = [stage |-> IF at = {keep} THEN "commit" ELSE "rows",
                         keep |-> keep, drop |-> at \ {keep}]
  BY DEF PruneBlocks
<1>2. UNCHANGED <<saved, canonical>> /\ pruning = NoPruning
  BY DEF PruneBlocks, TypeInv, PruningTyped
<1>3. /\ Number[canonical] \in Nat /\ MaxReorgDepth \in Nat \ {0} /\ canonical \in Block
      /\ PruneHeight = Number[canonical] + 1 /\ saved \subseteq Block
      /\ \A b \in saved : Number[b] \in Nat
  BY BlocksTyped DEF PruneHeight
<1>4. PICK w \in saved : Number[w] > Number[canonical] + MaxReorgDepth
  <2>1. MaxNumber(saved) >= PruneHeight + MaxReorgDepth
    BY DEF PruneBlocks
  <2>2. /\ MaxNumber(saved) \in Nat
        /\ MaxNumber(saved) = 0 \/ \E b \in saved : Number[b] = MaxNumber(saved)
    BY MaxNumberOf, BlocksTyped DEF TypeInv, Bounded
  <2>3. PICK b \in saved : Number[b] = MaxNumber(saved)
    BY <1>3, <2>1, <2>2
  <2> QED
    BY <1>3, <2>1, <2>2, <2>3
<1>5. /\ canonical \in Ancestors[w] /\ Number[w] = PruneHeight + MaxReorgDepth
      /\ \A c \in saved \ {w} : Number[c] <= Number[canonical] + MaxReorgDepth
      /\ w \in Block /\ Number[w] > Number[canonical]
  BY <1>3, <1>4 DEF BranchFacts, MadeDue
<1>6. PICK k \in Ancestors[w] : Number[k] = Number[canonical] + 1 /\ canonical \in Ancestors[k]
  BY <1>3, <1>5, ChildTowards
<1>7. Ancestors[w] \subseteq saved
  BY <1>4, ClosedHoldsAncestors DEF InStep, RowsInStep
<1>8. k \in saved /\ k \in Block /\ Number[k] = PruneHeight /\ k \notin pruned
  <2>1. k \in saved /\ k \in Block /\ Number[k] = PruneHeight
    BY <1>3, <1>6, <1>7
  <2> QED
    BY <1>2, <1>3, <2>1, UnprunedAbove
<1>9. k \in at
  BY <1>8 DEF AtHeight
<1>10. top \subseteq {w}
  <2>1. w \in low
    BY <1>2, <1>3, <1>4, <1>5, UnprunedAbove
  <2>2. ASSUME NEW t \in top, t # w PROVE FALSE
    <3>1. t \in low /\ Number[w] <= Number[t]
      BY <2>1 DEF Highest
    <3>2. Number[t] <= Number[canonical] + MaxReorgDepth /\ Number[t] \in Nat
      BY <1>3, <1>5, <2>2, <3>1
    <3> QED
      BY <1>3, <1>5, <3>1, <3>2
  <2> QED
    BY <2>2
<1>11. keep = k
  <2>1. CASE Cardinality(at) = 1
    <3>1. keep \in at
      BY <1>1, <2>1
    <3>2. IsFiniteSet(at) => \E e : at = {e}
      BY <2>1, FS_Singleton
    <3>3. IsFiniteSet(at)
      <4>1. at \in SUBSET saved
        BY DEF AtHeight
      <4> QED
        BY <4>1, FS_Subset DEF InStep, RowsInStep
    <3> HIDE DEF at
    <3> QED
      BY <1>9, <3>1, <3>2, <3>3
  <2>2. CASE Cardinality(at) # 1
    <3>1. keep \in StoredAncestor(w, PruneHeight)
      BY <1>1, <1>10, <2>2
    <3>2. keep \in Ancestors[w] /\ Number[keep] = PruneHeight
      BY <3>1 DEF StoredAncestor, AtHeight
    <3> QED
      BY <1>5, <1>8, <3>2, OneAncestorPerHeight
  <2> QED
    BY <2>1, <2>2
<1>12. pruned' = pruned \cup (at \ {k}) /\ pruning'.keep = k
  BY <1>1, <1>11
<1> QED
  BY <1>4, <1>6, <1>9, <1>12

LEMMA PruneBlocksBranch ==
    ASSUME NoNullRounds, TypeInv, InStep, PruneFacts, BranchFacts, PruneBlocks
    PROVE  BranchFacts'
<1> DEFINE at == AtHeight(saved \ pruned, PruneHeight)
<1>1. UNCHANGED <<saved, canonical>>
  BY DEF PruneBlocks
<1>2. /\ Number[canonical] \in Nat /\ canonical \in Block /\ saved \subseteq Block
      /\ PruneHeight = Number[canonical] + 1
  BY BlocksTyped DEF PruneHeight
<1>3. PICK w \in saved, k \in at :
         /\ Number[w] > Number[canonical] + MaxReorgDepth
         /\ k \in Ancestors[w] /\ canonical \in Ancestors[k]
         /\ pruned' = pruned \cup (at \ {k})
         /\ pruning'.keep = k
  BY PruneKeepsChild
<1>4. k \in saved /\ k \in Block /\ Number[k] = PruneHeight /\ k \notin pruned
  BY <1>2 DEF AtHeight
<1>5. pruned' = pruned \cup (at \ {k}) /\ pruning'.keep = k /\ PruneHeight' = PruneHeight
  BY <1>1, <1>3 DEF PruneHeight
<1>6. OneBranch'
  <2>1. \A b \in at : Number[b] = PruneHeight /\ b \in Block
    BY <1>2 DEF AtHeight
  <2>2. \A b \in Ancestors[canonical] : Number[b] <= Number[canonical]
    <3>1. \A b \in Ancestors[canonical] : b = canonical \/ Number[b] < Number[canonical]
      BY <1>2, AncestorsBelow
    <3>2. \A b \in Ancestors[canonical] : Number[b] \in Nat
      BY <1>2, AncestorsTyped, NumberTyped
    <3> QED
      BY <1>2, <3>1, <3>2
  <2>3. Ancestors[canonical] \cap at = {}
    <3> SUFFICES ASSUME NEW b \in Ancestors[canonical], b \in at PROVE FALSE
      OBVIOUS
    <3>1. Number[b] <= Number[canonical] /\ Number[b] = Number[canonical] + 1
      BY <1>2, <2>1, <2>2
    <3> QED
      BY <1>2, <3>1
  <2> HIDE DEF at
  <2> QED
    BY <1>1, <1>5, <2>3 DEF BranchFacts, OneBranch
<1>7. MadeDue'
  BY <1>1, <1>5 DEF BranchFacts, MadeDue
<1>8. KeepsChild'
  <2>1. k # Root /\ Parent[k] = canonical
    BY <1>2, <1>3, <1>4, ChildOf
  <2>2. k \notin pruned'
    BY <1>4, <1>5
  <2>3. ASSUME NEW b \in saved \ pruned', Number[b] = PruneHeight
        PROVE  b = k
    <3>1. b \in saved /\ b \notin pruned /\ b \notin at \ {k}
      BY <1>5, <2>3
    <3>2. b \in at
      BY <2>3, <3>1 DEF AtHeight
    <3> QED
      BY <3>1, <3>2
  <2> QED
    BY <1>1, <1>5, <2>1, <2>2, <2>3 DEF KeepsChild
<1> QED
  BY <1>6, <1>7, <1>8 DEF BranchFacts

LEMMA CommitBranch ==
    ASSUME NoNullRounds, TypeInv, InStep, BranchFacts, PruneCommit
    PROVE  BranchFacts'
<1>1. /\ UNCHANGED <<saved, pruned>>
      /\ pruning # NoPruning /\ pruning' = NoPruning
      /\ canonical' = pruning.keep /\ Number[pruning.keep] = PruneHeight
      /\ pruning.keep \in saved /\ pruning.keep \in Block
      /\ PruneHeight = Number[canonical] + 1 /\ Number[canonical] \in Nat
  BY CommitTo, BlocksTyped
<1>2. PICK k \in Block : k = pruning.keep
  BY <1>1
<1>3. /\ k # Root /\ Parent[k] = canonical /\ k \notin pruned
      /\ \A b \in saved \ pruned : Number[b] = PruneHeight => b = k
  BY <1>1, <1>2 DEF BranchFacts, KeepsChild
<1>4. /\ Ancestors[k] \subseteq {k} \cup Ancestors[canonical] /\ k \in Ancestors[k]
      /\ Ancestors[canonical] \subseteq Ancestors[k] /\ canonical \in Block
  <2>1. canonical \in Block /\ k \in Ancestors[k]
    BY BlocksTyped, AncestorsClosed
  <2>2. canonical \in Ancestors[k]
    BY <1>3, AncestorsClosed DEF ParentClosed
  <2> QED
    BY <1>3, <2>1, <2>2, AncestorsOfParent, AncestorsTransitive
<1>5. OneBranch'
  <2>1. ASSUME NEW b \in saved \ pruned, Number[b] <= Number[k]
        PROVE  b \in Ancestors[k]
    <3>1. Number[b] \in Nat
      BY BlocksTyped
    <3>2. CASE Number[b] <= Number[canonical]
      BY <1>4, <3>2 DEF BranchFacts, OneBranch
    <3>3. CASE Number[b] = PruneHeight
      BY <1>3, <1>4, <3>3
    <3> QED
      BY <1>1, <1>2, <2>1, <3>1, <3>2, <3>3
  <2>2. Ancestors[k] \cap pruned = {}
    BY <1>3, <1>4 DEF BranchFacts, OneBranch
  <2> QED
    BY <1>1, <1>2, <2>1, <2>2 DEF OneBranch
<1>6. MadeDue'
  <2> SUFFICES ASSUME NEW b \in saved, Number[b] > Number[k] + MaxReorgDepth
               PROVE  FALSE
    BY <1>1, <1>2 DEF MadeDue
  <2>1. Number[b] \in Nat /\ MaxReorgDepth \in Nat
    BY BlocksTyped
  <2>2. Number[b] > Number[canonical] + MaxReorgDepth
    BY <1>1, <1>2, <2>1
  <2>3. Number[b] = PruneHeight + MaxReorgDepth
    BY <2>2 DEF BranchFacts, MadeDue
  <2> QED
    BY <1>1, <1>2, <2>1, <2>3
<1>7. KeepsChild'
  BY <1>1 DEF KeepsChild
<1> QED
  BY <1>5, <1>6, <1>7 DEF BranchFacts

LEMMA ResetBranch ==
    ASSUME TypeInv, InStep, BranchFacts, ResetAfterRetry
    PROVE  BranchFacts'
<1>1. PICK n \in Nat : n = Number[events.block]
  BY ResetAbove
<1>2. ResetWatcherToBlock(n) /\ Number[canonical] <= n /\ pruning' = pruning
  BY <1>1, ResetAbove
<1>3. saved' = saved \ Above(n) /\ pruned' = pruned \ Above(n) /\ canonical' = canonical
  BY <1>2, ResetKeeps
<1>4. PruneHeight' = PruneHeight /\ canonical \in Block
  BY <1>3, BlocksTyped DEF PruneHeight
<1>5. saved' \subseteq saved /\ pruned' \subseteq pruned /\ saved' \ pruned' \subseteq saved \ pruned
  BY <1>3
<1>6. OneBranch'
  BY <1>3, <1>5 DEF BranchFacts, OneBranch
<1>7. MadeDue'
  BY <1>3, <1>4, <1>5 DEF BranchFacts, MadeDue
<1>8. KeepsChild'
  BY <1>2, <1>3, <1>4, <1>5 DEF BranchFacts, KeepsChild
<1> QED
  BY <1>6, <1>7, <1>8 DEF BranchFacts

LEMMA BranchStep ==
    ASSUME NoNullRounds, BranchInv, [Next]_vars
    PROVE  BranchInv'
<1> SUFFICES ASSUME Unbroken' PROVE BranchFacts'
  BY PruneStep DEF BranchInv
<1>1. TypeInv /\ InStep /\ PruneFacts /\ BranchFacts
  BY FaultsGrow DEF BranchInv, PruneInv, StepInv, Unbroken
<1>2. ASSUME NEW t \in Block, NEW b \in Block, IndexBlock(t, b) PROVE BranchFacts'
  BY <1>1, <1>2, IndexBranch
<1>3. CASE \/ \E t \in Block : IndexBlockAgain(t)
           \/ \E c \in Block : RunHooks(c)
           \/ PruneRows \/ SaveVersion \/ HandlerFails \/ StatusFails
           \/ UNCHANGED vars
  <2>1. UNCHANGED <<saved, pruned, canonical>>
    BY <1>3 DEF IndexBlockAgain, RunHooks, PruneRows, SaveVersion, HandlerFails, StatusFails,
       vars, blockVars
  <2>2. CASE PruneRows
    <3>1. pruning # NoPruning /\ pruning' # NoPruning /\ pruning'.keep = pruning.keep
      BY <1>1, <2>2 DEF PruneRows, NoPruning, TypeInv, PruningTyped
    <3> QED
      BY <1>1, <2>1, <3>1 DEF BranchFacts, OneBranch, MadeDue, KeepsChild, PruneHeight
  <2>3. CASE ~PruneRows
    <3>1. pruning' = pruning
      BY <1>3, <2>3 DEF IndexBlockAgain, RunHooks, SaveVersion, HandlerFails, StatusFails, vars
    <3> QED
      BY <1>1, <2>1, <3>1, BranchFrame
  <2> QED
    BY <2>2, <2>3
<1>4. CASE ReadCache \/ ReadDatabase \/ SkipRemove \/ CacheVersion \/ CompleteBlock
           \/ UpdateProcessed \/ RetryEvents
  BY <1>1, <1>4, WorkerKeeps, BranchFrame
<1>5. CASE PruneBlocks \/ PruneCommit \/ ResetAfterRetry
  BY <1>1, <1>5, PruneBlocksBranch, CommitBranch, ResetBranch
<1>6. CASE PruneFails \/ Restart
  BY <1>6 DEF PruneFails, Restart, Faulty, Unbroken
<1> QED
  BY <1>2, <1>3, <1>4, <1>5, <1>6 DEF Next, EventWorkerStep

\* the rows that a query at a settled number sees are those of its branch
LEMMA GroupByBranch ==
    ASSUME PruneInv, OneBranch, Quiet, NEW b \in Ancestors[canonical], NEW x \in Entity
    PROVE  GroupBy(VisibleUpTo(Number[b]), x) = OnBranch(x, b)
<1> DEFINE A == {a \in Ancestors[b] : versions[<<x, a>>] # NoVersion}
           V == VersionsIn(VisibleUpTo(Number[b]), x)
<1>1. /\ canonical \in Block /\ b \in Block /\ Ancestors[b] \subseteq Block
      /\ Number[b] <= Number[canonical] /\ Ancestors[b] \subseteq Ancestors[canonical]
  <2>1. canonical \in Block /\ b \in Block
    BY BlocksTyped, AncestorsTyped DEF PruneInv, StepInv
  <2>2. Number[b] <= Number[canonical]
    BY <2>1, AncestorsBelow, NumberTyped
  <2> QED
    BY <2>1, <2>2, AncestorsTyped, AncestorsTransitive
<1>2. ASSUME NEW a \in Block, <<x, a>> \in Unpruned, Number[a] <= Number[b]
      PROVE  a \in A
  <2>1. a \notin pruned
    <3>1. PrunedRowsMarked
      BY PrunedMarked
    <3>2. <<x, a>>[2] \notin pruned
      BY <1>2, <3>1 DEF PrunedRowsMarked
    <3> QED
      BY <3>2
  <2>2. a \in saved /\ versions[<<x, a>>] # NoVersion
    <3>1. versions[<<x, a>>] # NoVersion => <<x, a>>[2] \in saved
      BY DEF PruneInv, StepInv, InStep, RowsInStep
    <3> QED
      BY <1>2, <3>1 DEF Unpruned
  <2>3. Number[a] <= Number[canonical]
    BY <1>1, <1>2, NumberTyped
  <2>4. a \in Ancestors[canonical]
    BY <2>1, <2>2, <2>3 DEF OneBranch
  <2>5. a \in Ancestors[b] \/ b \in Ancestors[a]
    BY <1>1, <2>4, AncestorsLinear DEF OnOneBranch
  <2>6. b \in Ancestors[a] => b = a \/ Number[b] < Number[a]
    BY AncestorsBelow
  <2>7. a \in Ancestors[b]
    BY <1>1, <1>2, <2>5, <2>6, NumberTyped, AncestorsClosed
  <2> QED
    BY <2>2, <2>7
<1>3. ASSUME NEW a \in A
      PROVE  a \in Block /\ <<x, a>> \in Unpruned /\ Number[a] <= Number[b]
  <2>1. a \in Block /\ a \notin pruned /\ versions[<<x, a>>] # NoVersion
    BY <1>1 DEF OneBranch
  <2>2. <<x, a>> \in prunedRows => <<x, a>>[2] \in pruned
    BY DEF PruneInv, StepInv, InStep, RowsInStep
  <2>3. Number[a] <= Number[b]
    BY <1>1, AncestorsBelow, NumberTyped
  <2> QED
    BY <2>1, <2>2, <2>3 DEF Unpruned
<1>4. \A a \in Block : a \in VersionsIn(Unpruned, x) <=> <<x, a>> \in Unpruned
  BY DEF VersionsIn, Unpruned
<1>5. \A a \in Block : a \in V <=> <<x, a>> \in Unpruned /\ Number[a] <= Number[b]
  BY DEF VersionsIn, VisibleUpTo, Unpruned
<1>6. V \subseteq Block /\ VersionsIn(Unpruned, x) \subseteq Block
  BY DEF VersionsIn, VisibleUpTo, Unpruned
<1>7. V = A
  BY <1>2, <1>3, <1>5, <1>6
<1>8. DistinctOn(VisibleUpTo(Number[b]), x) = OnBranch(x, b)
  BY <1>7 DEF DistinctOn, OnBranch
<1>9. ASSUME NEW a \in GroupBy(VisibleUpTo(Number[b]), x)
      PROVE  a \in OnBranch(x, b)
  <2>1. PICK c \in OnBranch(x, b) : Number[a] = Number[c]
    BY <1>8 DEF GroupBy
  <2>2. c \in A
    BY <2>1 DEF OnBranch, Highest
  <2>3. a \in Block /\ <<x, a>> \in Unpruned
    BY <1>4, <1>6 DEF GroupBy
  <2>4. a \in A
    BY <1>2, <1>3, <2>1, <2>2, <2>3
  <2>5. a = c
    BY <1>1, <2>1, <2>2, <2>4, OneAncestorPerHeight
  <2> QED
    BY <2>1, <2>5
<1>10. ASSUME NEW a \in OnBranch(x, b)
       PROVE  a \in GroupBy(VisibleUpTo(Number[b]), x)
  <2>1. a \in A
    BY DEF OnBranch, Highest
  <2>2. a \in VersionsIn(Unpruned, x)
    BY <1>3, <1>4, <2>1
  <2> QED
    BY <1>8, <1>10, <2>2 DEF GroupBy
<1> QED
  BY <1>9, <1>10

LEMMA ListedAtNumber == BranchInv => ListsAtNumber
<1> SUFFICES ASSUME BranchInv, Quiet, NEW b \in Ancestors[canonical], NEW x \in Entity
             PROVE  GroupBy(VisibleUpTo(Number[b]), x) = OnBranch(x, b)
  BY DEF ListsAtNumber
<1>1. PruneInv /\ OneBranch
  BY DEF BranchInv, BranchFacts, Quiet, Unbroken
<1> QED
  BY <1>1, GroupByBranch

\* Through every fault, a query at a block hash on a branch that is not pruned returns the
\* last version of each entity on that branch, as long as it sees no later version below
\* the frothy region (getEntitiesDistinctOn, applyBlockHeightFilter); the latest-entity
\* table finds it for the entities that the first block created.
THEOREM ListsAtBlockHash == Spec => []ListsAtHash
BY InitListed, ListStep, ListedAtHash, PTL DEF Spec

\* Without null rounds also a query at a number, once the canonical block has passed it:
\* what pruning leaves at the settled heights is the branch of the canonical block, each
\* prune job keeping a child of it, though handlers and the steps after them fail and
\* the watcher is reset in between (_pruneChain, getEntitiesGroupBy).
THEOREM ListsStayOnBranch ==
    ASSUME NoNullRounds
    PROVE  Spec => []ListsFollowBranch
<1>1. ListInv /\ BranchInv => ListsFollowBranch
  BY ListedAtHash, ListedAtNumber DEF ListsFollowBranch
<1>2. Init => ListInv /\ BranchInv
  BY InitListed, InitBranch
<1>3. ListInv /\ BranchInv /\ [Next]_vars => (ListInv /\ BranchInv)'
  BY ListStep, BranchStep
<1> QED
  BY <1>1, <1>2, <1>3, PTL DEF Spec

-------------------------------------------------------------------------------
(* Reads of the cache.                                                       *)

InCache(a) == frothyBlocks[a] # NoVersion
PrunedCached == \E x \in Entity : latestPruned[x] # NoVersion
CacheEmpty == (\A a \in Block : ~InCache(a)) /\ ~PrunedCached

\* the version is in the table, and is put in the cache with the next step
Pending(x, a) == events.stage = "cache" /\ a = events.block /\ x = Operation_.id

\* no handler reads the version of another branch
OwnReads == AtOperation("load") => ~ReadsOtherBranch(Operation_.id, events.block)

\* at least none that puts what it reads in the cache
OwnFills == CacheUsed(events.block) => OwnReads

\* The job that runs is on a branch without pruned blocks, and for the only row that
\* is not complete.
RunsOnBranch ==
    /\ Busy => Ancestors[events.block] \cap pruned = {}
    /\ saved \subseteq complete \cup {events.block}

\* A block is processed again after a failure without a cache.
RetriedBare == events.stage \in {"failed", "reset"} \/ events.retry => CacheEmpty

\* What the cache has of a block is what the table has, and it has the blocks after it.
CachedSaved ==
    \A a \in Block : InCache(a) =>
        /\ a \in saved
        /\ \A b \in saved : a \in Ancestors[b] => InCache(b)
        /\ \A x \in Entity : ~Pending(x, a) => frothyBlocks[a][x] = versions[<<x, a>>]

\* The hooks have run up to a block below the canonical one, and moved the blocks of
\* the cache up to it.
HookedBelow ==
    hooked # NoBlock => /\ hooked \in Ancestors[canonical] \ {canonical}
                        /\ \A a \in Block : InCache(a) => Number[a] > Number[hooked]

\* Once there is an entity outside of the frothy region, the cache has all blocks after
\* the hooked one, and what it has moved is the last version on the branch up to there.
PrunedRight ==
    /\ PrunedCached => /\ hooked # NoBlock
                       /\ \A b \in saved : hooked \in Ancestors[b] /\ b # hooked => InCache(b)
    /\ \A x \in Entity : latestPruned[x] # NoVersion =>
          \E a \in OnBranch(x, hooked) : versions[<<x, a>>] = latestPruned[x]

\* What a read is about to put there is that version too, and still the last one.
FillRight ==
    events.fill =>
        /\ events.stage = "save"
        /\ PrunedCached
        /\ \E a \in OnBranch(Operation_.id, hooked) : versions[<<Operation_.id, a>>] = events.got
        /\ \A a \in Ancestors[events.block] :
              Number[a] > Number[hooked] => versions[<<Operation_.id, a>>] = NoVersion

GotSaved == events.stage = "cache" => versions[<<Operation_.id, events.block>>] = events.got

CacheFacts ==
    RunsOnBranch /\ RetriedBare /\ CachedSaved /\ HookedBelow /\ PrunedRight /\ FillRight /\ GotSaved

CacheInv == BranchInv /\ (Unbroken /\ "status" \notin faults => CacheFacts)

-------------------------------------------------------------------------------
\* without null rounds a branch has a block at every height from the root's on
LEMMA AncestorAt ==
    ASSUME NoNullRounds, NEW b \in Block, NEW n \in Nat, Number[Root] <= n, n <= Number[b]
    PROVE  \E a \in Ancestors[b] : Number[a] = n
<1> DEFINE S == {a \in Ancestors[b] : Number[a] >= n}
<1>1. Ancestors[b] \subseteq Block /\ b \in Ancestors[b]
  BY AncestorsTyped, AncestorsClosed
<1>2. S \in SUBSET Block /\ S # {}
  BY <1>1, NumberTyped
<1>3. /\ MinNumber(S) \in Nat
      /\ \A a \in S : MinNumber(S) <= Number[a]
      /\ \E a \in S : Number[a] = MinNumber(S)
  <2> HIDE DEF S
  <2> QED
    BY <1>2, MinNumberOf
<1>4. PICK a \in S : Number[a] = MinNumber(S)
  BY <1>3
<1>5. a \in Block /\ a \in Ancestors[b] /\ Number[a] >= n /\ Number[a] \in Nat
  BY <1>1, <1>4, NumberTyped
<1>6. ASSUME Number[a] # n PROVE FALSE
  <2>1. a # Root
    BY <1>5, <1>6, BlockTreeAssumption
  <2>2. Parent[a] \in Block /\ Number[a] = Number[Parent[a]] + 1 /\ Parent[a] \in Ancestors[b]
    BY <1>5, <2>1, AncestorsClosed, BlockTreeAssumption DEF NoNullRounds, ParentClosed
  <2>3. Number[Parent[a]] \in Nat /\ Number[Parent[a]] >= n
    BY <1>5, <1>6, <2>2, NumberTyped
  <2>4. Parent[a] \in S
    BY <2>2, <2>3
  <2>5. Number[a] <= Number[Parent[a]]
    BY <1>3, <1>4, <2>4
  <2> QED
    BY <1>5, <2>2, <2>3, <2>5
<1> QED
  BY <1>5, <1>6

\* of two ancestors of a block the lower one is an ancestor of the other
LEMMA LowerAncestor ==
    ASSUME NEW b \in Block, NEW c \in Ancestors[b], NEW a \in Ancestors[b], Number[a] <= Number[c]
    PROVE  a \in Ancestors[c]
<1>1. a \in Block /\ c \in Block
  BY AncestorsTyped
<1>2. a \in Ancestors[c] \/ c \in Ancestors[a]
  BY AncestorsLinear DEF OnOneBranch
<1>3. c \in Ancestors[a] => c = a \/ Number[c] < Number[a]
  BY <1>1, AncestorsBelow
<1> QED
  BY <1>1, <1>2, <1>3, NumberTyped, AncestorsClosed

\* a branch without pruned blocks that reaches the canonical height holds the canonical block
LEMMA CanonicalOn ==
    ASSUME NoNullRounds, TypeInv, InStep, OneBranch, NEW b \in saved,
           Ancestors[b] \cap pruned = {}, Number[canonical] <= Number[b]
    PROVE  canonical \in Ancestors[b]
<1>1. b \in Block /\ canonical \in Block /\ Number[canonical] \in Nat
  BY BlocksTyped
<1>2. Number[Root] <= Number[canonical]
  BY <1>1, RootLowest, BlocksTyped
<1>3. PICK a \in Ancestors[b] : Number[a] = Number[canonical]
  BY <1>1, <1>2, AncestorAt
<1>4. a \in saved
  BY ClosedHoldsAncestors DEF InStep, RowsInStep
<1>5. a \in Ancestors[canonical]
  BY <1>1, <1>3, <1>4 DEF OneBranch
<1> QED
  BY <1>1, <1>3, <1>5, OneAncestorPerHeight, AncestorsClosed

\* the blocks of a set are found by their versions
Versioned(S, x) == {a \in S : versions[<<x, a>>] # NoVersion}

\* the nearest version of the blocks down to some height is the last one of the branch
LEMMA NearOnBranch ==
    ASSUME NEW b \in Block, NEW x \in Entity, NEW R \in SUBSET Ancestors[b],
           \A c \in R, a \in Ancestors[b] : Number[c] <= Number[a] => a \in R,
           Highest(Versioned(R, x)) # {}
    PROVE  OnBranch(x, b) = Highest(Versioned(R, x))
<1> DEFINE A == Versioned(R, x)
           V == Versioned(Ancestors[b], x)
<1>1. V \in SUBSET Block /\ A \in SUBSET Block /\ A \subseteq V
  BY AncestorsTyped DEF Versioned
<1>2. PICK h \in Highest(A) : TRUE
  OBVIOUS
<1>3. h \in R
  BY <1>2 DEF Highest, Versioned
<1>4. ASSUME NEW v \in V \ A
      PROVE  Number[v] < Number[h]
  <2>1. v \in Ancestors[b] /\ v \notin R
    BY DEF Versioned
  <2>2. ~(Number[h] <= Number[v])
    BY <1>3, <2>1
  <2> QED
    BY <1>1, <1>3, <2>1, <2>2, NumberTyped, AncestorsTyped
<1>5. Highest(V) = Highest(A)
  <2> HIDE DEF A, V
  <2> QED
    BY <1>1, <1>2, <1>4, HighestOfBoth
<1> QED
  BY <1>5 DEF OnBranch, Versioned

\* without one there the latest row up to the next height is, unless it is of another branch
LEMMA FoundOnBranch ==
    ASSUME TypeInv, InStep, NEW b \in saved, NEW x \in Entity, NEW R \in SUBSET Ancestors[b],
           Ancestors[b] \cap pruned = {}, R # {},
           \A c \in R, a \in Ancestors[b] : Number[c] <= Number[a] => a \in R,
           \A a \in R : versions[<<x, a>>] = NoVersion,
           ~ \E a \in VersionsIn(Unpruned, x) \ Ancestors[b] :
                /\ Number[a] <= MinNumber(R) + 1
                /\ \A c \in OnBranch(x, b) : Number[c] <= Number[a]
    PROVE  LatestPrunedEntity(x, MinNumber(R) + 1) = OnBranch(x, b)
<1> DEFINE m == MinNumber(R)
           A == Versioned(Ancestors[b], x)
           V == {a \in Block : <<x, a>> \in Unpruned /\ Number[a] <= m + 1}
<1>1. b \in Block /\ Ancestors[b] \subseteq Block /\ R \in SUBSET Block
  BY BlocksTyped, AncestorsTyped
<1>2. m \in Nat /\ (\A a \in R : m <= Number[a]) /\ \E a \in R : Number[a] = m
  BY <1>1, MinNumberOf
<1>3. ASSUME NEW a \in A
      PROVE  a \in V
  <2>1. a \in Block /\ a \in Ancestors[b] /\ versions[<<x, a>>] # NoVersion
    BY <1>1 DEF Versioned
  <2>2. <<x, a>> \notin prunedRows
    <3>1. <<x, a>> \in prunedRows => <<x, a>>[2] \in pruned
      BY DEF InStep, RowsInStep
    <3> QED
      BY <2>1, <3>1
  <2>3. a \notin R
    BY <2>1
  <2>4. PICK c \in R : Number[c] = m
    BY <1>2
  <2>5. ~(m <= Number[a])
    BY <2>1, <2>3, <2>4
  <2>6. Number[a] <= m + 1
    BY <1>2, <2>1, <2>5, NumberTyped
  <2> QED
    BY <2>1, <2>2, <2>6 DEF Unpruned
<1>4. ASSUME NEW v \in V \ A
      PROVE  \E c \in Highest(A) : Number[v] < Number[c]
  <2>1. v \in Block /\ <<x, v>> \in Unpruned /\ Number[v] <= m + 1
    OBVIOUS
  <2>2. v \notin Ancestors[b]
    BY <2>1 DEF Unpruned, Versioned
  <2>3. v \in VersionsIn(Unpruned, x) \ Ancestors[b]
    BY <2>1, <2>2 DEF VersionsIn
  <2>4. PICK c \in OnBranch(x, b) : ~(Number[c] <= Number[v])
    BY <2>1, <2>3
  <2>5. c \in Highest(A) /\ c \in Block
    BY <1>1, <2>4 DEF OnBranch, Highest, Versioned
  <2>6. Number[v] < Number[c]
    BY <2>1, <2>4, <2>5, NumberTyped
  <2> QED
    BY <2>5, <2>6
<1>5. A \in SUBSET Block /\ V \in SUBSET Block /\ A \subseteq V
  BY <1>1, <1>3 DEF Versioned
<1>6. Highest(V) = Highest(A)
  <2> HIDE DEF A, V
  <2> QED
    BY <1>4, <1>5, HighestOfBoth
<1> QED
  BY <1>6 DEF OnBranch, Versioned, LatestPrunedEntity, LatestOf

\* the last version of a branch is the one below some block, if there is none after it
LEMMA OnBranchBelow ==
    ASSUME NEW b \in Block, NEW x \in Entity, NEW h \in Ancestors[b],
           \A a \in Ancestors[b] : Number[a] > Number[h] => versions[<<x, a>>] = NoVersion
    PROVE  OnBranch(x, b) = OnBranch(x, h)
<1>1. h \in Block /\ Ancestors[h] \subseteq Ancestors[b] /\ Ancestors[b] \subseteq Block
  BY AncestorsTyped, AncestorsTransitive
<1>2. \A a \in Ancestors[b] : versions[<<x, a>>] # NoVersion => a \in Ancestors[h]
  BY <1>1, LowerAncestor, NumberTyped
<1>3. {a \in Ancestors[b] : versions[<<x, a>>] # NoVersion}
        = {a \in Ancestors[h] : versions[<<x, a>>] # NoVersion}
  BY <1>1, <1>2
<1> QED
  BY <1>3 DEF OnBranch

\* a branch has one last version of an entity
LEMMA OneOnBranch ==
    ASSUME NEW b \in Block, NEW x \in Entity, NEW a \in OnBranch(x, b)
    PROVE  /\ a \in Ancestors[b] /\ versions[<<x, a>>] # NoVersion
           /\ \A c \in OnBranch(x, b) : c = a
<1>1. \A c \in OnBranch(x, b) : c \in Ancestors[b] /\ versions[<<x, c>>] # NoVersion
                                /\ \A d \in OnBranch(x, b) : Number[d] <= Number[c]
  BY DEF OnBranch, Highest
<1>2. ASSUME NEW c \in OnBranch(x, b)
      PROVE  Number[c] = Number[a]
  <2>1. Number[c] <= Number[a] /\ Number[a] <= Number[c] /\ c \in Ancestors[b] /\ a \in Ancestors[b]
    BY <1>1
  <2>2. Number[c] \in Nat /\ Number[a] \in Nat
    BY <2>1, NumberTyped, AncestorsTyped
  <2> QED
    BY <2>1, <2>2
<1> QED
  BY <1>1, <1>2, OneAncestorPerHeight

\* the last version is the same as long as those of the branch are
LEMMA SameOnBranch ==
    ASSUME NEW b, NEW x, \A a \in Ancestors[b] : versions'[<<x, a>>] = versions[<<x, a>>]
    PROVE  OnBranch(x, b)' = OnBranch(x, b)
<1>1. {a \in Ancestors[b] : versions'[<<x, a>>] # NoVersion}
        = {a \in Ancestors[b] : versions[<<x, a>>] # NoVersion}
  OBVIOUS
<1> QED
  BY <1>1 DEF OnBranch

\* Once it is used, the cache has the blocks of a branch after the hooked one.
LEMMA CachedAbove ==
    ASSUME TypeInv, InStep, CachedSaved, HookedBelow, PrunedRight,
           NEW b \in saved, canonical \in Ancestors[b], CacheUsed(b)
    PROVE  /\ PrunedCached /\ hooked \in Ancestors[b] /\ hooked \in Block
           /\ CachedBranch(b) = {a \in Ancestors[b] : Number[a] > Number[hooked]}
           /\ CachedBranch(b) # {}
           /\ \A a \in CachedBranch(b) : InCache(a)
<1>1. PrunedCached /\ CachedBranch(b) # {}
  BY DEF CacheUsed, PrunedCached
<1>2. b \in Block /\ Ancestors[b] \subseteq Block /\ b \in Ancestors[b] /\ canonical \in Block
  BY BlocksTyped, AncestorsTyped, AncestorsClosed
<1>3. hooked # NoBlock /\ hooked \in Ancestors[canonical]
  BY <1>1 DEF PrunedRight, HookedBelow
<1>4. hooked \in Ancestors[b] /\ hooked \in Block
  BY <1>2, <1>3, AncestorsTransitive
<1>5. ASSUME NEW a \in Ancestors[b], Number[a] > Number[hooked]
      PROVE  InCache(a)
  <2>1. a \in saved
    BY ClosedHoldsAncestors DEF InStep, RowsInStep
  <2>2. hooked \in Ancestors[a] /\ a # hooked
    BY <1>2, <1>4, <1>5, LowerAncestor, NumberTyped
  <2> QED
    BY <1>1, <2>1, <2>2 DEF PrunedRight
<1>6. \A a \in Ancestors[b] : InCache(a) => Number[a] > Number[hooked]
  BY <1>2, <1>3 DEF HookedBelow
<1>7. ASSUME NEW a \in CachedBranch(b)
      PROVE  a \in Ancestors[b] /\ InCache(a)
  <2>1. a \in Ancestors[b] /\ Number[a] <= Number[a]
    BY <1>2, NumberTyped DEF CachedBranch
  <2> QED
    BY <2>1 DEF CachedBranch, InCache
<1>8. ASSUME NEW a \in Ancestors[b], Number[a] > Number[hooked]
      PROVE  a \in CachedBranch(b)
  <2>1. \A c \in Ancestors[b] : Number[a] <= Number[c] => Number[c] > Number[hooked]
    BY <1>2, <1>4, <1>8, NumberTyped
  <2> QED
    BY <1>5, <2>1 DEF CachedBranch, InCache
<1>9. CachedBranch(b) = {a \in Ancestors[b] : Number[a] > Number[hooked]}
  BY <1>6, <1>7, <1>8
<1> QED
  BY <1>1, <1>4, <1>7, <1>9

\* A read that misses the cache finds no version after the hooked block; its query finds
\* the last one before, unless that is of another branch.
LEMMA MissOnBranch ==
    ASSUME TypeInv, InStep, CachedSaved, HookedBelow, PrunedRight,
           NEW b \in saved, canonical \in Ancestors[b], CacheUsed(b),
           Ancestors[b] \cap pruned = {}, NEW x \in Entity, \A a \in Ancestors[b] : ~Pending(x, a),
           CacheHit(x, b) = NoVersion, ~ReadsOtherBranch(x, b)
    PROVE  /\ \A a \in Ancestors[b] : Number[a] > Number[hooked] => versions[<<x, a>>] = NoVersion
           /\ LatestPrunedEntity(x, MinNumber(CachedBranch(b)) + 1) = OnBranch(x, b)
<1> DEFINE R == CachedBranch(b)
           near == Highest({a \in R : frothyBlocks[a][x] # NoVersion})
<1>1. /\ hooked \in Ancestors[b] /\ hooked \in Block /\ R # {}
      /\ R = {a \in Ancestors[b] : Number[a] > Number[hooked]}
      /\ \A a \in R : InCache(a)
  BY CachedAbove
<1>2. R \in SUBSET Ancestors[b] /\ R \in SUBSET Block /\ b \in Block
  BY <1>1, AncestorsTyped, BlocksTyped
<1>3. \A a \in R : frothyBlocks[a][x] = versions[<<x, a>>]
  BY <1>1, <1>2 DEF CachedSaved
<1>4. \A a \in R : versions[<<x, a>>] = NoVersion
  <2> SUFFICES ASSUME NEW a \in R, versions[<<x, a>>] # NoVersion PROVE FALSE
    OBVIOUS
  <2> DEFINE S == {c \in R : frothyBlocks[c][x] # NoVersion}
  <2>1. S \in SUBSET Block /\ S # {}
    BY <1>2, <1>3
  <2>2. Number[b] \in Nat /\ \A c \in S : Number[c] <= Number[b]
    <3>1. \A c \in Ancestors[b] : c = b \/ Number[c] < Number[b]
      BY <1>2, AncestorsBelow
    <3> QED
      BY <1>2, <3>1, NumberTyped
  <2>3. near # {}
    <3>1. Highest(S) # {}
      <4> HIDE DEF S
      <4> QED
        BY <2>1, <2>2, HighestExists
    <3> QED
      BY <3>1
  <2>4. CacheHit(x, b) = frothyBlocks[CHOOSE c \in near : TRUE][x]
    BY <2>3 DEF CacheHit
  <2>5. PICK h \in near : h = CHOOSE c \in near : TRUE
    BY <2>3
  <2>6. frothyBlocks[h][x] # NoVersion
    BY DEF Highest
  <2> QED
    BY <2>4, <2>5, <2>6
<1>5. \A c \in R, a \in Ancestors[b] : Number[c] <= Number[a] => a \in R
  BY <1>1, <1>2, NumberTyped, AncestorsTyped
<1>6. Nearby(b) = R
  BY DEF Nearby
<1>7. ~ \E a \in VersionsIn(Unpruned, x) \ Ancestors[b] :
         /\ Number[a] <= MinNumber(R) + 1
         /\ \A c \in OnBranch(x, b) : Number[c] <= Number[a]
  BY <1>4, <1>6 DEF ReadsOtherBranch
<1>8. LatestPrunedEntity(x, MinNumber(R) + 1) = OnBranch(x, b)
  <2> HIDE DEF R
  <2> QED
    BY <1>1, <1>2, <1>4, <1>5, <1>7, FoundOnBranch
<1> QED
  BY <1>1, <1>4, <1>8

\* What the cache returns is the last version of the branch.
LEMMA HitOnBranch ==
    ASSUME TypeInv, InStep, CachedSaved, HookedBelow, PrunedRight,
           NEW b \in saved, canonical \in Ancestors[b],
           NEW x \in Entity, \A a \in Ancestors[b] : ~Pending(x, a),
           CacheHit(x, b) # NoVersion
    PROVE  \E a \in OnBranch(x, b) : versions[<<x, a>>] = CacheHit(x, b)
<1> DEFINE R == CachedBranch(b)
           S == {a \in R : frothyBlocks[a][x] # NoVersion}
<1>1. CacheUsed(b)
  BY DEF CacheHit
<1>2. /\ hooked \in Ancestors[b] /\ hooked \in Block /\ R # {}
      /\ R = {a \in Ancestors[b] : Number[a] > Number[hooked]}
      /\ \A a \in R : InCache(a)
  BY <1>1, CachedAbove
<1>3. R \in SUBSET Ancestors[b] /\ R \in SUBSET Block /\ b \in Block
  BY <1>2, AncestorsTyped, BlocksTyped
<1>4. \A a \in R : frothyBlocks[a][x] = versions[<<x, a>>]
  BY <1>2, <1>3 DEF CachedSaved
<1>5. S = Versioned(R, x)
  BY <1>4 DEF Versioned
<1>6. \A c \in R, a \in Ancestors[b] : Number[c] <= Number[a] => a \in R
  BY <1>2, <1>3, NumberTyped, AncestorsTyped
<1>7. CASE Highest(S) # {}
  <2>1. OnBranch(x, b) = Highest(S)
    <3>1. OnBranch(x, b) = Highest(Versioned(R, x))
      <4> HIDE DEF R
      <4> QED
        BY <1>3, <1>5, <1>6, <1>7, NearOnBranch
    <3> QED
      BY <1>5, <3>1
  <2>2. CacheHit(x, b) = frothyBlocks[CHOOSE c \in Highest(S) : TRUE][x]
    BY <1>1, <1>7 DEF CacheHit
  <2>3. PICK h \in Highest(S) : h = CHOOSE c \in Highest(S) : TRUE
    BY <1>7
  <2>4. h \in R
    BY DEF Highest
  <2>5. CacheHit(x, b) = versions[<<x, h>>]
    BY <1>4, <2>2, <2>3, <2>4
  <2> QED
    BY <2>1, <2>3, <2>5
<1>8. CASE Highest(S) = {}
  <2>1. CacheHit(x, b) = latestPruned[x]
    BY <1>1, <1>8 DEF CacheHit
  <2>2. PICK a \in OnBranch(x, hooked) : versions[<<x, a>>] = latestPruned[x]
    BY <2>1 DEF PrunedRight
  <2>3. S = {}
    <3>1. S \in SUBSET Block
      BY <1>3
    <3>2. Number[b] \in Nat /\ \A c \in S : Number[c] <= Number[b]
      <4>1. \A c \in Ancestors[b] : c = b \/ Number[c] < Number[b]
        BY <1>3, AncestorsBelow
      <4> QED
        BY <1>3, <4>1, NumberTyped
    <3> HIDE DEF S
    <3> QED
      BY <1>8, <3>1, <3>2, HighestExists
  <2>4. \A c \in Ancestors[b] : Number[c] > Number[hooked] => versions[<<x, c>>] = NoVersion
    BY <1>2, <1>4, <2>3
  <2>5. OnBranch(x, b) = OnBranch(x, hooked)
    BY <1>2, <1>3, <2>4, OnBranchBelow
  <2> QED
    BY <2>1, <2>2, <2>5
<1> QED
  BY <1>7, <1>8

\* Without the cache the query goes through the frothy region first.
LEMMA StoreOnBranch ==
    ASSUME TypeInv, InStep, NEW b \in saved, Ancestors[b] \cap pruned = {}, NEW x \in Entity,
           ~CacheUsed(b), ~ReadsOtherBranch(x, b)
    PROVE  PrevEntityVersion(x, b) = OnBranch(x, b)
<1> DEFINE R == FrothyRegion(b)
           near == Highest(Versioned(R, x))
<1>1. b \in Block /\ R \in SUBSET Ancestors[b] /\ R # {} /\ R \in SUBSET Block
  BY BlocksTyped, FrothyHolds DEF FrothyRegion
<1>2. \A c \in R, a \in Ancestors[b] : Number[c] <= Number[a] => a \in R
  BY <1>1, FrothyFromAbove
<1>3. PrevEntityVersion(x, b) = IF near # {} THEN near ELSE LatestPrunedEntity(x, MinNumber(R) + 1)
  BY DEF PrevEntityVersion, Versioned
<1>4. CASE near # {}
  <2>1. OnBranch(x, b) = Highest(Versioned(R, x))
    <3> HIDE DEF R
    <3> QED
      BY <1>1, <1>2, <1>4, NearOnBranch
  <2> QED
    BY <1>3, <1>4, <2>1
<1>5. CASE near = {}
  <2>1. Versioned(R, x) = {}
    <3>1. Versioned(R, x) \in SUBSET Block
      BY <1>1 DEF Versioned
    <3>2. Number[b] \in Nat /\ \A c \in Versioned(R, x) : Number[c] <= Number[b]
      <4>1. \A c \in Ancestors[b] : c = b \/ Number[c] < Number[b]
        BY <1>1, AncestorsBelow
      <4> QED
        BY <1>1, <4>1, NumberTyped DEF Versioned
    <3> QED
      BY <1>5, <3>1, <3>2, HighestExists
  <2>2. \A a \in R : versions[<<x, a>>] = NoVersion
    BY <2>1 DEF Versioned
  <2>3. CacheHit(x, b) = NoVersion /\ Nearby(b) = R
    BY DEF CacheHit, Nearby
  <2>4. ~ \E a \in VersionsIn(Unpruned, x) \ Ancestors[b] :
           /\ Number[a] <= MinNumber(R) + 1
           /\ \A c \in OnBranch(x, b) : Number[c] <= Number[a]
    BY <2>2, <2>3 DEF ReadsOtherBranch
  <2>5. LatestPrunedEntity(x, MinNumber(R) + 1) = OnBranch(x, b)
    <3> HIDE DEF R
    <3> QED
      BY <1>1, <1>2, <2>2, <2>4, FoundOnBranch
  <2> QED
    BY <1>3, <1>5, <2>5
<1> QED
  BY <1>4, <1>5

\* A read returns the last version of the branch.
LEMMA ReadOnBranch ==
    ASSUME TypeInv, InStep, CachedSaved, HookedBelow, PrunedRight,
           NEW b \in saved, canonical \in Ancestors[b], Ancestors[b] \cap pruned = {},
           NEW x \in Entity, \A a \in Ancestors[b] : ~Pending(x, a), ~ReadsOtherBranch(x, b)
    PROVE  {AsRead(v) : v \in EntityAt(x, b)} = ValueOf(OnBranch(x, b), x)
<1>1. b \in Block
  BY BlocksTyped
<1>2. CASE CacheHit(x, b) # NoVersion
  <2>1. PICK a \in OnBranch(x, b) : versions[<<x, a>>] = CacheHit(x, b)
    BY <1>2, HitOnBranch
  <2>2. \A c \in OnBranch(x, b) : c = a
    BY <1>1, OneOnBranch
  <2>3. ValueOf(OnBranch(x, b), x) = {versions[<<x, a>>]}
    BY <2>2 DEF ValueOf
  <2>4. EntityAt(x, b) = {CacheHit(x, b)} /\ AsRead(CacheHit(x, b)) = CacheHit(x, b)
    BY <1>2 DEF EntityAt, AsRead
  <2> QED
    BY <2>1, <2>3, <2>4
<1>3. CASE CacheHit(x, b) = NoVersion
  <2>2. QueryResults(x, b) = IF OnBranch(x, b) = {} THEN {NoVersion}
                             ELSE {versions[<<x, a>>] : a \in OnBranch(x, b)}
    <3>1. CASE CacheUsed(b)
      <4>1. LatestPrunedEntity(x, MinNumber(CachedBranch(b)) + 1) = OnBranch(x, b)
        BY <1>3, <3>1, MissOnBranch
      <4> QED
        BY <3>1, <4>1 DEF QueryResults
    <3>2. CASE ~CacheUsed(b)
      <4>1. PrevEntityVersion(x, b) = OnBranch(x, b)
        BY <3>2, StoreOnBranch
      <4> QED
        BY <3>2, <4>1 DEF QueryResults
    <3> QED
      BY <3>1, <3>2
  <2>3. EntityAt(x, b) = QueryResults(x, b)
    BY <1>3 DEF EntityAt
  <2>4. CASE OnBranch(x, b) = {}
    BY <2>2, <2>3, <2>4 DEF AsRead, ValueOf
  <2>5. CASE OnBranch(x, b) # {}
    <3>1. PICK a \in OnBranch(x, b) : TRUE
      BY <2>5
    <3>2. versions[<<x, a>>] # NoVersion /\ \A c \in OnBranch(x, b) : c = a
      BY <1>1, OneOnBranch
    <3>3. ValueOf(OnBranch(x, b), x) = {versions[<<x, a>>]}
      BY <3>2 DEF ValueOf
    <3>4. EntityAt(x, b) = {versions[<<x, a>>]}
      BY <2>2, <2>3, <2>5, <3>2
    <3> QED
      BY <3>2, <3>3, <3>4 DEF AsRead
  <2> QED
    BY <2>4, <2>5
<1> QED
  BY <1>2, <1>3

-------------------------------------------------------------------------------
(* The cache in step.                                                        *)

InHand == TypeInv /\ InStep /\ PruneFacts /\ BranchFacts /\ CacheFacts

\* the job that runs is above the canonical block, and so above the hooked one
LEMMA RunsOver ==
    ASSUME NoNullRounds, InHand, Busy
    PROVE  /\ events.block \in saved /\ events.block \in Block
           /\ canonical \in Ancestors[events.block]
           /\ Number[canonical] <= Number[events.block]
           /\ hooked # NoBlock =>
                 /\ hooked \in Block /\ hooked \in Ancestors[events.block]
                 /\ Number[hooked] < Number[events.block]
                 /\ events.block \notin Ancestors[hooked]
<1>1. TypeInv /\ InStep /\ OneBranch /\ RunsOnBranch /\ HookedBelow
  BY DEF InHand, BranchFacts, CacheFacts
<1>2. PICK e \in saved : e = events.block
  BY <1>1, BlocksTyped
<1>3. e \in Block /\ canonical \in Block /\ Number[canonical] <= Number[e]
  BY <1>1, <1>2, BlocksTyped, RunsAbove
<1>4. canonical \in Ancestors[e]
  BY <1>1, <1>2, <1>3, CanonicalOn DEF RunsOnBranch
<1>5. ASSUME hooked # NoBlock
      PROVE  /\ hooked \in Block /\ hooked \in Ancestors[e]
             /\ Number[hooked] < Number[e] /\ e \notin Ancestors[hooked]
  <2>1. hooked \in Ancestors[canonical] \ {canonical}
    BY <1>1, <1>5 DEF HookedBelow
  <2>2. hooked \in Block /\ hooked \in Ancestors[e] /\ Number[hooked] < Number[canonical]
    BY <1>3, <1>4, <2>1, AncestorsTyped, AncestorsTransitive, AncestorsBelow
  <2>3. Number[hooked] < Number[e]
    BY <1>3, <2>2, NumberTyped
  <2>4. e \in Ancestors[hooked] => e = hooked \/ Number[e] < Number[hooked]
    BY <2>2, AncestorsBelow
  <2> QED
    BY <1>3, <2>2, <2>3, <2>4, NumberTyped
<1> QED
  BY <1>2, <1>3, <1>4, <1>5

\* the steps of the job that leave the tables and the cache alone
LEMMA EventsFrame ==
    ASSUME CacheFacts, UNCHANGED <<saved, canonical, versions, frothyBlocks, latestPruned, hooked>>,
           events.stage # "cache", events'.stage # "cache",
           RunsOnBranch', RetriedBare', FillRight'
    PROVE  CacheFacts'
<1>1. CachedSaved'
  BY DEF CacheFacts, CachedSaved, InCache, Pending
<1>2. HookedBelow'
  BY DEF CacheFacts, HookedBelow, InCache
<1>3. PrunedRight'
  BY DEF CacheFacts, PrunedRight, PrunedCached, InCache, OnBranch
<1>4. GotSaved'
  BY DEF GotSaved
<1> QED
  BY <1>1, <1>2, <1>3, <1>4 DEF CacheFacts

\* the steps of a prune job
LEMMA PruningFrame ==
    ASSUME CacheFacts,
           UNCHANGED <<saved, versions, frothyBlocks, latestPruned, hooked, events>>,
           RunsOnBranch', HookedBelow'
    PROVE  CacheFacts'
<1>1. CachedSaved'
  BY DEF CacheFacts, CachedSaved, InCache, Pending, Operation_
<1>2. RetriedBare'
  BY DEF CacheFacts, RetriedBare, CacheEmpty, InCache, PrunedCached
<1>3. PrunedRight'
  BY DEF CacheFacts, PrunedRight, PrunedCached, InCache, OnBranch
<1>4. FillRight' /\ GotSaved'
  BY DEF CacheFacts, FillRight, GotSaved, PrunedCached, OnBranch, Operation_
<1> QED
  BY <1>1, <1>2, <1>3, <1>4 DEF CacheFacts

LEMMA InitCache == Init => CacheInv
<1> SUFFICES ASSUME Init PROVE CacheFacts
  BY InitBranch DEF CacheInv
<1>1. RunsOnBranch /\ RetriedBare /\ FillRight /\ GotSaved
  BY DEF Init, RunsOnBranch, RetriedBare, FillRight, GotSaved, Busy, NoEvents
<1>2. CachedSaved /\ HookedBelow /\ PrunedRight
  BY DEF Init, CachedSaved, HookedBelow, PrunedRight, InCache, PrunedCached
<1> QED
  BY <1>1, <1>2 DEF CacheFacts

\* between prune jobs a branch from the canonical block has no pruned blocks
LEMMA UnprunedBranch ==
    ASSUME TypeInv, PruneFacts, OneBranch, pruning = NoPruning,
           NEW b \in Block, canonical \in Ancestors[b]
    PROVE  Ancestors[b] \cap pruned = {}
<1> SUFFICES ASSUME NEW a \in Ancestors[b], a \in pruned PROVE FALSE
  OBVIOUS
<1>1. Number[a] <= Number[canonical]
  BY DEF PruneFacts, PrunedBelow, NoPruning
<1>2. a \in Ancestors[canonical]
  BY <1>1, LowerAncestor
<1> QED
  BY <1>2 DEF OneBranch

LEMMA IndexCached ==
    ASSUME InHand, NEW t \in Block, NEW b \in Block, IndexBlock(t, b)
    PROVE  CacheFacts'
<1>1. /\ TypeInv /\ InStep /\ OneBranch /\ PruneFacts /\ RunsOnBranch /\ CachedSaved
      /\ HookedBelow /\ PrunedRight
  BY DEF InHand, BranchFacts, CacheFacts
<1>2. /\ saved' = saved \cup {b} /\ CacheFrothyBlock(b)
      /\ events' = [NoEvents EXCEPT !.stage = "load", !.block = b, !.retry = FALSE]
      /\ UNCHANGED <<complete, pruned, canonical, versions, hooked>>
      /\ b \in Ancestors[t] /\ b \notin complete /\ canonical \in Ancestors[t]
      /\ b # Root => Number[b] > Number[canonical]
      /\ events.stage = "idle"
  BY DEF IndexBlock, StartEvents, tableVars, Fetched, WithinReorgDepth
<1>3. pruning = NoPruning
  BY <1>1, FetchedWithin DEF IndexBlock
<1>4. b \notin saved /\ saved \subseteq complete
  <2>1. events.block = NoBlock
    BY <1>1, <1>2 DEF TypeInv, EventsTyped, Busy, NoEvents
  <2>2. saved \subseteq complete
    BY <1>1, <2>1, BlocksTyped, BlockTreeAssumption DEF RunsOnBranch
  <2> QED
    BY <1>2, <2>2
<1>5. /\ events'.block = b /\ events'.stage = "load" /\ ~events'.retry /\ ~events'.fill
  BY <1>2 DEF NoEvents
<1>6. /\ frothyBlocks' = [frothyBlocks EXCEPT ![b] = [x \in Entity |-> NoVersion]]
      /\ latestPruned' = latestPruned \/ latestPruned' = [x \in Entity |-> NoVersion]
      /\ ~InCache(b)
  BY <1>1, <1>2, <1>4 DEF CacheFrothyBlock, CachedSaved, InCache
<1>7. /\ \A a \in Block \ {b} : frothyBlocks'[a] = frothyBlocks[a]
      /\ frothyBlocks'[b] = [x \in Entity |-> NoVersion]
  BY <1>1, <1>6 DEF TypeInv, TypeOK
<1>8. frothyBlocks'[b] # NoVersion
  BY <1>7, NoVersionAssumption
<1>9. \A a \in Block : InCache(a)' <=> a = b \/ InCache(a)
  BY <1>7, <1>8 DEF InCache
<1>10. \A x \in Entity : versions[<<x, b>>] = NoVersion
  <2>1. \A x \in Entity : versions[<<x, b>>] # NoVersion => <<x, b>>[2] \in saved
    BY <1>1 DEF InStep, RowsInStep
  <2> QED
    BY <1>4, <2>1
<1>11. b = Root => canonical = Root /\ saved = {}
  BY <1>1, <1>2, <1>4 DEF InStep, InOrder
<1>12. RunsOnBranch'
  <2>1. canonical \in Ancestors[b]
    <3>1. b = Root => canonical = b
      BY <1>11
    <3>2. Number[canonical] <= Number[b]
      BY <1>1, <1>2, <3>1, BlocksTyped, NumberTyped
    <3> QED
      BY <1>2, <3>2, LowerAncestor
  <2>2. Ancestors[b] \cap pruned = {}
    BY <1>1, <1>3, <2>1, UnprunedBranch
  <2> QED
    BY <1>2, <1>4, <1>5, <2>2 DEF RunsOnBranch
<1>13. RetriedBare' /\ FillRight' /\ GotSaved'
  BY <1>5 DEF RetriedBare, FillRight, GotSaved
<1>14. CachedSaved'
  <2> SUFFICES ASSUME NEW a \in Block, InCache(a)'
               PROVE  /\ a \in saved'
                      /\ \A c \in saved' : a \in Ancestors[c] => InCache(c)'
                      /\ \A x \in Entity : ~Pending(x, a)' => frothyBlocks'[a][x] = versions'[<<x, a>>]
    BY DEF CachedSaved
  <2>1. CASE a = b
    <3>1. \A c \in saved : a \notin Ancestors[c]
      BY <1>1, <1>4, <2>1, ClosedHoldsAncestors DEF InStep, RowsInStep
    <3> QED
      BY <1>2, <1>7, <1>9, <1>10, <2>1, <3>1
  <2>2. CASE a # b
    <3>1. InCache(a)
      BY <1>9, <2>2
    <3>2. \A x \in Entity : ~Pending(x, a)
      BY <1>2 DEF Pending
    <3>3. /\ a \in saved
          /\ \A c \in saved : a \in Ancestors[c] => InCache(c)
          /\ \A x \in Entity : frothyBlocks[a][x] = versions[<<x, a>>]
      BY <1>1, <3>1, <3>2 DEF CachedSaved
    <3>4. \A c \in saved' : c \in Block /\ (c = b \/ c \in saved)
      BY <1>1, <1>2, BlocksTyped
    <3>5. \A c \in saved' : a \in Ancestors[c] => InCache(c)'
      BY <1>9, <3>3, <3>4
    <3>6. \A x \in Entity : frothyBlocks'[a][x] = versions'[<<x, a>>]
      BY <1>2, <1>7, <2>2, <3>3
    <3> QED
      BY <1>2, <3>3, <3>5, <3>6
  <2> QED
    BY <2>1, <2>2
<1>15. HookedBelow'
  <2> SUFFICES ASSUME hooked # NoBlock, NEW a \in Block, InCache(a)'
               PROVE  Number[a] > Number[hooked]
    BY <1>1, <1>2 DEF HookedBelow
  <2>1. hooked \in Ancestors[canonical] \ {canonical}
    BY <1>1 DEF HookedBelow
  <2>2. hooked \in Block /\ Number[hooked] < Number[canonical] /\ canonical \in Block
    BY <1>1, <2>1, BlocksTyped, AncestorsTyped, AncestorsBelow
  <2>3. b # Root
    BY <1>11, <2>2, RootLowest, NumberTyped, BlockTreeAssumption
  <2>4. CASE a = b
    BY <1>2, <2>2, <2>3, <2>4, NumberTyped
  <2>5. CASE a # b
    BY <1>1, <1>9, <2>5 DEF HookedBelow
  <2> QED
    BY <2>4, <2>5
<1>16. PrunedRight'
  <2>1. \A x \in Entity : latestPruned'[x] # NoVersion => latestPruned'[x] = latestPruned[x]
    BY <1>6
  <2>2. PrunedCached' => PrunedCached
    BY <2>1 DEF PrunedCached
  <2>3. \A x \in Entity : OnBranch(x, hooked)' = OnBranch(x, hooked)
    BY <1>2 DEF OnBranch
  <2>4. PrunedCached' => /\ hooked' # NoBlock
                         /\ \A c \in saved' : hooked' \in Ancestors[c] /\ c # hooked' => InCache(c)'
    BY <1>1, <1>2, <1>9, <2>2, BlocksTyped DEF PrunedRight
  <2>5. \A x \in Entity : latestPruned'[x] # NoVersion =>
           \E a \in OnBranch(x, hooked)' : versions'[<<x, a>>] = latestPruned'[x]
    BY <1>1, <1>2, <2>1, <2>3 DEF PrunedRight
  <2> QED
    BY <2>4, <2>5 DEF PrunedRight
<1> QED
  BY <1>12, <1>13, <1>14, <1>15, <1>16 DEF CacheFacts

LEMMA IndexAgainCached ==
    ASSUME InHand, NEW t \in Block, IndexBlockAgain(t)
    PROVE  CacheFacts'
<1>1. TypeInv /\ InStep /\ OneBranch /\ PruneFacts /\ RunsOnBranch /\ CacheFacts
  BY DEF InHand, BranchFacts, CacheFacts
<1>2. /\ events' = [NoEvents EXCEPT !.stage = "load", !.block = t, !.retry = FALSE]
      /\ UNCHANGED <<saved, complete, pruned, canonical, versions, frothyBlocks, latestPruned, hooked>>
      /\ t \in complete /\ canonical \in Ancestors[t]
      /\ events.stage = "idle"
  BY DEF IndexBlockAgain, StartEvents, blockVars, tableVars, cacheVars, Fetched, WithinReorgDepth
<1>3. pruning = NoPruning
  BY <1>1, FetchedWithin DEF IndexBlockAgain
<1>4. events'.block = t /\ events'.stage = "load" /\ ~events'.retry /\ ~events'.fill
  BY <1>2 DEF NoEvents
<1>5. events.block = NoBlock
  BY <1>1, <1>2 DEF TypeInv, EventsTyped, Busy, NoEvents
<1>6. saved \subseteq complete
  BY <1>1, <1>5, BlocksTyped, BlockTreeAssumption DEF RunsOnBranch
<1>7. Ancestors[t] \cap pruned = {}
  BY <1>1, <1>2, <1>3, UnprunedBranch
<1>8. RunsOnBranch' /\ RetriedBare' /\ FillRight'
  BY <1>2, <1>4, <1>6, <1>7 DEF RunsOnBranch, RetriedBare, FillRight
<1> QED
  BY <1>1, <1>2, <1>4, <1>8, EventsFrame

\* a hook moves what the cache has of the next block, the first that it has
LEMMA HooksCached ==
    ASSUME NoNullRounds, InHand, NEW c \in Block, RunHooks(c)
    PROVE  CacheFacts'
<1>1. /\ TypeInv /\ InStep /\ OneBranch /\ RunsOnBranch /\ CachedSaved /\ RetriedBare
      /\ HookedBelow /\ PrunedRight /\ FillRight /\ GotSaved
  BY DEF InHand, BranchFacts, CacheFacts
<1>2. /\ c \in Ancestors[canonical] \ {canonical} /\ hooked = Parent[c] /\ hooked' = c
      /\ PruneFrothyBlocks(c)
      /\ UNCHANGED <<saved, complete, pruned, canonical, versions, events>>
  BY DEF RunHooks, blockVars, tableVars
<1>3. /\ canonical \in Block /\ Number[c] < Number[canonical] /\ Number[c] \in Nat
      /\ c \in saved
  <2>1. canonical \in Block /\ Number[c] < Number[canonical] /\ Number[c] \in Nat
    BY <1>1, <1>2, BlocksTyped, AncestorsBelow, NumberTyped
  <2>2. canonical # Root
    BY <2>1, RootLowest, NumberTyped, BlockTreeAssumption
  <2>3. canonical \in saved
    BY <1>1, <2>2 DEF InStep, InOrder
  <2> QED
    BY <1>1, <1>2, <2>1, <2>3, ClosedHoldsAncestors DEF InStep, RowsInStep
<1>4. \A a \in Block : frothyBlocks'[a] = IF Number[a] <= Number[c] THEN NoVersion ELSE frothyBlocks[a]
  BY <1>2 DEF PruneFrothyBlocks
<1>5. \A a \in Block : InCache(a)' <=> InCache(a) /\ Number[a] > Number[c]
  BY <1>3, <1>4, NumberTyped DEF InCache
<1>6. \A x \in Entity : ~Pending(x, c)
  <2>1. Busy => Number[canonical] <= Number[events.block]
    BY <1>1, RunsAbove
  <2>2. Busy => events.block # c
    BY <1>1, <1>3, <2>1, BlocksTyped
  <2> QED
    BY <2>2 DEF Pending, Busy
<1>7. ASSUME InCache(c), NEW x \in Entity
      PROVE  /\ frothyBlocks[c][x] = versions[<<x, c>>]
             /\ latestPruned'[x] = IF versions[<<x, c>>] = NoVersion
                                   THEN latestPruned[x] ELSE versions[<<x, c>>]
  <2>1. frothyBlocks[c][x] = versions[<<x, c>>]
    BY <1>1, <1>6, <1>7 DEF CachedSaved
  <2> QED
    BY <1>2, <1>7, <2>1 DEF PruneFrothyBlocks, InCache
<1>8. ASSUME ~InCache(c)
      PROVE  latestPruned' = latestPruned /\ ~PrunedCached
  <2>1. latestPruned' = latestPruned
    BY <1>2, <1>8 DEF PruneFrothyBlocks, InCache
  <2>2. ASSUME PrunedCached PROVE FALSE
    <3>1. hooked # NoBlock /\ \A b \in saved : hooked \in Ancestors[b] /\ b # hooked => InCache(b)
      BY <1>1, <2>2 DEF PrunedRight
    <3>2. c # Root
      BY <1>2, <3>1, BlockTreeAssumption
    <3>3. hooked \in Ancestors[c] /\ hooked # c
      <4>1. hooked \in Ancestors[c]
        BY <1>2, <3>2, AncestorsClosed DEF ParentClosed
      <4>2. Number[Parent[c]] < Number[c] /\ Parent[c] \in Block
        BY <3>2, BlockTreeAssumption
      <4> QED
        BY <1>2, <4>1, <4>2, NumberTyped
    <3> QED
      BY <1>3, <1>8, <3>1, <3>3
  <2> QED
    BY <2>1, <2>2
<1>9. RunsOnBranch'
  BY <1>1, <1>2 DEF RunsOnBranch, Busy
<1>10. PrunedCached' => PrunedCached \/ InCache(c)
  BY <1>8 DEF PrunedCached
<1>11. RetriedBare'
  <2> SUFFICES ASSUME CacheEmpty PROVE CacheEmpty'
    BY <1>1, <1>2 DEF RetriedBare
  <2> QED
    BY <1>5, <1>10 DEF CacheEmpty
<1>12. CachedSaved'
  <2> SUFFICES ASSUME NEW a \in Block, InCache(a)'
               PROVE  /\ a \in saved'
                      /\ \A b \in saved' : a \in Ancestors[b] => InCache(b)'
                      /\ \A x \in Entity : ~Pending(x, a)' => frothyBlocks'[a][x] = versions'[<<x, a>>]
    BY DEF CachedSaved
  <2>1. InCache(a) /\ Number[a] > Number[c] /\ Number[a] \in Nat
    BY <1>5, NumberTyped
  <2>2. /\ a \in saved
        /\ \A b \in saved : a \in Ancestors[b] => InCache(b)
        /\ \A x \in Entity : ~Pending(x, a) => frothyBlocks[a][x] = versions[<<x, a>>]
    BY <1>1, <2>1 DEF CachedSaved
  <2>3. ASSUME NEW b \in saved, a \in Ancestors[b] PROVE InCache(b)'
    <3>1. b \in Block
      BY <1>1, BlocksTyped
    <3>2. Number[a] <= Number[b] /\ Number[b] \in Nat
      BY <2>3, <3>1, AncestorsBelow, NumberTyped
    <3>3. Number[b] > Number[c]
      BY <1>3, <2>1, <3>2
    <3> QED
      BY <1>5, <2>2, <2>3, <3>1, <3>3
  <2>4. frothyBlocks'[a] = frothyBlocks[a]
    BY <1>3, <1>4, <2>1
  <2>5. \A x \in Entity : Pending(x, a)' <=> Pending(x, a)
    BY <1>2 DEF Pending, Operation_
  <2> QED
    BY <1>2, <2>2, <2>3, <2>4, <2>5
<1>13. HookedBelow'
  BY <1>2, <1>5 DEF HookedBelow
<1>14. ASSUME NEW x \in Entity, PrunedCached, versions[<<x, c>>] = NoVersion
       PROVE  OnBranch(x, c) = OnBranch(x, hooked)
  <2>1. hooked # NoBlock
    BY <1>1, <1>14 DEF PrunedRight
  <2>2. c # Root
    BY <1>2, <2>1, BlockTreeAssumption
  <2>3. hooked \in Ancestors[c] /\ Ancestors[c] \subseteq {c} \cup Ancestors[hooked] /\ hooked \in Block
    <3>1. hooked \in Ancestors[c]
      BY <1>2, <2>2, AncestorsClosed DEF ParentClosed
    <3>2. Ancestors[c] \subseteq {c} \cup Ancestors[hooked]
      BY <1>2, <2>2, AncestorsOfParent
    <3> QED
      BY <1>2, <2>2, <3>1, <3>2, BlockTreeAssumption
  <2>4. \A a \in Ancestors[hooked] : a = hooked \/ Number[a] < Number[hooked]
    BY <2>3, AncestorsBelow
  <2>5. \A a \in Ancestors[c] : Number[a] > Number[hooked] => a = c
    BY <2>3, <2>4, NumberTyped, AncestorsTyped
  <2> QED
    BY <1>14, <2>3, <2>5, OnBranchBelow
<1>15. \A x \in Entity : OnBranch(x, c)' = OnBranch(x, c)
  BY <1>2, SameOnBranch
<1>16. ASSUME NEW x \in Entity, latestPruned'[x] # NoVersion
       PROVE  \E a \in OnBranch(x, c) : versions[<<x, a>>] = latestPruned'[x]
  <2>1. InCache(c)
    BY <1>8, <1>16 DEF PrunedCached
  <2>2. CASE versions[<<x, c>>] # NoVersion
    <3>1. c \in Ancestors[c] /\ \A a \in Ancestors[c] : a = c \/ Number[a] < Number[c]
      BY AncestorsClosed, AncestorsBelow
    <3>2. \A a \in Ancestors[c] : Number[a] <= Number[c]
      BY <1>3, <3>1, NumberTyped, AncestorsTyped
    <3>3. c \in OnBranch(x, c)
      BY <2>2, <3>1, <3>2 DEF OnBranch, Highest
    <3> QED
      BY <1>7, <2>1, <2>2, <3>3
  <2>3. CASE versions[<<x, c>>] = NoVersion
    <3>1. latestPruned'[x] = latestPruned[x] /\ PrunedCached
      BY <1>7, <1>16, <2>1, <2>3 DEF PrunedCached
    <3>2. OnBranch(x, c) = OnBranch(x, hooked)
      BY <1>14, <2>3, <3>1
    <3> QED
      BY <1>1, <1>16, <3>1, <3>2 DEF PrunedRight
  <2> QED
    BY <2>2, <2>3
<1>17. ASSUME PrunedCached'
       PROVE  /\ c # NoBlock
              /\ \A b \in saved : c \in Ancestors[b] /\ b # c => InCache(b)'
  <2>1. InCache(c)
    BY <1>8, <1>17 DEF PrunedCached
  <2>2. ASSUME NEW b \in saved, c \in Ancestors[b], b # c
        PROVE  InCache(b)'
    <3>1. b \in Block /\ Number[c] < Number[b]
      BY <1>1, <2>2, BlocksTyped, AncestorsBelow
    <3>2. InCache(b)
      BY <1>1, <2>1, <2>2 DEF CachedSaved
    <3> QED
      BY <1>3, <1>5, <3>1, <3>2, NumberTyped
  <2> QED
    BY <2>2, BlockTreeAssumption
<1>18. PrunedRight'
  <2>1. \A x \in Entity : latestPruned'[x] # NoVersion =>
           \E a \in OnBranch(x, hooked)' : versions'[<<x, a>>] = latestPruned'[x]
    <3>1. \A x \in Entity : OnBranch(x, hooked)' = OnBranch(x, c)
      BY <1>2, <1>15 DEF OnBranch
    <3> QED
      BY <1>2, <1>16, <3>1
  <2>2. PrunedCached' =>
           /\ hooked' # NoBlock
           /\ \A b \in saved' : hooked' \in Ancestors[b] /\ b # hooked' => InCache(b)'
    BY <1>2, <1>17
  <2> QED
    BY <2>1, <2>2 DEF PrunedRight
<1>19. FillRight'
  <2> SUFFICES ASSUME events.fill
               PROVE  /\ events.stage = "save"
                      /\ PrunedCached'
                      /\ \E a \in OnBranch(Operation_.id, c) : versions[<<Operation_.id, a>>] = events.got
                      /\ \A a \in Ancestors[events.block] :
                            Number[a] > Number[c] => versions[<<Operation_.id, a>>] = NoVersion
    <3>1. Operation_' = Operation_
      BY <1>2 DEF Operation_
    <3>2. OnBranch(Operation_.id, hooked)' = OnBranch(Operation_.id, c)
      BY <1>2, <3>1 DEF OnBranch
    <3> QED
      BY <1>2, <3>1, <3>2 DEF FillRight
  <2>1. /\ events.stage = "save" /\ PrunedCached
        /\ \E a \in OnBranch(Operation_.id, hooked) : versions[<<Operation_.id, a>>] = events.got
        /\ \A a \in Ancestors[events.block] :
              Number[a] > Number[hooked] => versions[<<Operation_.id, a>>] = NoVersion
    BY <1>1 DEF FillRight
  <2>2. Busy
    BY <2>1 DEF Busy
  <2>3. events.block \in Block /\ canonical \in Ancestors[events.block]
    BY <2>2, RunsOver
  <2>4. c \in Ancestors[events.block]
    BY <1>2, <2>3, AncestorsTransitive
  <2>5. hooked # NoBlock
    BY <1>1, <2>1 DEF PrunedRight
  <2>6. c # Root
    BY <1>2, <2>5, BlockTreeAssumption
  <2>7. Number[hooked] < Number[c] /\ hooked \in Block
    BY <1>2, <2>6, BlockTreeAssumption
  <2>8. versions[<<Operation_.id, c>>] = NoVersion
    BY <1>3, <2>1, <2>4, <2>7, NumberTyped
  <2>9. \A a \in Ancestors[events.block] :
           Number[a] > Number[c] => versions[<<Operation_.id, a>>] = NoVersion
    <3> SUFFICES ASSUME NEW a \in Ancestors[events.block], Number[a] > Number[c]
                 PROVE  versions[<<Operation_.id, a>>] = NoVersion
      OBVIOUS
    <3>1. Number[a] \in Nat /\ Number[hooked] \in Nat
      BY <2>3, <2>7, NumberTyped, AncestorsTyped
    <3>2. Number[a] > Number[hooked]
      BY <1>3, <2>7, <3>1
    <3> QED
      BY <2>1, <3>2
  <2>10. PrunedCached'
    <3>1. PICK x \in Entity : latestPruned[x] # NoVersion
      BY <2>1 DEF PrunedCached
    <3>2. latestPruned'[x] # NoVersion
      BY <1>7, <1>8, <2>1, <3>1
    <3> QED
      BY <3>2 DEF PrunedCached
  <2>11. OnBranch(Operation_.id, c) = OnBranch(Operation_.id, hooked)
    <3>1. hooked \in Ancestors[c]
      BY <1>2, <2>6, AncestorsClosed DEF ParentClosed
    <3>2. \A a \in Ancestors[c] : Number[a] > Number[hooked] => versions[<<Operation_.id, a>>] = NoVersion
      BY <2>1, <2>3, <2>4, AncestorsTransitive
    <3>3. {a \in Ancestors[c] : versions[<<Operation_.id, a>>] # NoVersion}
            = {a \in Ancestors[hooked] : versions[<<Operation_.id, a>>] # NoVersion}
      <4>1. Ancestors[hooked] \subseteq Ancestors[c] /\ Ancestors[c] \subseteq Block
        BY <3>1, AncestorsTransitive, AncestorsTyped
      <4>2. \A a \in Ancestors[c] : versions[<<Operation_.id, a>>] # NoVersion => a \in Ancestors[hooked]
        BY <2>7, <3>1, <3>2, <4>1, LowerAncestor, NumberTyped
      <4> QED
        BY <4>1, <4>2
    <3> QED
      BY <3>3 DEF OnBranch
  <2> QED
    BY <2>1, <2>9, <2>10, <2>11
<1>20. GotSaved'
  BY <1>1, <1>2 DEF GotSaved, Operation_
<1> QED
  BY <1>9, <1>11, <1>12, <1>13, <1>18, <1>19, <1>20 DEF CacheFacts

LEMMA PruningCached ==
    ASSUME NoNullRounds, InHand, PruneBlocks \/ PruneRows \/ PruneCommit
    PROVE  CacheFacts'
<1>1. /\ TypeInv /\ InStep /\ PruneFacts /\ BranchFacts /\ CacheFacts
      /\ RunsOnBranch /\ HookedBelow
  BY DEF InHand, CacheFacts
<1>2. UNCHANGED <<saved, complete, versions, frothyBlocks, latestPruned, hooked, events>>
  <2>1. CASE PruneBlocks
    BY <2>1 DEF PruneBlocks, tableVars, cacheVars
  <2>2. CASE PruneRows
    BY <2>2 DEF PruneRows, MarkRows, blockVars, cacheVars
  <2>3. CASE PruneCommit
    BY <2>3 DEF PruneCommit, cacheVars
  <2> QED
    BY <2>1, <2>2, <2>3
<1>3. HookedBelow'
  <2>1. CASE PruneBlocks \/ PruneRows
    BY <1>1, <1>2, <2>1 DEF PruneBlocks, PruneRows, blockVars, HookedBelow, InCache
  <2>2. CASE PruneCommit
    <3>1. /\ canonical' = pruning.keep /\ Number[pruning.keep] = Number[canonical] + 1
          /\ pruning # NoPruning /\ pruning.keep \in Block
      BY <1>1, <2>2, CommitTo, BlocksTyped DEF PruneHeight
    <3>2. PICK k \in Block : k = pruning.keep
      BY <3>1
    <3>3. k # Root /\ Parent[k] = canonical /\ canonical \in Block
      BY <1>1, <3>1, <3>2, BlocksTyped DEF BranchFacts, KeepsChild
    <3>4. canonical \in Ancestors[k]
      BY <3>3, AncestorsClosed DEF ParentClosed
    <3>5. hooked # NoBlock => hooked \in Ancestors[k] /\ hooked # k
      <4> SUFFICES ASSUME hooked # NoBlock PROVE hooked \in Ancestors[k] /\ hooked # k
        OBVIOUS
      <4>1. hooked \in Ancestors[canonical] \ {canonical}
        BY <1>1 DEF HookedBelow
      <4>2. hooked \in Block /\ Number[hooked] < Number[canonical] /\ hooked \in Ancestors[k]
        BY <3>3, <3>4, <4>1, AncestorsTyped, AncestorsTransitive, AncestorsBelow
      <4>3. Number[hooked] \in Nat /\ Number[canonical] \in Nat
        BY <3>3, <4>2, NumberTyped
      <4> QED
        BY <3>1, <3>2, <4>2, <4>3
    <3> QED
      BY <1>1, <1>2, <3>1, <3>2, <3>5 DEF HookedBelow, InCache
  <2> QED
    BY <2>1, <2>2
<1>4. RunsOnBranch'
  <2>1. CASE PruneBlocks
    <3>1. PICK w \in saved, k \in AtHeight(saved \ pruned, PruneHeight) :
             /\ Number[w] > Number[canonical] + MaxReorgDepth
             /\ k \in Ancestors[w] /\ canonical \in Ancestors[k]
             /\ pruned' = pruned \cup (AtHeight(saved \ pruned, PruneHeight) \ {k})
             /\ pruning'.keep = k
      BY <1>1, <2>1, PruneKeepsChild
    <3>2. Busy => events.block = w
      <4> SUFFICES ASSUME Busy, events.block # w PROVE FALSE
        OBVIOUS
      <4>1. Number[w] <= Number[canonical] + MaxReorgDepth
        BY <1>1 DEF InStep, Window
      <4> QED
        BY <1>1, <3>1, <4>1, BlocksTyped
    <3>3. w \in Block
      BY <1>1, BlocksTyped
    <3>4. Ancestors[w] \cap (AtHeight(saved \ pruned, PruneHeight) \ {k}) = {}
      BY <3>1, <3>3, OneAncestorPerHeight DEF AtHeight
    <3> QED
      BY <1>1, <1>2, <3>1, <3>2, <3>4 DEF RunsOnBranch, Busy
  <2>2. CASE PruneRows \/ PruneCommit
    BY <1>1, <1>2, <2>2 DEF PruneRows, PruneCommit, blockVars, RunsOnBranch, Busy
  <2> QED
    BY <2>1, <2>2
<1> QED
  BY <1>1, <1>2, <1>3, <1>4, PruningFrame

\* a handler that reads its own branch
LEMMA ReadCached ==
    ASSUME NoNullRounds, InHand, OwnFills, ReadCache \/ ReadDatabase
    PROVE  CacheFacts'
<1>1. /\ TypeInv /\ InStep /\ OneBranch /\ CacheFacts /\ RunsOnBranch /\ RetriedBare
      /\ CachedSaved /\ HookedBelow /\ PrunedRight /\ FillRight
  BY DEF InHand, BranchFacts, CacheFacts
<1>2. /\ UNCHANGED <<saved, complete, pruned, canonical, versions, frothyBlocks, latestPruned, hooked>>
      /\ AtOperation("load") /\ events.stage = "load"
  BY DEF ReadCache, ReadDatabase, AtOperation, blockVars, tableVars, cacheVars
<1>3. Operation_.id \in Entity /\ events.block \in saved /\ events.block \in Block /\ Busy
  BY <1>1, <1>2, OperationRuns
<1>4. PICK e \in saved, x \in Entity : e = events.block /\ x = Operation_.id
  BY <1>3
<1>5. PICK v \in {CacheHit(x, e)} \cup QueryResults(x, e), fill \in BOOLEAN :
         /\ Loaded(v, fill)
         /\ fill => /\ ReadDatabase /\ v \in QueryResults(x, e) /\ CacheUsed(e) /\ v # NoVersion
                    /\ CacheHit(x, e) = NoVersion
  <2>1. CASE ReadCache
    <3>1. Loaded(CacheHit(x, e), FALSE)
      BY <1>4, <2>1 DEF ReadCache
    <3> QED
      BY <3>1
  <2>2. CASE ReadDatabase
    <3>1. PICK v \in QueryResults(x, e) : Loaded(v, CacheUsed(e) /\ v # NoVersion)
      BY <1>4, <2>2 DEF ReadDatabase
    <3>2. CacheHit(x, e) = NoVersion
      BY <1>4, <2>2 DEF ReadDatabase
    <3>3. PICK fill \in BOOLEAN : fill = (CacheUsed(e) /\ v # NoVersion)
      OBVIOUS
    <3>4. Loaded(v, fill)
      BY <3>1, <3>3
    <3>5. fill => /\ ReadDatabase /\ v \in QueryResults(x, e) /\ CacheUsed(e) /\ v # NoVersion
                  /\ CacheHit(x, e) = NoVersion
      BY <2>2, <3>1, <3>2, <3>3
    <3> QED
      BY <3>4, <3>5
  <2> QED
    BY <2>1, <2>2
<1>6. /\ events'.stage = "save" /\ events'.block = events.block /\ events'.pc = events.pc
      /\ events'.retry = events.retry /\ events'.got = v /\ events'.fill = fill
  BY <1>1, <1>5 DEF Loaded, TypeInv, EventsTyped
<1>7. RunsOnBranch' /\ RetriedBare'
  <2>1. RunsOnBranch'
    BY <1>1, <1>2, <1>3, <1>6 DEF RunsOnBranch
  <2>2. RetriedBare'
    BY <1>1, <1>2, <1>6 DEF RetriedBare, CacheEmpty, InCache, PrunedCached
  <2> QED
    BY <2>1, <2>2
<1>8. ASSUME fill
      PROVE  /\ PrunedCached
             /\ \E a \in OnBranch(x, hooked) : versions[<<x, a>>] = v
             /\ \A a \in Ancestors[e] : Number[a] > Number[hooked] => versions[<<x, a>>] = NoVersion
  <2>1. v \in QueryResults(x, e) /\ CacheUsed(e) /\ v # NoVersion /\ CacheHit(x, e) = NoVersion
    BY <1>5, <1>8
  <2>2. ~ReadsOtherBranch(x, e)
    BY <1>2, <1>4, <2>1 DEF OwnFills, OwnReads
  <2>3. canonical \in Ancestors[e] /\ Ancestors[e] \cap pruned = {} /\ e \in Block
    BY <1>1, <1>3, <1>4, RunsOver DEF RunsOnBranch
  <2>4. \A a \in Ancestors[e] : ~Pending(x, a)
    BY <1>2 DEF Pending
  <2>5. /\ \A a \in Ancestors[e] : Number[a] > Number[hooked] => versions[<<x, a>>] = NoVersion
        /\ LatestPrunedEntity(x, MinNumber(CachedBranch(e)) + 1) = OnBranch(x, e)
    BY <1>1, <2>1, <2>2, <2>3, <2>4, MissOnBranch
  <2>6. PrunedCached /\ hooked \in Ancestors[e]
    BY <1>1, <2>1, <2>3, CachedAbove
  <2>7. OnBranch(x, e) = OnBranch(x, hooked)
    BY <2>3, <2>5, <2>6, OnBranchBelow
  <2>8. \E a \in OnBranch(x, e) : versions[<<x, a>>] = v
    BY <2>1, <2>5 DEF QueryResults
  <2> QED
    BY <2>5, <2>6, <2>7, <2>8
<1>9. FillRight'
  <2> SUFFICES ASSUME fill
               PROVE  /\ PrunedCached
                      /\ \E a \in OnBranch(x, hooked)' : versions[<<x, a>>] = v
                      /\ \A a \in Ancestors[e] : Number[a] > Number[hooked] => versions[<<x, a>>] = NoVersion
    <3>1. Operation_' = Operation_
      BY <1>6 DEF Operation_
    <3>2. OnBranch(Operation_.id, hooked)' = OnBranch(x, hooked)'
      BY <1>2, <1>4, <3>1 DEF OnBranch
    <3> QED
      BY <1>2, <1>4, <1>6, <3>1, <3>2 DEF FillRight, PrunedCached
  <2>1. OnBranch(x, hooked)' = OnBranch(x, hooked)
    BY <1>2 DEF OnBranch
  <2> QED
    BY <1>8, <2>1
<1> QED
  BY <1>1, <1>2, <1>6, <1>7, <1>9, EventsFrame

\* the entity that a handler has read is put in the cache
LEMMA FillCached ==
    ASSUME InHand, FillCache, UNCHANGED <<saved, hooked, frothyBlocks>>,
           hooked # NoBlock => \A x \in Entity, a \in Ancestors[hooked] :
                                  versions'[<<x, a>>] = versions[<<x, a>>]
    PROVE  /\ PrunedRight'
           /\ PrunedCached' => PrunedCached
<1>1. TypeInv /\ PrunedRight /\ FillRight
  BY DEF InHand, CacheFacts
<1>2. \A x \in Entity :
         \/ latestPruned'[x] = latestPruned[x]
         \/ events.fill /\ x = Operation_.id /\ latestPruned'[x] = events.got
  <2>1. latestPruned \in [Entity -> Value \cup {NoVersion}]
    BY <1>1 DEF TypeInv, TypeOK
  <2> QED
    BY <2>1 DEF FillCache
<1>3. PrunedCached' => PrunedCached
  BY <1>1, <1>2 DEF PrunedCached, FillRight
<1>4. PrunedCached' =>
         /\ hooked' # NoBlock
         /\ \A b \in saved' : hooked' \in Ancestors[b] /\ b # hooked' => InCache(b)'
  BY <1>1, <1>3 DEF PrunedRight, InCache
<1>5. ASSUME NEW x \in Entity, latestPruned'[x] # NoVersion
      PROVE  \E a \in OnBranch(x, hooked)' : versions'[<<x, a>>] = latestPruned'[x]
  <2>1. hooked # NoBlock
    BY <1>4, <1>5 DEF PrunedCached
  <2>2. PICK a \in OnBranch(x, hooked) : versions[<<x, a>>] = latestPruned'[x]
    BY <1>1, <1>2, <1>5 DEF PrunedRight, FillRight
  <2>3. {a_1 \in Ancestors[hooked] : versions'[<<x, a_1>>] # NoVersion}
          = {a_1 \in Ancestors[hooked] : versions[<<x, a_1>>] # NoVersion}
    BY <2>1
  <2>4. OnBranch(x, hooked)' = OnBranch(x, hooked)
    BY <2>3 DEF OnBranch
  <2>5. versions'[<<x, a>>] = versions[<<x, a>>]
    BY <2>1, <2>2 DEF OnBranch, Highest
  <2> QED
    BY <2>2, <2>4, <2>5
<1> QED
  BY <1>3, <1>4, <1>5 DEF PrunedRight

LEMMA SkipCached ==
    ASSUME InHand, SkipRemove
    PROVE  CacheFacts'
<1>1. /\ TypeInv /\ RunsOnBranch /\ RetriedBare /\ CachedSaved /\ HookedBelow
  BY DEF InHand, CacheFacts
<1>2. /\ UNCHANGED <<saved, complete, pruned, canonical, versions, frothyBlocks, hooked>>
      /\ FillCache /\ NextOperation /\ events.stage = "save" /\ Busy
  BY DEF SkipRemove, AtOperation, blockVars, tableVars, Busy
<1>3. PrunedRight' /\ (PrunedCached' => PrunedCached)
  BY <1>2, FillCached
<1>4. /\ events'.stage = "load" /\ events'.block = events.block
      /\ events'.retry = events.retry /\ ~events'.fill
  BY <1>1, <1>2 DEF NextOperation, TypeInv, EventsTyped
<1>5. RunsOnBranch'
  BY <1>1, <1>2, <1>4 DEF RunsOnBranch
<1>6. RetriedBare'
  BY <1>1, <1>2, <1>3, <1>4 DEF RetriedBare, CacheEmpty, InCache
<1>7. CachedSaved'
  BY <1>1, <1>2, <1>4 DEF CachedSaved, InCache, Pending
<1>8. HookedBelow' /\ FillRight' /\ GotSaved'
  BY <1>1, <1>2, <1>4 DEF HookedBelow, InCache, FillRight, GotSaved
<1> QED
  BY <1>3, <1>5, <1>6, <1>7, <1>8 DEF CacheFacts

LEMMA SaveCached ==
    ASSUME NoNullRounds, InHand, SaveVersion
    PROVE  CacheFacts'
<1>1. /\ TypeInv /\ RunsOnBranch /\ RetriedBare /\ CachedSaved /\ HookedBelow
  BY DEF InHand, CacheFacts
<1>2. /\ UNCHANGED <<saved, complete, pruned, canonical, frothyBlocks, hooked>>
      /\ FillCache /\ events.stage = "save" /\ Busy
      /\ Operation_.id \in Entity /\ events.block \in Block
  BY <1>1, OperationRuns DEF SaveVersion, AtOperation, blockVars, Busy
<1>3. PICK e \in Block, x \in Entity : e = events.block /\ x = Operation_.id
  BY <1>2
<1>4. PICK v : /\ versions' = [versions EXCEPT ![<<x, e>>] = v]
               /\ events' = [events EXCEPT !.stage = "cache", !.got = v, !.fill = FALSE]
  BY <1>3 DEF SaveVersion
<1>5. /\ events'.stage = "cache" /\ events'.block = e /\ events'.pc = events.pc
      /\ events'.retry = events.retry /\ ~events'.fill /\ events'.got = v
      /\ Operation_' = Operation_
  <2>1. /\ events'.stage = "cache" /\ events'.block = e /\ events'.pc = events.pc
        /\ events'.retry = events.retry /\ ~events'.fill /\ events'.got = v
    BY <1>1, <1>3, <1>4 DEF TypeInv, EventsTyped
  <2> QED
    BY <1>3, <2>1 DEF Operation_
<1>6. /\ versions'[<<x, e>>] = v
      /\ \A y \in Entity, a \in Block : y # x \/ a # e => versions'[<<y, a>>] = versions[<<y, a>>]
  BY <1>1, <1>4 DEF TypeInv, TypeOK
<1>7. hooked # NoBlock => \A y \in Entity, a \in Ancestors[hooked] :
                             versions'[<<y, a>>] = versions[<<y, a>>]
  <2> SUFFICES ASSUME hooked # NoBlock
               PROVE  \A y \in Entity, a \in Ancestors[hooked] :
                             versions'[<<y, a>>] = versions[<<y, a>>]
    OBVIOUS
  <2>1. hooked \in Block /\ e \notin Ancestors[hooked]
    BY <1>2, <1>3, RunsOver
  <2> QED
    BY <1>6, <2>1, AncestorsTyped
<1>8. PrunedRight' /\ (PrunedCached' => PrunedCached)
  BY <1>2, <1>7, FillCached
<1>9. RunsOnBranch'
  BY <1>1, <1>2, <1>3, <1>5 DEF RunsOnBranch
<1>10. RetriedBare'
  BY <1>1, <1>2, <1>5, <1>8 DEF RetriedBare, CacheEmpty, InCache
<1>11. CachedSaved'
  <2> SUFFICES ASSUME NEW a \in Block, InCache(a), NEW y \in Entity, ~Pending(y, a)'
               PROVE  frothyBlocks[a][y] = versions'[<<y, a>>]
    BY <1>1, <1>2 DEF CachedSaved, InCache
  <2>1. a # e \/ y # x
    BY <1>3, <1>5 DEF Pending
  <2>2. ~Pending(y, a)
    BY <1>2 DEF Pending
  <2> QED
    BY <1>1, <1>6, <2>1, <2>2 DEF CachedSaved
<1>12. HookedBelow' /\ FillRight'
  BY <1>1, <1>2, <1>5 DEF HookedBelow, InCache, FillRight
<1>13. GotSaved'
  BY <1>3, <1>5, <1>6 DEF GotSaved
<1> QED
  BY <1>8, <1>9, <1>10, <1>11, <1>12, <1>13 DEF CacheFacts

LEMMA CacheCached ==
    ASSUME InHand, CacheVersion
    PROVE  CacheFacts'
<1>1. /\ TypeInv /\ RunsOnBranch /\ RetriedBare /\ CachedSaved /\ HookedBelow /\ PrunedRight
      /\ GotSaved
  BY DEF InHand, CacheFacts
<1>2. /\ UNCHANGED <<saved, complete, pruned, canonical, versions, latestPruned, hooked>>
      /\ NextOperation /\ events.stage = "cache" /\ Busy
      /\ Operation_.id \in Entity /\ events.block \in Block
  BY <1>1, OperationRuns DEF CacheVersion, AtOperation, blockVars, tableVars, Busy
<1>3. PICK e \in Block, x \in Entity : e = events.block /\ x = Operation_.id
  BY <1>2
<1>4. frothyBlocks' = IF frothyBlocks[e] = NoVersion THEN frothyBlocks
                      ELSE [frothyBlocks EXCEPT ![e] = [frothyBlocks[e] EXCEPT ![x] = events.got]]
  BY <1>3 DEF CacheVersion
<1>5. versions[<<x, e>>] = events.got
  BY <1>1, <1>2, <1>3 DEF GotSaved
<1>6. /\ events'.stage = "load" /\ events'.block = events.block
      /\ events'.retry = events.retry /\ ~events'.fill
  BY <1>1, <1>2 DEF NextOperation, TypeInv, EventsTyped
<1>7. frothyBlocks \in [Block -> [Entity -> Value \cup {NoVersion}] \cup {NoVersion}]
      /\ frothyBlocks' \in [Block -> [Entity -> Value \cup {NoVersion}] \cup {NoVersion}]
  BY <1>1, CacheTyped DEF TypeInv, TypeOK
<1>8. \A a \in Block \ {e} : frothyBlocks'[a] = frothyBlocks[a]
  BY <1>4, <1>7
<1>9. ASSUME InCache(e)
      PROVE  /\ InCache(e)'
             /\ frothyBlocks'[e][x] = events.got
             /\ \A y \in Entity \ {x} : frothyBlocks'[e][y] = frothyBlocks[e][y]
  <2>1. frothyBlocks[e] \in [Entity -> Value \cup {NoVersion}]
    BY <1>7, <1>9 DEF InCache
  <2>2. frothyBlocks'[e] = [frothyBlocks[e] EXCEPT ![x] = events.got]
    BY <1>4, <1>7, <1>9 DEF InCache
  <2>3. events.got \in Value \cup {NoVersion}
    BY <1>1 DEF TypeInv, EventsTyped
  <2>4. frothyBlocks'[e] \in [Entity -> Value \cup {NoVersion}]
    BY <2>1, <2>2, <2>3
  <2>5. frothyBlocks'[e] # NoVersion
    BY <2>4, NoVersionAssumption
  <2> QED
    BY <2>1, <2>2, <2>5 DEF InCache
<1>10. \A a \in Block : InCache(a)' <=> InCache(a)
  <2>1. ~InCache(e) => ~InCache(e)'
    BY <1>4 DEF InCache
  <2>2. \A a \in Block \ {e} : InCache(a)' <=> InCache(a)
    BY <1>8 DEF InCache
  <2> QED
    BY <1>9, <2>1, <2>2
<1>11. RunsOnBranch'
  BY <1>1, <1>2, <1>6 DEF RunsOnBranch
<1>12. RetriedBare'
  BY <1>1, <1>2, <1>6, <1>10 DEF RetriedBare, CacheEmpty, PrunedCached
<1>13. CachedSaved'
  <2> SUFFICES ASSUME NEW a \in Block, InCache(a)
               PROVE  /\ a \in saved
                      /\ \A b \in saved : a \in Ancestors[b] => InCache(b)'
                      /\ \A y \in Entity : frothyBlocks'[a][y] = versions[<<y, a>>]
    BY <1>2, <1>10 DEF CachedSaved
  <2>1. /\ a \in saved
        /\ \A b \in saved : a \in Ancestors[b] => InCache(b)
        /\ \A y \in Entity : ~Pending(y, a) => frothyBlocks[a][y] = versions[<<y, a>>]
    BY <1>1 DEF CachedSaved
  <2>2. \A b \in saved : a \in Ancestors[b] => InCache(b)'
    BY <1>1, <1>10, <2>1, BlocksTyped
  <2>3. ASSUME NEW y \in Entity
        PROVE  frothyBlocks'[a][y] = versions[<<y, a>>]
    <3>1. CASE a = e /\ y = x
      BY <1>5, <1>9, <3>1
    <3>2. CASE a # e \/ y # x
      <4>1. ~Pending(y, a)
        BY <1>3, <3>2 DEF Pending
      <4>2. frothyBlocks'[a][y] = frothyBlocks[a][y]
        BY <1>8, <1>9, <3>2
      <4> QED
        BY <2>1, <4>1, <4>2
    <3> QED
      BY <3>1, <3>2
  <2> QED
    BY <2>1, <2>2, <2>3
<1>14. HookedBelow'
  BY <1>1, <1>2, <1>10 DEF HookedBelow
<1>15. PrunedRight'
  <2>1. \A y \in Entity : OnBranch(y, hooked)' = OnBranch(y, hooked)
    BY <1>2 DEF OnBranch
  <2>2. PrunedCached' => PrunedCached
    BY <1>2 DEF PrunedCached
  <2>3. saved \subseteq Block
    BY <1>1, BlocksTyped
  <2>4. PrunedCached' =>
           /\ hooked' # NoBlock
           /\ \A b \in saved' : hooked' \in Ancestors[b] /\ b # hooked' => InCache(b)'
    BY <1>1, <1>2, <1>10, <2>2, <2>3 DEF PrunedRight
  <2>5. \A y \in Entity : latestPruned'[y] # NoVersion =>
           \E a \in OnBranch(y, hooked)' : versions'[<<y, a>>] = latestPruned'[y]
    BY <1>1, <1>2, <2>1 DEF PrunedRight
  <2> QED
    BY <2>4, <2>5 DEF PrunedRight
<1>16. FillRight' /\ GotSaved'
  BY <1>6 DEF FillRight, GotSaved
<1> QED
  BY <1>11, <1>12, <1>13, <1>14, <1>15, <1>16 DEF CacheFacts

\* the steps after the handlers, and the start of a retry
LEMMA StatusCached ==
    ASSUME InHand, CompleteBlock \/ UpdateProcessed \/ RetryEvents
    PROVE  CacheFacts'
<1>1. TypeInv /\ CacheFacts /\ RunsOnBranch /\ RetriedBare /\ FillRight
  BY DEF InHand, CacheFacts
<1>2. /\ UNCHANGED <<saved, pruned, canonical, versions, frothyBlocks, latestPruned, hooked>>
      /\ complete \subseteq complete' /\ events.stage \in {"load", "status", "failed"}
  BY DEF CompleteBlock, UpdateProcessed, RetryEvents, HandlersDone, blockVars, tableVars, cacheVars
<1>3. ~events.fill
  BY <1>1, <1>2 DEF FillRight
<1>4. \/ events' = NoEvents /\ saved \subseteq complete
      \/ /\ events'.block = events.block /\ ~events'.fill /\ events'.stage # "cache"
         /\ events'.stage \in {"failed", "reset"} \/ events'.retry => CacheEmpty
  <2>1. CASE CompleteBlock
    <3>1. events' = [events EXCEPT !.stage = "status"]
      BY <2>1 DEF CompleteBlock
    <3> QED
      BY <1>1, <1>3, <3>1 DEF TypeInv, EventsTyped, RetriedBare
  <2>2. CASE UpdateProcessed
    <3>1. events.block \in complete
      BY <1>1, <2>2 DEF UpdateProcessed, TypeInv, EventsTyped
    <3>2. saved \subseteq complete
      BY <1>1, <3>1 DEF RunsOnBranch
    <3>3. events' = NoEvents \/ (events.retry /\ events' = [events EXCEPT !.stage = "reset"])
      <4>1. CASE events.retry
        BY <2>2, <4>1 DEF UpdateProcessed
      <4>2. CASE ~events.retry
        BY <2>2, <4>2 DEF UpdateProcessed, FinishEvents
      <4> QED
        BY <4>1, <4>2
    <3> QED
      BY <1>1, <1>3, <3>2, <3>3 DEF TypeInv, EventsTyped, RetriedBare
  <2>3. CASE RetryEvents
    <3>1. events' = [NoEvents EXCEPT !.stage = "load", !.block = events.block, !.retry = TRUE]
      BY <2>3 DEF RetryEvents, StartEvents
    <3>2. CacheEmpty
      BY <1>1, <2>3 DEF RetryEvents, RetriedBare
    <3> QED
      BY <3>1, <3>2 DEF NoEvents
  <2> QED
    BY <2>1, <2>2, <2>3
<1>5. CacheEmpty => CacheEmpty'
  BY <1>2 DEF CacheEmpty, InCache, PrunedCached
<1>6. Busy
  BY <1>2 DEF Busy
<1>7. events'.stage # "cache" /\ ~events'.fill
  BY <1>4 DEF NoEvents
<1>8. RunsOnBranch'
  BY <1>1, <1>2, <1>4, <1>6 DEF RunsOnBranch, Busy, NoEvents
<1>9. RetriedBare'
  BY <1>4, <1>5 DEF RetriedBare, NoEvents
<1>10. FillRight'
  BY <1>7 DEF FillRight
<1> QED
  BY <1>1, <1>2, <1>7, <1>8, <1>9, <1>10, EventsFrame

\* without a cache there is little to say
LEMMA BareCache ==
    ASSUME CacheEmpty', RunsOnBranch', ~events'.fill, events'.stage # "cache",
           hooked' # NoBlock => hooked' \in Ancestors[canonical'] \ {canonical'}
    PROVE  CacheFacts'
<1>1. RetriedBare' /\ FillRight' /\ GotSaved'
  BY DEF RetriedBare, FillRight, GotSaved
<1>2. CachedSaved' /\ HookedBelow' /\ PrunedRight'
  BY DEF CacheEmpty, CachedSaved, HookedBelow, PrunedRight, PrunedCached
<1> QED
  BY <1>1, <1>2 DEF CacheFacts

LEMMA HandlerFailsCached ==
    ASSUME InHand, HandlerFails
    PROVE  CacheFacts'
<1>1. TypeInv /\ RunsOnBranch /\ HookedBelow
  BY DEF InHand, CacheFacts
<1>2. /\ UNCHANGED <<saved, complete, pruned, canonical, hooked>> /\ Busy
      /\ NoCache /\ events' = [NoEvents EXCEPT !.stage = "failed", !.block = events.block]
  BY DEF HandlerFails, AtOperation, Busy, Fail, blockVars
<1>3. events'.block = events.block /\ events'.stage = "failed" /\ ~events'.fill
  BY <1>2 DEF NoEvents
<1>4. CacheEmpty'
  BY <1>2 DEF CacheEmpty, InCache, PrunedCached, NoCache
<1>5. RunsOnBranch'
  BY <1>1, <1>2, <1>3 DEF RunsOnBranch
<1>6. hooked' # NoBlock => hooked' \in Ancestors[canonical'] \ {canonical'}
  BY <1>1, <1>2 DEF HookedBelow
<1> QED
  BY <1>3, <1>4, <1>5, <1>6, BareCache

LEMMA ResetCached ==
    ASSUME InHand, ResetAfterRetry
    PROVE  CacheFacts'
<1>1. TypeInv /\ InStep /\ RunsOnBranch /\ RetriedBare /\ HookedBelow
  BY DEF InHand, CacheFacts
<1>2. UNCHANGED <<frothyBlocks, latestPruned, hooked>> /\ events.stage = "reset"
  BY DEF ResetAfterRetry, cacheVars
<1>3. PICK n \in Nat : n = Number[events.block]
  BY <1>1, ResetAbove
<1>4. ResetWatcherToBlock(n) /\ events' = NoEvents /\ Number[canonical] <= n
  BY <1>1, <1>3, ResetAbove
<1>5. saved' = saved \ Above(n) /\ complete' = complete \ Above(n) /\ canonical' = canonical
  BY <1>1, <1>4, ResetKeeps
<1>6. CacheEmpty'
  BY <1>1, <1>2 DEF RetriedBare, CacheEmpty, InCache, PrunedCached
<1>7. events.block \in complete
  BY <1>1, <1>2 DEF TypeInv, EventsTyped
<1>8. ~Busy' /\ ~events'.fill /\ events'.stage # "cache"
  BY <1>4 DEF NoEvents, Busy
<1>9. RunsOnBranch'
  BY <1>1, <1>5, <1>7, <1>8 DEF RunsOnBranch
<1>10. hooked' # NoBlock => hooked' \in Ancestors[canonical'] \ {canonical'}
  BY <1>1, <1>2, <1>5 DEF HookedBelow
<1> QED
  BY <1>6, <1>8, <1>9, <1>10, BareCache

LEMMA CacheStep ==
    ASSUME NoNullRounds, CacheInv, OwnFills, [Next]_vars
    PROVE  CacheInv'
<1> SUFFICES ASSUME Unbroken', "status" \notin faults' PROVE CacheFacts'
  BY BranchStep DEF CacheInv
<1>1. InHand
  <2>1. Unbroken /\ "status" \notin faults
    BY FaultsGrow DEF Unbroken
  <2> QED
    BY <2>1 DEF InHand, CacheInv, BranchInv, PruneInv, StepInv
<1>2. ASSUME NEW t \in Block, NEW b \in Block, IndexBlock(t, b) PROVE CacheFacts'
  BY <1>1, <1>2, IndexCached
<1>3. ASSUME NEW t \in Block, IndexBlockAgain(t) PROVE CacheFacts'
  BY <1>1, <1>3, IndexAgainCached
<1>4. ASSUME NEW c \in Block, RunHooks(c) PROVE CacheFacts'
  BY <1>1, <1>4, HooksCached
<1>5. CASE PruneBlocks \/ PruneRows \/ PruneCommit
  BY <1>1, <1>5, PruningCached
<1>6. CASE ReadCache \/ ReadDatabase
  BY <1>1, <1>6, ReadCached
<1>7. CASE SkipRemove \/ SaveVersion \/ CacheVersion
  BY <1>1, <1>7, SkipCached, SaveCached, CacheCached
<1>8. CASE CompleteBlock \/ UpdateProcessed \/ RetryEvents \/ ResetAfterRetry
  BY <1>1, <1>8, StatusCached, ResetCached
<1>9. CASE HandlerFails
  BY <1>1, <1>9, HandlerFailsCached
<1>10. CASE StatusFails \/ PruneFails \/ Restart
  BY <1>10 DEF StatusFails, PruneFails, Restart, Faulty, Unbroken
<1>11. CASE UNCHANGED vars
  <2>1. /\ UNCHANGED <<saved, complete, pruned, canonical>>
        /\ UNCHANGED <<versions, frothyBlocks, latestPruned, hooked, events>>
    BY <1>11 DEF vars, blockVars, tableVars, cacheVars
  <2>2. CacheFacts /\ RunsOnBranch /\ HookedBelow
    BY <1>1 DEF InHand, CacheFacts
  <2>3. RunsOnBranch' /\ HookedBelow'
    BY <2>1, <2>2 DEF RunsOnBranch, HookedBelow, InCache, Busy
  <2> QED
    BY <2>1, <2>2, <2>3, PruningFrame
<1> QED
  BY <1>2, <1>3, <1>4, <1>5, <1>6, <1>7, <1>8, <1>9, <1>10, <1>11 DEF Next, EventWorkerStep

LEMMA CachedReads ==
    ASSUME NoNullRounds, CacheInv, Unbroken
    PROVE  ReadsFollowBranch
<1> SUFFICES ASSUME "status" \notin faults, NEW b \in Tips, NEW x \in Entity,
                    events.block \notin Ancestors[b], ~ReadsOtherBranch(x, b)
             PROVE  {AsRead(v) : v \in EntityAt(x, b)} = ValueOf(OnBranch(x, b), x)
  BY DEF ReadsFollowBranch
<1>1. TypeInv /\ InStep /\ OneBranch /\ CachedSaved /\ HookedBelow /\ PrunedRight
  BY DEF CacheInv, CacheFacts, BranchInv, BranchFacts, PruneInv, StepInv
<1>2. b \in saved /\ Ancestors[b] \cap pruned = {} /\ Number[canonical] <= Number[b]
  BY <1>1, BlocksTyped DEF Tips
<1>3. canonical \in Ancestors[b]
  BY <1>1, <1>2, CanonicalOn
<1>4. \A a \in Ancestors[b] : ~Pending(x, a)
  BY DEF Pending
<1> QED
  BY <1>1, <1>2, <1>3, <1>4, ReadOnBranch

\* As long as no prune job and no process fails, and no handler puts the version of
\* another branch in the cache, what getModelEntity returns for a block is the last version on
\* the block's branch: what the hooks move out of the frothy blocks of the cache is the
\* last version up to the hooked block, nothing that a read adds to it after its await has
\* been overtaken by a hook or a save, and a failed handler takes the cache with it.
THEOREM ReadsStayOnBranch ==
    ASSUME NoNullRounds
    PROVE  Spec /\ []OwnFills => [](Unbroken => ReadsFollowBranch)
<1>1. Init => CacheInv
  BY InitCache
<1>2. CacheInv /\ OwnFills /\ [Next]_vars => CacheInv'
  BY CacheStep
<1>3. CacheInv => (Unbroken => ReadsFollowBranch)
  BY CachedReads
<1> QED
  BY <1>1, <1>2, <1>3, PTL DEF Spec

-------------------------------------------------------------------------------
(* The updates a version holds.                                              *)

\* what a handler has read or is about to save holds updates of the branch only
GotOfBranch ==
    events.stage \in {"save", "cache"} /\ events.got # NoVersion =>
        Range(events.got) \subseteq Ancestors[events.block]

BranchOnly == VersionsOfBranch /\ GotOfBranch

VersionInv == CacheInv /\ (Unbroken /\ "status" \notin faults => BranchOnly)

\* the steps that save nothing and read nothing
LEMMA BranchOnlyFrame ==
    ASSUME TypeInv, InStep, BranchOnly,
           \A x \in Entity, b \in Block : versions'[<<x, b>>] \in {versions[<<x, b>>], NoVersion},
           \A x \in Entity, b \in Block : versions'[<<x, b>>] # NoVersion => b \in saved',
           saved' \subseteq Block,
           \/ events' = events
           \/ events'.stage \notin {"save", "cache"}
    PROVE  BranchOnly'
<1>1. \A x \in Entity, b \in Block : versions[<<x, b>>] # NoVersion => b \in saved
  <2>1. \A x \in Entity, b \in Block : versions[<<x, b>>] # NoVersion => <<x, b>>[2] \in saved
    BY DEF InStep, RowsInStep
  <2> QED
    BY <2>1
<1>2. VersionsOfBranch'
  <2> SUFFICES ASSUME NEW b \in saved', NEW x \in Entity, versions'[<<x, b>>] # NoVersion
               PROVE  Range(versions'[<<x, b>>]) \subseteq Ancestors[b]
    BY DEF VersionsOfBranch
  <2>1. b \in Block /\ versions'[<<x, b>>] = versions[<<x, b>>]
    OBVIOUS
  <2>2. b \in saved
    BY <1>1, <2>1
  <2> QED
    BY <2>1, <2>2 DEF BranchOnly, VersionsOfBranch
<1>3. GotOfBranch'
  BY DEF BranchOnly, GotOfBranch
<1> QED
  BY <1>2, <1>3 DEF BranchOnly

\* a handler reads the last version of its branch
LEMMA ReadOfBranch ==
    ASSUME NoNullRounds, InHand, BranchOnly, OwnReads, ReadCache \/ ReadDatabase
    PROVE  BranchOnly'
<1>1. /\ TypeInv /\ InStep /\ OneBranch /\ RunsOnBranch /\ CachedSaved /\ HookedBelow
      /\ PrunedRight /\ VersionsOfBranch
  BY DEF InHand, BranchFacts, CacheFacts, BranchOnly
<1>2. /\ UNCHANGED <<saved, versions>> /\ AtOperation("load") /\ events.stage = "load"
  BY DEF ReadCache, ReadDatabase, AtOperation, blockVars, tableVars
<1>3. Operation_.id \in Entity /\ events.block \in saved /\ events.block \in Block /\ Busy
  BY <1>1, <1>2, OperationRuns
<1>4. PICK e \in saved, x \in Entity : e = events.block /\ x = Operation_.id
  BY <1>3
<1>5. /\ canonical \in Ancestors[e] /\ Ancestors[e] \cap pruned = {} /\ e \in Block
      /\ \A a \in Ancestors[e] : ~Pending(x, a)
      /\ ~ReadsOtherBranch(x, e)
  <2>1. canonical \in Ancestors[e] /\ Ancestors[e] \cap pruned = {} /\ e \in Block
    BY <1>1, <1>3, <1>4, RunsOver DEF RunsOnBranch
  <2>2. \A a \in Ancestors[e] : ~Pending(x, a)
    BY <1>2 DEF Pending
  <2>3. ~ReadsOtherBranch(x, e)
    BY <1>2, <1>4 DEF OwnReads
  <2> QED
    BY <2>1, <2>2, <2>3
<1>6. ASSUME NEW v \in EntityAt(x, e), v # NoVersion
      PROVE  \E a \in OnBranch(x, e) : versions[<<x, a>>] = v
  <2>1. CASE CacheHit(x, e) # NoVersion
    <3>1. v = CacheHit(x, e)
      BY <2>1 DEF EntityAt
    <3> QED
      BY <1>1, <1>5, <2>1, <3>1, HitOnBranch
  <2>2. CASE CacheHit(x, e) = NoVersion
    <3>1. v \in QueryResults(x, e)
      BY <2>2 DEF EntityAt
    <3>2. CASE CacheUsed(e)
      <4>1. LatestPrunedEntity(x, MinNumber(CachedBranch(e)) + 1) = OnBranch(x, e)
        BY <1>1, <1>5, <2>2, <3>2, MissOnBranch
      <4> QED
        BY <1>6, <3>1, <3>2, <4>1 DEF QueryResults
    <3>3. CASE ~CacheUsed(e)
      <4>1. PrevEntityVersion(x, e) = OnBranch(x, e)
        BY <1>1, <1>5, <3>3, StoreOnBranch
      <4> QED
        BY <1>6, <3>1, <3>3, <4>1 DEF QueryResults
    <3> QED
      BY <3>2, <3>3
  <2> QED
    BY <2>1, <2>2
<1>7. ASSUME NEW v \in EntityAt(x, e), v # NoVersion
      PROVE  Range(v) \subseteq Ancestors[e]
  <2>1. PICK a \in OnBranch(x, e) : versions[<<x, a>>] = v
    BY <1>6, <1>7
  <2>2. a \in Ancestors[e]
    BY DEF OnBranch, Highest
  <2>3. a \in saved
    BY <1>1, <2>2, ClosedHoldsAncestors DEF InStep, RowsInStep
  <2>4. Range(v) \subseteq Ancestors[a]
    BY <1>1, <1>7, <2>1, <2>3 DEF VersionsOfBranch
  <2> QED
    BY <1>5, <2>2, <2>4, AncestorsTransitive
<1>8. PICK v \in EntityAt(x, e), fill \in BOOLEAN : Loaded(v, fill)
  <2>1. CASE ReadCache
    <3>1. Loaded(CacheHit(x, e), FALSE) /\ CacheHit(x, e) # NoVersion
      BY <1>4, <2>1 DEF ReadCache
    <3> QED
      BY <3>1 DEF EntityAt
  <2>2. CASE ReadDatabase
    <3>1. PICK v \in QueryResults(x, e) : Loaded(v, CacheUsed(e) /\ v # NoVersion)
      BY <1>4, <2>2 DEF ReadDatabase
    <3>2. v \in EntityAt(x, e)
      BY <1>4, <2>2 DEF ReadDatabase, EntityAt
    <3>3. PICK fill \in BOOLEAN : fill = (CacheUsed(e) /\ v # NoVersion)
      OBVIOUS
    <3> QED
      BY <3>1, <3>2, <3>3
  <2> QED
    BY <2>1, <2>2
<1>9. events'.block = e /\ events'.got = v
  BY <1>1, <1>4, <1>8 DEF Loaded, TypeInv, EventsTyped
<1>10. GotOfBranch'
  BY <1>7, <1>9 DEF GotOfBranch
<1>11. VersionsOfBranch'
  BY <1>1, <1>2 DEF VersionsOfBranch
<1> QED
  BY <1>10, <1>11 DEF BranchOnly

\* and saves it with an update of its block
LEMMA SaveOfBranch ==
    ASSUME TypeInv, BranchOnly, SaveVersion
    PROVE  BranchOnly'
<1>1. /\ UNCHANGED saved /\ events.stage = "save"
      /\ Operation_.id \in Entity /\ events.block \in Block
  BY OperationRuns DEF SaveVersion, AtOperation, blockVars
<1>2. PICK e \in Block, x \in Entity : e = events.block /\ x = Operation_.id
  BY <1>1
<1>3. PICK s \in Seq(Block) : s = IF events.got = NoVersion THEN <<>> ELSE events.got
  <2>1. events.got \in Value \cup {NoVersion} /\ <<>> \in Seq(Block)
    BY EmptySeq DEF TypeInv, EventsTyped
  <2> QED
    BY <2>1 DEF Value
<1>4. Range(s) \subseteq Ancestors[e]
  <2>1. CASE events.got = NoVersion
    BY <1>3, <2>1 DEF Range
  <2>2. CASE events.got # NoVersion
    BY <1>1, <1>2, <1>3, <2>2 DEF BranchOnly, GotOfBranch
  <2> QED
    BY <2>1, <2>2
<1>5. PICK v : v = Updated(Operation_, e, events.got)
  OBVIOUS
<1>6. Range(v) \subseteq Ancestors[e]
  <2>1. v = <<>> \/ v = Append(s, e)
    BY <1>3, <1>5 DEF Updated
  <2>2. CASE v = <<>>
    BY <2>2 DEF Range
  <2>3. CASE v = Append(s, e)
    <3>1. /\ Append(s, e) \in Seq(Block) /\ Len(Append(s, e)) = Len(s) + 1
          /\ \A i \in 1 .. Len(s) : Append(s, e)[i] = s[i]
          /\ Append(s, e)[Len(s) + 1] = e
      BY AppendProperties
    <3>2. Len(s) \in Nat /\ DOMAIN s = 1 .. Len(s) /\ DOMAIN Append(s, e) = 1 .. (Len(s) + 1)
      BY <3>1, LenProperties
    <3>3. ASSUME NEW i \in DOMAIN Append(s, e)
          PROVE  Append(s, e)[i] \in Ancestors[e]
      <4>1. i \in 1 .. Len(s) \/ i = Len(s) + 1
        BY <3>2
      <4>2. CASE i \in 1 .. Len(s)
        BY <1>4, <3>1, <3>2, <4>2 DEF Range
      <4>3. CASE i = Len(s) + 1
        BY <3>1, <4>3, AncestorsClosed
      <4> QED
        BY <4>1, <4>2, <4>3
    <3> QED
      BY <2>3, <3>3 DEF Range
  <2> QED
    BY <2>1, <2>2, <2>3
<1>7. /\ versions' = [versions EXCEPT ![<<x, e>>] = v]
      /\ events' = [events EXCEPT !.stage = "cache", !.got = v, !.fill = FALSE]
  BY <1>2, <1>5 DEF SaveVersion
<1>8. VersionsOfBranch'
  <2> SUFFICES ASSUME NEW b \in saved, NEW y \in Entity, versions'[<<y, b>>] # NoVersion
               PROVE  Range(versions'[<<y, b>>]) \subseteq Ancestors[b]
    BY <1>1 DEF VersionsOfBranch
  <2>1. b \in Block
    BY BlocksTyped
  <2>2. CASE y = x /\ b = e
    <3>1. versions'[<<y, b>>] = v
      BY <1>7, <2>1, <2>2 DEF TypeInv, TypeOK
    <3> QED
      BY <1>6, <2>2, <3>1
  <2>3. CASE y # x \/ b # e
    <3>1. versions'[<<y, b>>] = versions[<<y, b>>]
      BY <1>7, <2>1, <2>3 DEF TypeInv, TypeOK
    <3> QED
      BY <3>1 DEF BranchOnly, VersionsOfBranch
  <2> QED
    BY <2>2, <2>3
<1>9. events'.block = e /\ events'.got = v
  BY <1>2, <1>7 DEF TypeInv, EventsTyped
<1>10. GotOfBranch'
  BY <1>6, <1>9 DEF GotOfBranch
<1> QED
  BY <1>8, <1>10 DEF BranchOnly

LEMMA VersionStep ==
    ASSUME NoNullRounds, VersionInv, OwnReads, [Next]_vars
    PROVE  VersionInv'
<1>1. CacheInv' /\ CacheInv
  BY CacheStep DEF VersionInv, OwnFills
<1> SUFFICES ASSUME Unbroken', "status" \notin faults' PROVE BranchOnly'
  BY <1>1 DEF VersionInv
<1>2. InHand /\ BranchOnly
  <2>1. Unbroken /\ "status" \notin faults
    BY FaultsGrow DEF Unbroken
  <2> QED
    BY <1>1, <2>1 DEF InHand, VersionInv, CacheInv, BranchInv, PruneInv, StepInv
<1>3. TypeInv /\ InStep /\ TypeInv' /\ InStep'
  BY <1>1, <1>2 DEF InHand, CacheInv, BranchInv, PruneInv, StepInv
<1>4. /\ \A x \in Entity, b \in Block : versions'[<<x, b>>] # NoVersion => b \in saved'
      /\ saved' \subseteq Block
  <2>1. \A r \in Entity \X Block : versions'[r] # NoVersion => r[2] \in saved'
    BY <1>3 DEF InStep, RowsInStep
  <2>2. \A x \in Entity, b \in Block : versions'[<<x, b>>] # NoVersion => <<x, b>>[2] \in saved'
    BY <2>1
  <2> QED
    BY <1>3, <2>2 DEF TypeInv, TypeOK
<1>5. CASE ReadCache \/ ReadDatabase
  BY <1>2, <1>5, ReadOfBranch
<1>6. CASE SaveVersion
  BY <1>2, <1>3, <1>6, SaveOfBranch
<1>7. CASE HandlerFails
  <2>1. DeleteVersions({events.block}, Number[events.block])
    BY <1>7 DEF HandlerFails, ClearProcessedBlockData
  <2>2. \A x \in Entity, b \in Block : versions'[<<x, b>>] \in {versions[<<x, b>>], NoVersion}
    BY <2>1 DEF DeleteVersions
  <2>3. events'.stage = "failed"
    BY <1>7 DEF HandlerFails, Fail, NoEvents
  <2> QED
    BY <1>2, <1>3, <1>4, <2>2, <2>3, BranchOnlyFrame
<1>8. CASE ResetAfterRetry
  <2>1. DeleteVersions(Above(Number[events.block]), Number[events.block]) /\ events' = NoEvents
    BY <1>8 DEF ResetAfterRetry, ResetWatcherToBlock, FinishEvents
  <2>2. \A x \in Entity, b \in Block : versions'[<<x, b>>] \in {versions[<<x, b>>], NoVersion}
    BY <2>1 DEF DeleteVersions
  <2>3. events'.stage = "idle"
    BY <2>1 DEF NoEvents
  <2> QED
    BY <1>2, <1>3, <1>4, <2>2, <2>3, BranchOnlyFrame
<1>9. CASE \/ \E t, b \in Block : IndexBlock(t, b)
           \/ \E t \in Block : IndexBlockAgain(t)
           \/ SkipRemove \/ CacheVersion \/ CompleteBlock \/ UpdateProcessed \/ RetryEvents
  <2>1. versions' = versions
    BY <1>9 DEF IndexBlock, IndexBlockAgain, SkipRemove, CacheVersion, CompleteBlock,
       UpdateProcessed, RetryEvents, tableVars
  <2>2. events'.stage \notin {"save", "cache"}
    <3>1. CASE \E t, b \in Block : IndexBlock(t, b)
      <4>1. PICK t, b \in Block : IndexBlock(t, b)
        BY <3>1
      <4>2. events' = [NoEvents EXCEPT !.stage = "load", !.block = b, !.retry = FALSE]
        BY <4>1 DEF IndexBlock, StartEvents
      <4> QED
        BY <4>2 DEF NoEvents
    <3>2. CASE \E t \in Block : IndexBlockAgain(t)
      <4>1. PICK t \in Block : IndexBlockAgain(t)
        BY <3>2
      <4>2. events' = [NoEvents EXCEPT !.stage = "load", !.block = t, !.retry = FALSE]
        BY <4>1 DEF IndexBlockAgain, StartEvents
      <4> QED
        BY <4>2 DEF NoEvents
    <3>3. CASE SkipRemove \/ CacheVersion
      <4>1. NextOperation
        BY <3>3 DEF SkipRemove, CacheVersion
      <4> QED
        BY <1>3, <4>1 DEF NextOperation, TypeInv, EventsTyped
    <3>4. CASE CompleteBlock
      <4>1. events' = [events EXCEPT !.stage = "status"]
        BY <3>4 DEF CompleteBlock
      <4> QED
        BY <1>3, <4>1 DEF TypeInv, EventsTyped
    <3>5. CASE UpdateProcessed
      <4>1. CASE events.retry
        <5>1. events' = [events EXCEPT !.stage = "reset"]
          BY <3>5, <4>1 DEF UpdateProcessed
        <5> QED
          BY <1>3, <5>1 DEF TypeInv, EventsTyped
      <4>2. CASE ~events.retry
        <5>1. events' = NoEvents
          BY <3>5, <4>2 DEF UpdateProcessed, FinishEvents
        <5> QED
          BY <5>1 DEF NoEvents
      <4> QED
        BY <4>1, <4>2
    <3>6. CASE RetryEvents
      <4>1. events' = [NoEvents EXCEPT !.stage = "load", !.block = events.block, !.retry = TRUE]
        BY <3>6 DEF RetryEvents, StartEvents
      <4> QED
        BY <4>1 DEF NoEvents
    <3> QED
      BY <1>9, <3>1, <3>2, <3>3, <3>4, <3>5, <3>6
  <2> QED
    BY <1>2, <1>3, <1>4, <2>1, <2>2, BranchOnlyFrame
<1>10. CASE \/ \E c \in Block : RunHooks(c)
            \/ PruneBlocks \/ PruneRows \/ PruneCommit \/ UNCHANGED vars
  <2>1. versions' = versions /\ events' = events
    BY <1>10 DEF RunHooks, PruneBlocks, PruneRows, MarkRows, PruneCommit, vars, tableVars
  <2> QED
    BY <1>2, <1>3, <1>4, <2>1, BranchOnlyFrame
<1>11. CASE StatusFails \/ PruneFails \/ Restart
  BY <1>11 DEF StatusFails, PruneFails, Restart, Faulty, Unbroken
<1> QED
  BY <1>5, <1>6, <1>7, <1>8, <1>9, <1>10, <1>11 DEF Next, EventWorkerStep

\* As long as no handler reads the version of another branch, prune jobs and processes do
\* not fail and no step after the handlers does, a version that is saved holds updates
\* of the blocks on its own branch only, whichever branches are processed in between, whether
\* it was read from the cache or from the tables (store.get, saveEntity).
THEOREM VersionsStayOnBranch ==
    ASSUME NoNullRounds
    PROVE  Spec /\ []OwnReads => [](Unbroken /\ "status" \notin faults => VersionsOfBranch)
<1>1. Init => VersionInv
  <2> SUFFICES ASSUME Init PROVE BranchOnly
    BY InitCache DEF VersionInv
  <2> QED
    BY DEF Init, BranchOnly, VersionsOfBranch, GotOfBranch, NoEvents
<1>2. VersionInv /\ OwnReads /\ [Next]_vars => VersionInv'
  BY VersionStep
<1>3. VersionInv => (Unbroken /\ "status" \notin faults => VersionsOfBranch)
  BY DEF VersionInv, BranchOnly
<1> QED
  BY <1>1, <1>2, <1>3, PTL DEF Spec

-------------------------------------------------------------------------------
(* Every update, once.                                                       *)

\* the value of x on the branch of b, in the tables
Holds(x, b, v) ==
    IF OnBranch(x, b) = {} THEN v = <<>>
    ELSE \A a \in OnBranch(x, b) : versions[<<x, a>>] = v

\* Blocks are complete after their parents, with what their handlers are to make.
CompleteExact ==
    /\ complete \in ParentClosed
    /\ \A b \in complete, x \in Entity : Holds(x, b, StateOf(b)[x])

\* so many store calls of the block that is processed are in the tables
Applied == IF events.stage = "cache" THEN events.pc ELSE events.pc - 1

\* In between, the tables have what the store calls so far are to make, and the next one
\* has read that.
RunningExact ==
    events.stage \in {"load", "save", "cache"} =>
        /\ events.block \notin complete
        /\ Applied <= Len(Operations[events.block])
        /\ \A x \in Entity : Holds(x, events.block, StateAfter[events.block][Applied][x])
        /\ events.stage = "save" =>
              AsRead(events.got) = StateAfter[events.block][Applied][Operation_.id]

\* A failed attempt leaves no version.
FailedExact ==
    events.stage = "failed" =>
        /\ events.block \notin complete
        /\ \A x \in Entity : versions[<<x, events.block>>] = NoVersion

Exact == CompleteExact /\ RunningExact /\ FailedExact

ExactInv == VersionInv /\ (faults \subseteq {"handler"} => Exact)

\* what a branch holds depends on the versions of its blocks only
LEMMA HoldsFrame ==
    ASSUME NEW b \in Block, NEW x \in Entity, NEW v, Holds(x, b, v),
           \A a \in Ancestors[b] : versions'[<<x, a>>] = versions[<<x, a>>]
    PROVE  Holds(x, b, v)'
<1>1. OnBranch(x, b)' = OnBranch(x, b)
  BY DEF OnBranch, Highest
<1>2. \A a \in OnBranch(x, b) : a \in Ancestors[b]
  BY DEF OnBranch, Highest
<1> QED
  BY <1>1, <1>2 DEF Holds

\* a version of the block itself is the last one
LEMMA OwnVersion ==
    ASSUME NEW b \in Block, NEW x \in Entity, versions[<<x, b>>] # NoVersion
    PROVE  OnBranch(x, b) = {b}
<1>1. b \in Ancestors[b] /\ \A a \in Ancestors[b] \ {b} : Number[a] < Number[b]
  BY AncestorsClosed, AncestorsBelow
<1>2. \A a \in Ancestors[b] : Number[a] \in Nat /\ Number[b] \in Nat
  BY AncestorsTyped, NumberTyped
<1>3. b \in OnBranch(x, b)
  <2>1. \A a \in Ancestors[b] : Number[a] <= Number[b]
    BY <1>1, <1>2
  <2> QED
    BY <1>1, <2>1 DEF OnBranch, Highest
<1> QED
  BY <1>3, OneOnBranch

\* before the first store call a block has the state of its parent
LEMMA StartHolds ==
    ASSUME OperationsApplied, NEW b \in Block, NEW x \in Entity,
           versions[<<x, b>>] = NoVersion,
           b # Root => Parent[b] \in Block /\ Holds(x, Parent[b], StateOf(Parent[b])[x])
    PROVE  Holds(x, b, StateAfter[b][0][x])
<1>1. CASE b = Root
  <2>1. Ancestors[b] = {b}
    <3>1. ASSUME NEW a \in Ancestors[b], a # b PROVE FALSE
      <4>1. a \in Block /\ Number[a] < Number[b] /\ Number[b] < Number[a]
        BY <1>1, <3>1, AncestorsTyped, AncestorsBelow, RootLowest
      <4> QED
        BY <4>1, NumberTyped
    <3> QED
      BY <3>1, AncestorsClosed
  <2>2. OnBranch(x, b) = {}
    BY <2>1 DEF OnBranch, Highest
  <2>3. StateAfter[b][0][x] = <<>>
    BY <1>1 DEF OperationsApplied
  <2> QED
    BY <2>2, <2>3 DEF Holds
<1>2. CASE b # Root
  <2>1. Ancestors[b] \subseteq {b} \cup Ancestors[Parent[b]]
    BY <1>2, AncestorsOfParent
  <2>2. Ancestors[Parent[b]] \subseteq Ancestors[b]
    <3>1. Parent[b] \in Ancestors[b]
      BY <1>2, AncestorsClosed DEF ParentClosed
    <3> QED
      BY <3>1, AncestorsTransitive
  <2>3. {a \in Ancestors[b] : versions[<<x, a>>] # NoVersion}
            = {a \in Ancestors[Parent[b]] : versions[<<x, a>>] # NoVersion}
    BY <2>1, <2>2
  <2>4. OnBranch(x, b) = OnBranch(x, Parent[b])
    BY <2>3 DEF OnBranch
  <2>5. StateAfter[b][0][x] = StateOf(Parent[b])[x]
    BY <1>2 DEF OperationsApplied
  <2> QED
    BY <1>2, <2>4, <2>5 DEF Holds
<1> QED
  BY <1>1, <1>2

LEMMA OwnVersionNext ==
    ASSUME NEW b \in Block, NEW x \in Entity, versions'[<<x, b>>] # NoVersion
    PROVE  OnBranch(x, b)' = {b}
<1>1. b \in Ancestors[b] /\ \A a \in Ancestors[b] \ {b} : Number[a] < Number[b]
  BY AncestorsClosed, AncestorsBelow
<1>2. \A a \in Ancestors[b] : Number[a] \in Nat /\ Number[b] \in Nat
  BY AncestorsTyped, NumberTyped
<1>3. \A a \in Ancestors[b] : Number[a] <= Number[b]
  BY <1>1, <1>2
<1>4. b \in OnBranch(x, b)'
  BY <1>1, <1>3 DEF OnBranch, Highest
<1>5. ASSUME NEW a \in OnBranch(x, b)' PROVE a = b
  <2>1. a \in Ancestors[b] /\ Number[b] <= Number[a]
    BY <1>1, <1>5 DEF OnBranch, Highest
  <2> QED
    BY <1>1, <1>2, <2>1
<1> QED
  BY <1>4, <1>5

\* all blocks below the one that is processed are complete
LEMMA ParentComplete ==
    ASSUME TypeInv, InStep, RunsOnBranch, events.block \in saved, events.block # Root
    PROVE  Parent[events.block] \in complete
<1>1. events.block \in Block /\ Parent[events.block] \in saved
  BY DEF InStep, RowsInStep, ParentClosed
<1>2. Parent[events.block] # events.block
  <2>1. /\ Number[Parent[events.block]] < Number[events.block]
        /\ Number[events.block] \in Nat /\ Number[Parent[events.block]] \in Nat
    BY <1>1, BlockTreeAssumption
  <2> QED
    BY <2>1
<1> QED
  BY <1>1, <1>2 DEF RunsOnBranch

\* the versions of complete blocks stay, so do the states they hold
LEMMA CompleteFrame ==
    ASSUME CompleteExact, complete \in SUBSET Block, complete' \in ParentClosed,
           complete' \subseteq complete,
           \A b \in complete', x \in Entity : versions'[<<x, b>>] = versions[<<x, b>>]
    PROVE  CompleteExact'
<1> SUFFICES ASSUME NEW b \in complete', NEW x \in Entity
             PROVE  Holds(x, b, StateOf(b)[x])'
  BY DEF CompleteExact
<1>1. Holds(x, b, StateOf(b)[x])
  BY DEF CompleteExact
<1>2. PICK v : v = StateOf(b)[x]
  OBVIOUS
<1>3. Ancestors[b] \subseteq complete'
  BY ClosedHoldsAncestors
<1>4. Holds(x, b, v)'
  BY <1>1, <1>2, <1>3, HoldsFrame
<1> QED
  BY <1>2, <1>4

\* while the block that is processed is not complete, what happens to its versions does not
\* touch them
LEMMA CompleteKept ==
    ASSUME CompleteExact, complete \in SUBSET Block, complete' = complete,
           NEW e \in Block, e \notin complete,
           \A x \in Entity, b \in Block \ {e} : versions'[<<x, b>>] = versions[<<x, b>>]
    PROVE  CompleteExact'
<1>1. \A b \in complete', x \in Entity : versions'[<<x, b>>] = versions[<<x, b>>]
  OBVIOUS
<1> QED
  BY <1>1, CompleteFrame DEF CompleteExact

\* the first attempt at a block, and each further one
LEMMA StartExact ==
    ASSUME OperationsApplied, CompleteExact', complete' = complete, complete \in SUBSET Block,
           UNCHANGED versions, NEW b \in Block \ complete, b # Root => Parent[b] \in complete,
           \A x \in Entity : versions[<<x, b>>] = NoVersion,
           NEW again \in BOOLEAN, StartEvents(b, again)
    PROVE  Exact'
<1>1. /\ events'.stage = "load" /\ events'.block = b /\ events'.pc = 1
  BY DEF StartEvents, NoEvents
<1>2. Applied' = 0
  BY <1>1 DEF Applied
<1>3. \A x \in Entity : Holds(x, b, StateAfter[b][0][x])'
  <2> SUFFICES ASSUME NEW x \in Entity PROVE Holds(x, b, StateAfter[b][0][x])'
    OBVIOUS
  <2>1. b # Root => Parent[b] \in Block /\ Holds(x, Parent[b], StateOf(Parent[b])[x])
    <3>1. ASSUME b # Root
          PROVE  Parent[b] \in Block /\ Holds(x, Parent[b], StateOf(Parent[b])[x])'
      BY <3>1 DEF CompleteExact
    <3>2. \A c, v : Holds(x, c, v)' <=> Holds(x, c, v)
      BY DEF Holds, OnBranch
    <3> QED
      BY <3>1, <3>2
  <2>2. Holds(x, b, StateAfter[b][0][x])
    BY <2>1, StartHolds
  <2> QED
    BY <2>2 DEF Holds, OnBranch
<1>4. Operations[b] \in Seq(Operation)
  BY EntityStoreAssumption
<1>5. 0 <= Len(Operations[b])
  BY <1>4, LenProperties
<1>6. RunningExact'
  BY <1>1, <1>2, <1>3, <1>5 DEF RunningExact
<1>7. FailedExact'
  BY <1>1 DEF FailedExact
<1> QED
  BY <1>6, <1>7 DEF Exact

\* a handler reads what its block is to have at that point
LEMMA LoadExact ==
    ASSUME NoNullRounds, InHand, Exact, OwnReads, ReadCache \/ ReadDatabase
    PROVE  Exact'
<1>1. /\ TypeInv /\ InStep /\ OneBranch /\ RunsOnBranch /\ CachedSaved /\ HookedBelow
      /\ PrunedRight
  BY DEF InHand, BranchFacts, CacheFacts
<1>2. /\ UNCHANGED <<complete, versions>> /\ AtOperation("load") /\ events.stage = "load"
  BY DEF ReadCache, ReadDatabase, AtOperation, blockVars, tableVars
<1>3. Operation_.id \in Entity /\ events.block \in saved /\ events.block \in Block /\ Busy
  BY <1>1, <1>2, OperationRuns
<1>4. PICK e \in saved, x \in Entity : e = events.block /\ x = Operation_.id
  BY <1>3
<1>5. /\ canonical \in Ancestors[e] /\ Ancestors[e] \cap pruned = {} /\ e \in Block
      /\ \A a \in Ancestors[e] : ~Pending(x, a)
      /\ ~ReadsOtherBranch(x, e)
  <2>1. canonical \in Ancestors[e] /\ Ancestors[e] \cap pruned = {} /\ e \in Block
    BY <1>1, <1>3, <1>4, RunsOver DEF RunsOnBranch
  <2>2. \A a \in Ancestors[e] : ~Pending(x, a)
    BY <1>2 DEF Pending
  <2>3. ~ReadsOtherBranch(x, e)
    BY <1>2, <1>4 DEF OwnReads
  <2> QED
    BY <2>1, <2>2, <2>3
<1>6. {AsRead(v) : v \in EntityAt(x, e)} = ValueOf(OnBranch(x, e), x)
  BY <1>1, <1>5, ReadOnBranch
<1>7. PICK i \in Nat : i = Applied /\ i = events.pc - 1
  BY <1>1, <1>2 DEF Applied, TypeInv, EventsTyped
<1>8. Holds(x, e, StateAfter[e][i][x]) /\ e \notin complete /\ i <= Len(Operations[e])
  BY <1>2, <1>4, <1>7 DEF Exact, RunningExact
<1>9. ASSUME NEW v \in EntityAt(x, e) PROVE AsRead(v) = StateAfter[e][i][x]
  <2>1. AsRead(v) \in ValueOf(OnBranch(x, e), x)
    BY <1>6
  <2> QED
    BY <1>8, <2>1 DEF ValueOf, Holds
<1>10. PICK v \in EntityAt(x, e), fill \in BOOLEAN : Loaded(v, fill)
  <2>1. CASE ReadCache
    <3>1. Loaded(CacheHit(x, e), FALSE) /\ CacheHit(x, e) # NoVersion
      BY <1>4, <2>1 DEF ReadCache
    <3> QED
      BY <3>1 DEF EntityAt
  <2>2. CASE ReadDatabase
    <3>1. PICK v \in QueryResults(x, e) : Loaded(v, CacheUsed(e) /\ v # NoVersion)
      BY <1>4, <2>2 DEF ReadDatabase
    <3>2. v \in EntityAt(x, e)
      BY <1>4, <2>2 DEF ReadDatabase, EntityAt
    <3>3. PICK fill \in BOOLEAN : fill = (CacheUsed(e) /\ v # NoVersion)
      OBVIOUS
    <3> QED
      BY <3>1, <3>2, <3>3
  <2> QED
    BY <2>1, <2>2
<1>11. /\ events'.stage = "save" /\ events'.block = e /\ events'.got = v
       /\ events'.pc = events.pc
  BY <1>1, <1>4, <1>10 DEF Loaded, TypeInv, EventsTyped
<1>12. Applied' = i /\ Operation_'.id = x
  BY <1>4, <1>7, <1>11 DEF Applied, Operation_
<1>13. \A y \in Entity : Holds(y, e, StateAfter[e][i][y])'
  <2>1. \A y \in Entity : Holds(y, e, StateAfter[e][i][y])
    BY <1>2, <1>4, <1>7 DEF Exact, RunningExact
  <2> QED
    BY <1>2, <2>1 DEF Holds, OnBranch
<1>14. AsRead(events'.got) = StateAfter[e][i][x]
  BY <1>9, <1>11
<1>15. RunningExact'
  BY <1>2, <1>8, <1>11, <1>12, <1>13, <1>14 DEF RunningExact, AsRead
<1>16. CompleteExact'
  BY <1>2 DEF Exact, CompleteExact, Holds, OnBranch
<1>17. FailedExact'
  BY <1>11 DEF FailedExact
<1> QED
  BY <1>15, <1>16, <1>17 DEF Exact

\* a remove of nothing changes nothing
LEMMA SkipExact ==
    ASSUME OperationsApplied, TypeInv, Exact, SkipRemove
    PROVE  Exact'
<1>1. /\ UNCHANGED <<complete, versions>> /\ AtOperation("save") /\ events.stage = "save"
      /\ NothingToRemove /\ NextOperation
  BY DEF SkipRemove, AtOperation, blockVars, tableVars
<1>2. /\ Operation_.id \in Entity /\ events.block \in Block
      /\ events.pc \in DOMAIN Operations[events.block]
  BY <1>1, OperationRuns
<1>3. PICK e \in Block, i \in Nat : e = events.block /\ i = events.pc - 1
  BY <1>2 DEF TypeInv, EventsTyped
<1>4. i + 1 = events.pc /\ Applied = i /\ i + 1 \in 1 .. Len(Operations[e])
  <2>1. Operations[e] \in Seq(Operation)
    BY EntityStoreAssumption
  <2>2. DOMAIN Operations[e] = 1 .. Len(Operations[e])
    BY <2>1, LenProperties
  <2> QED
    BY <1>1, <1>2, <1>3, <2>2 DEF Applied, TypeInv, EventsTyped
<1>5. /\ e \notin complete
      /\ \A x \in Entity : Holds(x, e, StateAfter[e][i][x])
      /\ AsRead(events.got) = StateAfter[e][i][Operation_.id]
  BY <1>1, <1>3, <1>4 DEF Exact, RunningExact
<1>6. \A x \in Entity : StateAfter[e][i + 1][x] = StateAfter[e][i][x]
  <2> SUFFICES ASSUME NEW x \in Entity PROVE StateAfter[e][i + 1][x] = StateAfter[e][i][x]
    OBVIOUS
  <2>1. StateAfter[e][i + 1][x] = IF x = Operations[e][i + 1].id
                                  THEN Updated(Operations[e][i + 1], e, StateAfter[e][(i + 1) - 1][x])
                                  ELSE StateAfter[e][(i + 1) - 1][x]
    BY <1>4 DEF OperationsApplied
  <2>2. (i + 1) - 1 = i
    OBVIOUS
  <2>3. CASE x = Operations[e][i + 1].id
    <3>1. Operations[e][i + 1].op = "remove" /\ AsRead(events.got) = <<>>
      BY <1>1, <1>3, <1>4 DEF NothingToRemove, Operation_, AsRead
    <3>2. StateAfter[e][i][x] = <<>>
      BY <1>3, <1>4, <1>5, <2>3, <3>1 DEF Operation_
    <3> QED
      BY <2>1, <2>3, <3>1, <3>2 DEF Updated
  <2>4. CASE x # Operations[e][i + 1].id
    BY <2>1, <2>2, <2>4
  <2> QED
    BY <2>3, <2>4
<1>7. events'.stage = "load" /\ events'.block = e /\ events'.pc = (i + 1) + 1
  BY <1>1, <1>3, <1>4 DEF NextOperation, TypeInv, EventsTyped
<1>8. Applied' = i + 1
  BY <1>7 DEF Applied
<1>9. \A x \in Entity : Holds(x, e, StateAfter[e][i + 1][x])'
  BY <1>1, <1>5, <1>6 DEF Holds, OnBranch
<1>10. i + 1 <= Len(Operations[e])
  BY <1>4
<1>11. RunningExact'
  BY <1>1, <1>5, <1>7, <1>8, <1>9, <1>10 DEF RunningExact
<1>12. CompleteExact'
  BY <1>1 DEF Exact, CompleteExact, Holds, OnBranch
<1>13. FailedExact'
  BY <1>7 DEF FailedExact
<1> QED
  BY <1>11, <1>12, <1>13 DEF Exact

\* a save puts what the store call is to make in the table
LEMMA SaveExact ==
    ASSUME OperationsApplied, TypeInv, TypeInv', Exact, SaveVersion
    PROVE  Exact'
<1>1. /\ UNCHANGED complete /\ AtOperation("save") /\ events.stage = "save"
  BY DEF SaveVersion, AtOperation, blockVars
<1>2. /\ Operation_.id \in Entity /\ events.block \in Block
      /\ events.pc \in DOMAIN Operations[events.block]
  BY <1>1, OperationRuns
<1>3. PICK e \in Block, i \in Nat, x \in Entity :
          e = events.block /\ i = events.pc - 1 /\ x = Operation_.id
  BY <1>2 DEF TypeInv, EventsTyped
<1>4. i + 1 = events.pc /\ Applied = i /\ i + 1 \in 1 .. Len(Operations[e])
  <2>1. Operations[e] \in Seq(Operation)
    BY EntityStoreAssumption
  <2>2. DOMAIN Operations[e] = 1 .. Len(Operations[e])
    BY <2>1, LenProperties
  <2> QED
    BY <1>1, <1>2, <1>3, <2>2 DEF Applied, TypeInv, EventsTyped
<1>5. /\ e \notin complete
      /\ \A y \in Entity : Holds(y, e, StateAfter[e][i][y])
      /\ AsRead(events.got) = StateAfter[e][i][x]
  BY <1>1, <1>3, <1>4 DEF Exact, RunningExact
<1>6. PICK v : v = Updated(Operation_, e, events.got)
  OBVIOUS
<1>7. /\ versions' = [versions EXCEPT ![<<x, e>>] = v]
      /\ events' = [events EXCEPT !.stage = "cache", !.got = v, !.fill = FALSE]
  BY <1>3, <1>6 DEF SaveVersion
<1>8. /\ versions'[<<x, e>>] = v
      /\ \A y \in Entity, b \in Block :
             y # x \/ b # e => versions'[<<y, b>>] = versions[<<y, b>>]
  BY <1>7 DEF TypeInv, TypeOK
<1>9. events'.stage = "cache" /\ events'.block = e /\ events'.pc = i + 1
  BY <1>3, <1>4, <1>7 DEF TypeInv, EventsTyped
<1>10. Applied' = i + 1
  BY <1>9 DEF Applied
<1>11. v = StateAfter[e][i + 1][x]
  <2>1. StateAfter[e][i + 1][x] = Updated(Operations[e][i + 1], e, StateAfter[e][(i + 1) - 1][x])
    <3>1. x = Operations[e][i + 1].id
      BY <1>3, <1>4 DEF Operation_
    <3> QED
      BY <1>4, <3>1 DEF OperationsApplied
  <2>2. (i + 1) - 1 = i /\ Operations[e][i + 1] = Operation_
    BY <1>3, <1>4 DEF Operation_
  <2>3. StateAfter[e][i + 1][x] = Updated(Operation_, e, AsRead(events.got))
    BY <1>5, <2>1, <2>2
  <2>4. <<>> # NoVersion
    BY NoVersionAssumption, EmptySeq DEF Value
  <2> QED
    BY <1>6, <2>3, <2>4 DEF Updated, AsRead
<1>12. v # NoVersion
  <2>1. v \in Value
    <3>1. events'.got = v
      BY <1>7 DEF TypeInv, EventsTyped
    <3> QED
      BY <1>9, <3>1 DEF TypeInv, EventsTyped
  <2> QED
    BY <2>1, NoVersionAssumption
<1>13. \A y \in Entity : Holds(y, e, StateAfter[e][i + 1][y])'
  <2> SUFFICES ASSUME NEW y \in Entity PROVE Holds(y, e, StateAfter[e][i + 1][y])'
    OBVIOUS
  <2>1. CASE y = x
    <3>1. OnBranch(x, e)' = {e}
      BY <1>8, <1>12, OwnVersionNext
    <3> QED
      BY <1>8, <1>11, <2>1, <3>1 DEF Holds
  <2>2. CASE y # x
    <3>1. StateAfter[e][i + 1][y] = StateAfter[e][(i + 1) - 1][y] /\ (i + 1) - 1 = i
      BY <1>3, <1>4, <2>2 DEF OperationsApplied, Operation_
    <3>2. PICK w : w = StateAfter[e][i][y]
      OBVIOUS
    <3>3. Holds(y, e, w)
      BY <1>5, <3>2
    <3>4. \A a \in Ancestors[e] : versions'[<<y, a>>] = versions[<<y, a>>]
      BY <1>8, <2>2, AncestorsTyped
    <3>5. Holds(y, e, w)'
      BY <3>3, <3>4, HoldsFrame
    <3> QED
      BY <3>1, <3>2, <3>5
  <2> QED
    BY <2>1, <2>2
<1>14. i + 1 <= Len(Operations[e])
  BY <1>4
<1>15. RunningExact'
  BY <1>1, <1>5, <1>9, <1>10, <1>13, <1>14 DEF RunningExact
<1>16. CompleteExact'
  <2>1. complete \in SUBSET Block
    BY DEF TypeInv, TypeOK
  <2> QED
    BY <1>1, <1>5, <1>8, <2>1, CompleteKept DEF Exact
<1>17. FailedExact'
  BY <1>9 DEF FailedExact
<1> QED
  BY <1>15, <1>16, <1>17 DEF Exact

\* the cache comes after the table
LEMMA CacheExact ==
    ASSUME TypeInv, Exact, CacheVersion
    PROVE  Exact'
<1>1. /\ UNCHANGED <<complete, versions>> /\ events.stage = "cache" /\ NextOperation
  BY DEF CacheVersion, AtOperation, blockVars, tableVars
<1>2. PICK e \in Block \cup {NoBlock}, i \in Nat : e = events.block /\ i = events.pc
  BY DEF TypeInv, EventsTyped
<1>3. /\ e \notin complete /\ i <= Len(Operations[e])
      /\ \A x \in Entity : Holds(x, e, StateAfter[e][i][x])
  BY <1>1, <1>2 DEF Exact, RunningExact, Applied
<1>4. events'.stage = "load" /\ events'.block = e /\ events'.pc = i + 1
  BY <1>1, <1>2 DEF NextOperation, TypeInv, EventsTyped
<1>5. Applied' = i
  BY <1>4 DEF Applied
<1>6. RunningExact'
  BY <1>1, <1>3, <1>4, <1>5 DEF RunningExact, Holds, OnBranch
<1>7. CompleteExact'
  BY <1>1 DEF Exact, CompleteExact, Holds, OnBranch
<1>8. FailedExact'
  BY <1>4 DEF FailedExact
<1> QED
  BY <1>6, <1>7, <1>8 DEF Exact

\* once all store calls are done the block has the state they are to make
LEMMA DoneExact ==
    ASSUME TypeInv, InStep, RunsOnBranch, Exact, CompleteBlock
    PROVE  Exact'
<1>1. /\ UNCHANGED versions /\ events.stage = "load" /\ events.pc > Len(Operations[events.block])
      /\ complete' = complete \cup {events.block} /\ events' = [events EXCEPT !.stage = "status"]
  BY DEF CompleteBlock, HandlersDone, tableVars
<1>2. events.block \in saved /\ events.block \in Block
  BY <1>1 DEF TypeInv, TypeOK, EventsTyped, Busy
<1>3. PICK e \in Block : e = events.block
  BY <1>2
<1>4. Len(Operations[e]) \in Nat
  BY EntityStoreAssumption, LenProperties
<1>5. Applied = Len(Operations[e])
  <2>1. Applied = events.pc - 1 /\ Applied <= Len(Operations[e])
    BY <1>1, <1>3 DEF Exact, RunningExact, Applied
  <2>2. events.pc \in Nat
    BY DEF TypeInv, EventsTyped
  <2> QED
    BY <1>1, <1>3, <1>4, <2>1, <2>2
<1>6. \A x \in Entity : Holds(x, e, StateOf(e)[x])
  BY <1>1, <1>3, <1>5 DEF Exact, RunningExact, StateOf
<1>7. complete' \in ParentClosed
  <2>1. complete \in ParentClosed
    BY DEF Exact, CompleteExact
  <2>2. e # Root => Parent[e] \in complete
    BY <1>2, <1>3, ParentComplete
  <2> QED
    BY <1>1, <1>3, <2>1, <2>2 DEF ParentClosed
<1>8. CompleteExact'
  BY <1>1, <1>3, <1>6, <1>7 DEF Exact, CompleteExact, Holds, OnBranch
<1>9. events'.stage = "status"
  BY <1>1 DEF TypeInv, EventsTyped
<1> QED
  BY <1>8, <1>9 DEF Exact, RunningExact, FailedExact

\* a failed attempt takes its versions with it
LEMMA HandlerFailsExact ==
    ASSUME TypeInv, Exact, HandlerFails
    PROVE  Exact'
<1>1. /\ UNCHANGED complete /\ DeleteVersions({events.block}, Number[events.block]) /\ Fail
      /\ \E stage \in {"load", "save", "cache"} : AtOperation(stage)
  BY DEF HandlerFails, ClearProcessedBlockData, blockVars
<1>2. events.block \in Block
  BY <1>1, OperationRuns
<1>3. PICK e \in Block : e = events.block
  BY <1>2
<1>4. e \notin complete
  BY <1>1, <1>3 DEF Exact, RunningExact, AtOperation
<1>5. events'.stage = "failed" /\ events'.block = e
  BY <1>1, <1>3 DEF Fail, NoEvents
<1>6. /\ \A x \in Entity, b \in Block \ {e} : versions'[<<x, b>>] = versions[<<x, b>>]
      /\ \A x \in Entity : versions'[<<x, e>>] = NoVersion
  BY <1>1, <1>3 DEF DeleteVersions
<1>7. CompleteExact'
  <2>1. complete \in SUBSET Block
    BY DEF TypeInv, TypeOK
  <2> QED
    BY <1>1, <1>4, <1>6, <2>1, CompleteKept DEF Exact
<1>8. RunningExact' /\ FailedExact'
  BY <1>1, <1>4, <1>5, <1>6 DEF RunningExact, FailedExact
<1> QED
  BY <1>7, <1>8 DEF Exact

\* a reset only takes blocks above the one it goes back to
LEMMA ResetExact ==
    ASSUME TypeInv, Exact, ResetAfterRetry
    PROVE  Exact'
<1>1. events.block \in Block
  BY DEF ResetAfterRetry, TypeInv, TypeOK, EventsTyped, Busy
<1>2. PICK n \in Nat : n = Number[events.block]
  BY <1>1, NumberTyped
<1>3. /\ complete' = complete \ Above(n) /\ DeleteVersions(Above(n), n) /\ events' = NoEvents
  BY <1>2 DEF ResetAfterRetry, ResetWatcherToBlock, FinishEvents
<1>4. complete \in SUBSET Block /\ complete \in ParentClosed
  BY DEF TypeInv, TypeOK, Exact, CompleteExact
<1>5. complete' \in ParentClosed
  <2> SUFFICES ASSUME NEW b \in complete' \ {Root} PROVE Parent[b] \in complete'
    BY <1>3, <1>4 DEF ParentClosed
  <2>1. b \in complete /\ b \in Block /\ Number[b] <= n
    BY <1>3, <1>4, NumberTyped DEF Above
  <2>2. Parent[b] \in complete
    BY <1>4, <2>1 DEF ParentClosed
  <2>3. Number[Parent[b]] < Number[b] /\ Number[Parent[b]] \in Nat /\ Number[b] \in Nat
    BY <2>1, <2>2, BlockTreeAssumption
  <2> QED
    BY <1>3, <2>1, <2>2, <2>3 DEF Above
<1>6. \A b \in complete', x \in Entity : versions'[<<x, b>>] = versions[<<x, b>>]
  BY <1>3, <1>4 DEF DeleteVersions
<1>7. CompleteExact'
  BY <1>3, <1>4, <1>5, <1>6, CompleteFrame DEF Exact
<1>8. events'.stage = "idle"
  BY <1>3 DEF NoEvents
<1> QED
  BY <1>7, <1>8 DEF Exact, RunningExact, FailedExact

\* the steps that leave versions and complete blocks alone
LEMMA ExactFrame ==
    ASSUME Exact, UNCHANGED <<complete, versions>>,
           events' = events \/ events'.stage \in {"idle", "reset"}
    PROVE  Exact'
<1>1. CompleteExact'
  BY DEF Exact, CompleteExact, Holds, OnBranch
<1>2. CASE events' = events
  <2>1. Applied' = Applied /\ Operation_' = Operation_
    BY <1>2 DEF Applied, Operation_
  <2>2. RunningExact'
    BY <1>2, <2>1 DEF Exact, RunningExact, Holds, OnBranch
  <2>3. FailedExact'
    BY <1>2 DEF Exact, FailedExact
  <2> QED
    BY <1>1, <2>2, <2>3 DEF Exact
<1>3. CASE events'.stage \in {"idle", "reset"}
  BY <1>1, <1>3 DEF Exact, RunningExact, FailedExact
<1> QED
  BY <1>2, <1>3

LEMMA ExactStep ==
    ASSUME NoNullRounds, OperationsApplied, ExactInv, OwnReads, [Next]_vars
    PROVE  ExactInv'
<1>1. VersionInv' /\ VersionInv
  BY VersionStep DEF ExactInv
<1> SUFFICES ASSUME faults' \subseteq {"handler"} PROVE Exact'
  BY <1>1 DEF ExactInv
<1>2. InHand /\ Exact
  <2>1. faults \subseteq {"handler"}
    BY FaultsGrow
  <2>2. Unbroken /\ "status" \notin faults
    BY <2>1 DEF Unbroken
  <2> QED
    BY <1>1, <2>1, <2>2 DEF ExactInv, InHand, VersionInv, CacheInv, BranchInv, PruneInv, StepInv
<1>3. TypeInv /\ InStep /\ TypeInv' /\ RunsOnBranch /\ complete \in SUBSET Block
  BY <1>1, <1>2 DEF InHand, CacheFacts, VersionInv, CacheInv, BranchInv, PruneInv, StepInv,
     TypeInv, TypeOK
<1>4. CASE \E t, b \in Block : IndexBlock(t, b)
  <2>1. PICK t, b \in Block : IndexBlock(t, b)
    BY <1>4
  <2>2. /\ UNCHANGED <<complete, versions>> /\ events.stage = "idle"
        /\ b \notin complete /\ (b # Root => Parent[b] \in complete) /\ StartEvents(b, FALSE)
    BY <2>1 DEF IndexBlock, Fetched, tableVars
  <2>3. b \notin saved
    <3>1. events.block \notin Block
      BY <1>3, <2>2, BlockTreeAssumption DEF TypeInv, EventsTyped, Busy, NoEvents
    <3> QED
      BY <1>3, <2>2, <3>1 DEF RunsOnBranch
  <2>4. \A x \in Entity : versions[<<x, b>>] = NoVersion
    <3>1. \A r \in Entity \X Block : versions[r] # NoVersion => r[2] \in saved
      BY <1>3 DEF InStep, RowsInStep
    <3>2. \A x \in Entity : versions[<<x, b>>] # NoVersion => <<x, b>>[2] \in saved
      BY <3>1
    <3> QED
      BY <2>3, <3>2
  <2>5. CompleteExact'
    BY <1>2, <2>2 DEF Exact, CompleteExact, Holds, OnBranch
  <2> QED
    BY <1>3, <2>2, <2>4, <2>5, StartExact
<1>5. CASE RetryEvents
  <2>1. /\ UNCHANGED <<complete, versions>> /\ events.stage = "failed"
        /\ StartEvents(events.block, TRUE)
    BY <1>5 DEF RetryEvents, blockVars, tableVars
  <2>2. events.block \in saved /\ events.block \in Block
    BY <1>3, <2>1 DEF TypeInv, TypeOK, EventsTyped, Busy
  <2>3. PICK b \in Block : b = events.block
    BY <2>2
  <2>4. b \notin complete /\ \A x \in Entity : versions[<<x, b>>] = NoVersion
    BY <1>2, <2>1, <2>3 DEF Exact, FailedExact
  <2>5. b # Root => Parent[b] \in complete
    BY <1>3, <2>2, <2>3, ParentComplete
  <2>6. CompleteExact'
    BY <1>2, <2>1 DEF Exact, CompleteExact, Holds, OnBranch
  <2>7. StartEvents(b, TRUE)
    BY <2>1, <2>3
  <2> QED
    BY <1>3, <2>1, <2>4, <2>5, <2>6, <2>7, StartExact
<1>6. CASE ReadCache \/ ReadDatabase
  BY <1>2, <1>6, LoadExact
<1>7. CASE SkipRemove
  BY <1>2, <1>3, <1>7, SkipExact
<1>8. CASE SaveVersion
  BY <1>2, <1>3, <1>8, SaveExact
<1>9. CASE CacheVersion
  BY <1>2, <1>3, <1>9, CacheExact
<1>10. CASE CompleteBlock
  BY <1>2, <1>3, <1>10, DoneExact
<1>11. CASE HandlerFails
  BY <1>2, <1>3, <1>11, HandlerFailsExact
<1>12. CASE ResetAfterRetry
  BY <1>2, <1>3, <1>12, ResetExact
<1>13. CASE UpdateProcessed
  <2>1. UNCHANGED <<complete, versions>>
    BY <1>13 DEF UpdateProcessed, tableVars
  <2>2. CASE events.retry
    <3>1. events' = [events EXCEPT !.stage = "reset"]
      BY <1>13, <2>2 DEF UpdateProcessed
    <3>2. events'.stage = "reset"
      BY <1>3, <3>1 DEF TypeInv, EventsTyped
    <3> QED
      BY <1>2, <2>1, <3>2, ExactFrame
  <2>3. CASE ~events.retry
    <3>1. events'.stage = "idle"
      BY <1>13, <2>3 DEF UpdateProcessed, FinishEvents, NoEvents
    <3> QED
      BY <1>2, <2>1, <3>1, ExactFrame
  <2> QED
    BY <2>2, <2>3
<1>14. CASE \/ \E c \in Block : RunHooks(c)
            \/ PruneBlocks \/ PruneRows \/ PruneCommit \/ UNCHANGED vars
  <2>1. UNCHANGED <<complete, versions, events>>
    BY <1>14 DEF RunHooks, PruneBlocks, PruneRows, MarkRows, PruneCommit, vars, blockVars,
       tableVars
  <2> QED
    BY <1>2, <2>1, ExactFrame
<1>15. CASE \/ \E t \in Block : IndexBlockAgain(t)
            \/ StatusFails \/ PruneFails \/ Restart
  BY <1>15 DEF IndexBlockAgain, StatusFails, PruneFails, Restart, Faulty
<1> QED
  BY <1>4, <1>5, <1>6, <1>7, <1>8, <1>9, <1>10, <1>11, <1>12, <1>13, <1>14, <1>15
     DEF Next, EventWorkerStep

\* As long as no handler reads the version of another branch and nothing fails but
\* handlers, each version of a complete block holds the updates of its own branch,
\* all of them and each once, whatever branches were processed in between and however
\* often a handler of the block has failed halfway (store.get, saveEntity,
\* clearProcessedBlockData, resetWatcherToBlock).
THEOREM VersionsHoldUpdates ==
    ASSUME NoNullRounds, OperationsApplied
    PROVE  Spec /\ []OwnReads => [](faults \subseteq {"handler"} => VersionsFollowBranch)
<1>1. Init => ExactInv
  <2> SUFFICES ASSUME Init PROVE ExactInv
    OBVIOUS
  <2>1. VersionInv
    <3>1. BranchOnly
      BY DEF Init, BranchOnly, VersionsOfBranch, GotOfBranch, NoEvents
    <3> QED
      BY <3>1, InitCache DEF VersionInv
  <2>2. complete = {} /\ events.stage = "idle"
    BY DEF Init, NoEvents
  <2> QED
    BY <2>1, <2>2 DEF ExactInv, Exact, CompleteExact, RunningExact, FailedExact, ParentClosed
<1>2. ExactInv /\ OwnReads /\ [Next]_vars => ExactInv'
  BY ExactStep
<1>3. ExactInv => (faults \subseteq {"handler"} => VersionsFollowBranch)
  <2> SUFFICES ASSUME ExactInv, faults \subseteq {"handler"} PROVE VersionsFollowBranch
    OBVIOUS
  <2>1. Exact /\ TypeInv /\ VersionsOfBranch
    BY DEF ExactInv, VersionInv, Unbroken, BranchOnly, CacheInv, BranchInv, PruneInv, StepInv
  <2>2. ASSUME NEW b \in complete, NEW x \in Entity, versions[<<x, b>>] # NoVersion
        PROVE  versions[<<x, b>>] = StateOf(b)[x]
    <3>1. b \in Block
      BY <2>1 DEF TypeInv, TypeOK
    <3>2. OnBranch(x, b) = {b}
      BY <2>2, <3>1, OwnVersion
    <3>3. Holds(x, b, StateOf(b)[x])
      BY <2>1 DEF Exact, CompleteExact
    <3> QED
      BY <3>2, <3>3 DEF Holds
  <2> QED
    BY <2>1, <2>2 DEF VersionsFollowBranch
<1> QED
  BY <1>1, <1>2, <1>3, PTL DEF Spec
===============================================================================
