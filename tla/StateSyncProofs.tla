---------------------------- MODULE StateSyncProofs ----------------------------
(***************************************************************************)
(* Theorems about StateSync, for every tree of blocks, reorg depth, set of  *)
(* contracts and of the blocks that change them, and any number of crashes, *)
(* of failing events and hooks jobs and of commands.                        *)
(***************************************************************************)
EXTENDS StateSync, BlockTreeProofs, SequenceTheorems, WellFoundedInduction, TLAPS

\* the contracts that have diffs of block b
Changed(b) == Updates[b] \cap Started(b)

\* the blocks that hooks jobs are for: those below the canonical one
Settled == Ancestors[canonical] \ {canonical}

\* A block is saved on a complete parent; one block is in flight, above the canonical.
RowsInOrder ==
    /\ \A b \in saved \ {Root} : Parent[b] \in complete
    /\ saved \ complete \subseteq {current}
    /\ canonical = Root \/ canonical \in complete
    /\ current # NoBlock /\ current # Root => Number[current] > Number[canonical]

\* No block is saved while one is as high as lets the next prune job commit; such a
\* block descends from the canonical one.
Window ==
    /\ \A t, u \in saved :
          Number[t] > Number[canonical] + MaxReorgDepth
          /\ Number[u] > Number[canonical] + MaxReorgDepth => t = u
    /\ current # NoBlock => \A t \in saved \ {current} :
          Number[t] <= Number[canonical] + MaxReorgDepth
    /\ \A t \in saved : Number[t] > Number[canonical] + MaxReorgDepth =>
          canonical \in Ancestors[t]

\* The heights of the state sync status are below the canonical block, but for the
\* height of an import.
IndexedHeights ==
    HasStatus =>
        /\ Root \in complete
        /\ Number[Root] <= indexed /\ indexed <= Number[canonical]
        /\ Number[Root] <= firstIndexed /\ firstIndexed <= indexed + 1

\* A hooks job that runs is for the next height; a contract that is done has its
\* diff, one to do its staged diff, and in the end no staged diff is left at the height.
HooksInStep ==
    /\ hooks \subseteq Settled
    /\ hooking.pc # "idle" <=> hooking.block # NoJob
    /\ hooking.pc = "idle" => hooking = Idle
    /\ hooking.pc # "idle" => hooking.block \in hooks
    /\ hooking.pc \in {"diffs", "status"} /\ HasStatus => indexed = Number[hooking.block] - 1
    /\ hooking.pc = "diffs" => \A c \in Contract :
          IF c \in hooking.todo THEN Exists(hooking.block, c, "diff_staged")
          ELSE Exists(hooking.block, c, "diff_staged") => Exists(hooking.block, c, "diff")
    /\ hooking.pc \in {"status", "push"} => \A b \in saved, c \in Contract :
          Number[b] = Number[hooking.block] => ~Exists(b, c, "diff_staged")

\* A checkpoint that a call has found stays in the table.
FoundStays ==
    \A i \in Caller : calls[i].pc = "save" /\ calls[i].found =>
        Exists(calls[i].block, calls[i].contract, "checkpoint")

\* A diff, staged or not, is that of its block.
OwnDiffs ==
    \A b \in saved, c \in Contract :
        /\ Exists(b, c, "diff_staged") =>
               states[<<b, c, "diff_staged">>] = {b} /\ c \in Changed(b)
        /\ Exists(b, c, "diff") =>
               states[<<b, c, "diff">>] = {b} /\ c \in Changed(b) /\ b \in Settled

\* Until it is pruned a block has a diff of each contract it changes, of either kind.
NothingLost ==
    \A b \in complete :
        (Number[b] >= Number[canonical] \/ b \in Settled)
        /\ (HasStatus => firstIndexed <= Number[b]) =>
            \A c \in Changed(b) : Exists(b, c, "diff_staged") \/ Exists(b, c, "diff")

SettledInv ==
    /\ TypeOK
    /\ RowsInOrder
    /\ Window
    /\ IndexedHeights
    /\ HooksInStep
    /\ FoundStays
    /\ OwnDiffs
    /\ NothingLost
    /\ StagedRemoved

-------------------------------------------------------------------------------
(* Blocks and keys.                                                         *)

LEMMA KeyTyped ==
    ASSUME NEW b \in Block, NEW c \in Contract, NEW k \in Kind
    PROVE  <<b, c, k>> \in Key
BY DEF Key

LEMMA StateTyped ==
    ASSUME TypeOK, NEW b \in Block, NEW c \in Contract, NEW k \in Kind
    PROVE  /\ states[<<b, c, k>>] \in Data \cup {NoState}
           /\ Exists(b, c, k) => states[<<b, c, k>>] \in Data /\ b \in saved
BY KeyTyped DEF TypeOK, Exists

LEMMA NumberTyped == \A b \in Block : Number[b] \in Nat \ {0}
BY BlockTreeAssumption

LEMMA RootAlone == Ancestors[Root] \subseteq {Root}
<1> SUFFICES ASSUME NEW a \in Ancestors[Root], a # Root PROVE FALSE
  OBVIOUS
<1>1. a \in Block /\ Root \in Block
  BY AncestorsTyped, BlockTreeAssumption
<1>2. Number[a] < Number[Root] /\ Number[Root] < Number[a]
  BY <1>1, AncestorsBelow, RootLowest
<1> QED
  BY <1>1, <1>2, NumberTyped

LEMMA SettledBlocks ==
    ASSUME TypeOK, RowsInOrder
    PROVE  /\ Settled \subseteq complete
           /\ \A b \in Settled : Number[b] < Number[canonical]
           /\ \A b \in Settled \ {Root} : Parent[b] \in Settled
           /\ complete \subseteq Block /\ saved \subseteq Block /\ canonical \in Block
           /\ saved # {} /\ saved # {Root} => Root \in complete
           /\ complete # {} => Root \in complete
<1>1. complete \subseteq Block /\ saved \subseteq Block /\ canonical \in Block
      /\ complete \subseteq saved
  BY DEF TypeOK
<1>2. complete \in ParentClosed
  BY <1>1 DEF RowsInOrder, ParentClosed
<1>3. Settled \subseteq complete
  <2>1. CASE canonical = Root
    BY <2>1, RootAlone DEF Settled
  <2>2. CASE canonical \in complete
    BY <1>2, <2>2, ClosedHoldsAncestors DEF Settled
  <2> QED
    BY <2>1, <2>2 DEF RowsInOrder
<1>4. \A b \in Settled : Number[b] < Number[canonical]
  BY <1>1, AncestorsBelow DEF Settled
<1>5. \A b \in Settled \ {Root} : Parent[b] \in Settled
  <2> SUFFICES ASSUME NEW b \in Settled \ {Root} PROVE Parent[b] \in Settled
    OBVIOUS
  <2>1. Parent[b] \in Ancestors[canonical]
    BY <1>1, AncestorsClosed DEF Settled, ParentClosed
  <2>2. b \in Block /\ Parent[b] \in Block /\ Number[Parent[b]] < Number[b]
    BY <1>1, <1>3, BlockTreeAssumption
  <2>3. Number[Parent[b]] # Number[canonical]
    BY <1>1, <1>4, <2>2, NumberTyped
  <2> QED
    BY <2>1, <2>3 DEF Settled
<1>6. \A b \in complete : Root \in complete
  BY <1>1, <1>2, ClosedHoldsAncestors, RootAssumption
<1>7. saved # {} /\ saved # {Root} => Root \in complete
  BY <1>6 DEF RowsInOrder
<1> QED
  BY <1>1, <1>3, <1>4, <1>5, <1>6, <1>7

LEMMA HeightTyped ==
    ASSUME NEW S \in SUBSET Block
    PROVE  HeightOf(S) \in Nat /\ HeightOf(Highest(S)) \in Nat
<1>1. \A T \in SUBSET Block : HeightOf(T) \in Nat
  <2> SUFFICES ASSUME NEW T \in SUBSET Block, T # {} PROVE Number[CHOOSE b \in T : TRUE] \in Nat
    BY DEF HeightOf
  <2>1. (CHOOSE b \in T : TRUE) \in T
    OBVIOUS
  <2> QED
    BY <2>1, NumberTyped
<1>2. Highest(S) \subseteq S
  BY DEF Highest
<1> QED
  BY <1>1, <1>2

LEMMA IdleTyped ==
    /\ Idle \in HooksJob /\ Idle.block = NoJob /\ Idle.pc = "idle"
    /\ NoCall \in Call /\ NoCall.block = NoJob
BY StateSyncAssumption DEF Idle, HooksJob, NoCall, Call, Data

-------------------------------------------------------------------------------
(* The steps keep TypeOK.                                                   *)

LEMMA StoredTyped ==
    ASSUME TypeOK, NEW rows
    PROVE  StoredStatus(rows, complete \ pruned) \in [Contract -> [Kind -> Nat]]
<1>1. \A c \in Contract, k \in Kind :
         HeightOf(Highest({b \in complete \ pruned : rows[<<b, c, k>>] # NoState})) \in Nat
  BY HeightTyped DEF TypeOK
<1> QED
  BY <1>1 DEF StoredStatus

LEMMA RestartTyped ==
    ASSUME TypeOK, Restart, faults' \in 0..MaxFaults
    PROVE  TypeOK'
<1>1. states' \in [Key -> Data \cup {NoState}]
  BY DEF TypeOK, Restart
<1>2. \A e \in Key : states'[e] # NoState => e[1] \in saved'
  BY DEF Restart
<1>3. status' \in [Contract -> [Kind -> Nat]]
  BY StoredTyped DEF Restart
<1>4. calls' \in [Caller -> Call] /\ \A i \in Caller : calls'[i] = NoCall \/ calls'[i].block \in complete
  BY IdleTyped DEF TypeOK, Restart
<1>5. checkpoints' \in Seq(complete)
  BY EmptySeq DEF Restart
<1>6. /\ saved' = complete /\ current' = NoBlock /\ complete' = complete
      /\ pruned' = pruned /\ canonical' = canonical
      /\ indexed' = indexed /\ firstIndexed' = firstIndexed /\ checkpointed' = checkpointed
      /\ hooks' = {} /\ failed' = {} /\ hooking' = Idle
  BY DEF Restart, syncVars
<1>7. complete \subseteq Block /\ pruned \subseteq complete /\ canonical \in Block \ pruned
      /\ {indexed, firstIndexed} \subseteq Nat \cup {-1} /\ checkpointed \in Nat \cup {-1}
  BY DEF TypeOK
<1> QED
  BY <1>1, <1>2, <1>3, <1>4, <1>5, <1>6, <1>7, IdleTyped DEF TypeOK

LEMMA IndexBlockTyped ==
    ASSUME TypeOK, NEW b \in Block, IndexBlock(b)
    PROVE  TypeOK'
<1>1. states' \in [Key -> Data \cup {NoState}]
  BY DEF TypeOK, IndexBlock, Data
<1>2. \A e \in Key : states'[e] # NoState => e[1] \in saved'
  BY DEF TypeOK, IndexBlock
<1>3. status' \in [Contract -> [Kind -> Nat]]
  BY NumberTyped DEF TypeOK, IndexBlock, Kind
<1>4. UNCHANGED <<complete, pruned, canonical, syncVars, jobVars, calls, faults>>
      /\ saved' = saved \cup {b} /\ current' = b /\ b \notin saved
  BY DEF IndexBlock
<1> QED
  BY <1>1, <1>2, <1>3, <1>4 DEF TypeOK, syncVars, jobVars

LEMMA DumpTyped ==
    ASSUME TypeOK, DumpDiffs
    PROVE  /\ states' \in [Key -> Data \cup {NoState}]
           /\ \A e \in Key : states'[e] # NoState => e[1] \in saved
           /\ status' \in [Contract -> [Kind -> Nat]]
           /\ current \in saved \ complete /\ current \in Block
<1>1. current \in saved \ complete /\ current \in Block
  BY DEF TypeOK, DumpDiffs
<1>2. states' \in [Key -> Data \cup {NoState}]
  BY <1>1 DEF TypeOK, DumpDiffs, Data
<1>3. \A e \in Key : states'[e] # NoState => e[1] \in saved
  BY <1>1 DEF TypeOK, DumpDiffs
<1>4. status' \in [Contract -> [Kind -> Nat]]
  BY <1>1, NumberTyped DEF TypeOK, DumpDiffs, Kind
<1> QED
  BY <1>1, <1>2, <1>3, <1>4

LEMMA CompleteBlockTyped ==
    ASSUME TypeOK, CompleteBlock
    PROVE  TypeOK'
<1>1. DumpDiffs /\ complete' = complete \cup {current} /\ current' = NoBlock
      /\ UNCHANGED <<saved, pruned, canonical, syncVars, jobVars, calls, faults>>
  BY DEF CompleteBlock
<1>2. complete \subseteq complete' /\ complete' \subseteq saved
  BY <1>1, DumpTyped DEF TypeOK
<1>3. checkpoints \in Seq(complete')
  <2>1. checkpoints \in Seq(complete)
    BY DEF TypeOK
  <2> QED
    BY <1>2, <2>1
<1> QED
  BY <1>1, <1>2, <1>3, DumpTyped DEF TypeOK, syncVars, jobVars

LEMMA EventsFailTyped ==
    ASSUME TypeOK, EventsFail
    PROVE  TypeOK'
<1>1. DumpDiffs /\ UNCHANGED <<blockVars, syncVars, jobVars, calls>>
      /\ faults' \in 0..MaxFaults
  BY StateSyncAssumption DEF EventsFail, Faulty, TypeOK
<1> QED
  BY <1>1, DumpTyped DEF TypeOK, blockVars, syncVars, jobVars

\* steps of the hooks worker
LEMMA HooksTyped ==
    ASSUME TypeOK, UNCHANGED <<blockVars, calls>>,
           states' \in [Key -> Data \cup {NoState}],
           \A e \in Key : states'[e] # NoState => e[1] \in saved,
           status' \in [Contract -> [Kind -> Nat]],
           {indexed', firstIndexed'} \subseteq Nat \cup {-1},
           UNCHANGED checkpointed,
           failed' \subseteq hooks', hooks' \subseteq complete,
           hooking' \in HooksJob, hooking' = Idle \/ hooking'.block \in complete,
           checkpoints' \in Seq(complete), faults' \in 0..MaxFaults
    PROVE  TypeOK'
BY DEF TypeOK, blockVars

\* steps of the calls
LEMMA CallsTyped ==
    ASSUME TypeOK, UNCHANGED <<blockVars, indexed, firstIndexed, hooks, failed, hooking>>,
           states' \in [Key -> Data \cup {NoState}],
           \A e \in Key : states'[e] # NoState => e[1] \in saved,
           status' \in [Contract -> [Kind -> Nat]],
           checkpointed' \in Nat \cup {-1},
           calls' \in [Caller -> Call],
           \A i \in Caller : calls'[i] = NoCall \/ calls'[i].block \in complete,
           checkpoints' \in Seq(complete), faults' \in 0..MaxFaults
    PROVE  TypeOK'
BY DEF TypeOK, blockVars

LEMMA TakeCheckpointTyped ==
    ASSUME TypeOK, NEW i \in Caller, TakeCheckpoint(i)
    PROVE  TypeOK'
<1> DEFINE b == Head(checkpoints)
<1>1. checkpoints \in Seq(complete) /\ checkpoints # <<>> /\ faults \in 0..MaxFaults
      /\ complete \subseteq Block
  BY DEF TakeCheckpoint, TypeOK
<1>2. b \in complete /\ Tail(checkpoints) \in Seq(complete)
  BY <1>1
<1> HIDE DEF b
<1>3. CASE Restart /\ UNCHANGED faults
  BY <1>1, <1>3, RestartTyped
<1>4. CASE ~(Restart /\ UNCHANGED faults)
  <2>1. /\ checkpoints' = Tail(checkpoints)
        /\ UNCHANGED <<blockVars, states, syncVars, status, hooks, failed, hooking, faults>>
        /\ \/ UNCHANGED calls
           \/ calls' = [calls EXCEPT ![i] = [NoCall EXCEPT !.block = b, !.pc = "merge",
                                                           !.todo = Due(b)]]
    BY <1>4 DEF TakeCheckpoint, b
  <2>2. Due(b) \subseteq Contract
    BY StateSyncAssumption DEF Due
  <2>3. [NoCall EXCEPT !.block = b, !.pc = "merge", !.todo = Due(b)] \in Call
        /\ [NoCall EXCEPT !.block = b, !.pc = "merge", !.todo = Due(b)].block = b
    BY <1>1, <1>2, <2>2, IdleTyped DEF Call, NoCall
  <2>4. calls' \in [Caller -> Call] /\ \A j \in Caller : calls'[j] = NoCall \/ calls'[j].block \in complete
    BY <1>2, <2>1, <2>3 DEF TypeOK
  <2> QED
    BY <1>1, <1>2, <2>1, <2>4, CallsTyped DEF TypeOK, syncVars
<1> QED
  BY <1>3, <1>4

LEMMA StartCommandTyped ==
    ASSUME TypeOK, NEW i \in Command, NEW b \in Block, NEW c \in Contract, StartCommand(i, b, c)
    PROVE  TypeOK'
<1>1. i \in Caller /\ faults' \in 0..MaxFaults /\ b \in complete
  BY StateSyncAssumption DEF StartCommand, Faulty, TypeOK
<1>2. /\ calls' = [calls EXCEPT ![i] = [NoCall EXCEPT !.block = b, !.pc = "merge", !.todo = {c}]]
      /\ UNCHANGED <<blockVars, states, syncVars, status, jobVars>>
  BY DEF StartCommand
<1>3. [NoCall EXCEPT !.block = b, !.pc = "merge", !.todo = {c}] \in Call
      /\ [NoCall EXCEPT !.block = b, !.pc = "merge", !.todo = {c}].block = b
  BY IdleTyped DEF Call, NoCall
<1>4. calls' \in [Caller -> Call] /\ \A j \in Caller : calls'[j] = NoCall \/ calls'[j].block \in complete
  BY <1>1, <1>2, <1>3 DEF TypeOK
<1> QED
  BY <1>1, <1>2, <1>4, CallsTyped DEF TypeOK, syncVars, jobVars

LEMMA NoteTyped ==
    ASSUME TypeOK, NEW i \in Caller, NEW c \in Contract, NEW n \in Nat, NoteCheckpoint(i, c, n)
    PROVE  status' \in [Contract -> [Kind -> Nat]]
BY DEF TypeOK, NoteCheckpoint, Kind

LEMMA MergedTyped ==
    ASSUME TypeOK, NEW b, NEW c \in Contract, HasBase(c, b)
    PROVE  Merged(c, b) \in Data
<1>1. \A k \in Kind, n \in {Number[b] - 1, AnyHeight} : \A a \in LatestState(c, k, n) :
         a \in Block /\ states[<<a, c, k>>] \in Data
  <2> SUFFICES ASSUME NEW k \in Kind, NEW n \in {Number[b] - 1, AnyHeight},
                      NEW a \in LatestState(c, k, n)
               PROVE  a \in Block /\ states[<<a, c, k>>] \in Data
    OBVIOUS
  <2>1. a \in saved /\ Exists(a, c, k)
    BY DEF LatestState, Highest
  <2> QED
    BY <2>1, StateTyped DEF TypeOK
<1>2. \A from, to : DiffsInRange(c, from, to) \in Data
  <2> SUFFICES ASSUME NEW from, NEW to, NEW a \in saved, Exists(a, c, "diff")
               PROVE  states[<<a, c, "diff">>] \in Data
    BY DEF DiffsInRange, Data
  <2> QED
    BY StateTyped DEF TypeOK, Kind
<1> DEFINE before == LatestState(c, "checkpoint", Number[b] - 1)
           init   == LatestState(c, "init", AnyHeight)
           base   == IF before # {} THEN before ELSE init
           a      == CHOOSE x \in base : TRUE
<1>3. base # {}
  BY DEF HasBase
<1>4. a \in base
  BY <1>3
<1>5. CASE before # {}
  <2>1. states[<<a, c, "checkpoint">>] \in Data
    BY <1>1, <1>4, <1>5 DEF Kind
  <2>2. Merged(c, b) = states[<<a, c, "checkpoint">>] \cup DiffsInRange(c, Number[a], Number[b])
    BY <1>5 DEF Merged
  <2> HIDE DEF a
  <2> QED
    BY <1>2, <2>1, <2>2 DEF Data
<1>6. CASE before = {}
  <2>1. states[<<a, c, "init">>] \in Data
    BY <1>1, <1>4, <1>6 DEF Kind
  <2>2. Merged(c, b) = states[<<a, c, "init">>] \cup DiffsInRange(c, Number[a] - 1, Number[b])
    BY <1>6 DEF Merged
  <2> HIDE DEF a
  <2> QED
    BY <1>2, <2>1, <2>2 DEF Data
<1> QED
  BY <1>5, <1>6

LEMMA MergeDiffsTyped ==
    ASSUME TypeOK, NEW i \in Caller, NEW c \in Contract, MergeDiffs(i, c)
    PROVE  TypeOK'
<1> DEFINE b == calls[i].block
           before == LatestState(c, "checkpoint", Number[b] - 1)
           next == [calls[i] EXCEPT !.pc = "save", !.contract = c, !.data = Merged(c, b),
                                    !.found = Exists(b, c, "checkpoint"), !.todo = @ \ {c}]
<1>1. calls \in [Caller -> Call] /\ calls[i] \in Call /\ (calls[i] = NoCall \/ b \in complete)
      /\ checkpoints \in Seq(complete) /\ saved \subseteq Block /\ faults \in 0..MaxFaults
      /\ checkpointed \in Nat \cup {-1} /\ status \in [Contract -> [Kind -> Nat]]
  BY DEF TypeOK
<1>2. calls[i].pc = "merge" /\ HasBase(c, b)
  BY DEF MergeDiffs
<1>3. b \in complete
  BY <1>1, <1>2 DEF NoCall
<1>4. calls' = [calls EXCEPT ![i] = next]
      /\ UNCHANGED <<blockVars, states, syncVars, jobVars, faults>>
      /\ (UNCHANGED status \/ NoteCheckpoint(i, c, HeightOf(before)))
  BY DEF MergeDiffs
<1>5. Merged(c, b) \in Data
  BY <1>2, MergedTyped
<1>6. next \in Call /\ next.block = b
  BY <1>1, <1>5 DEF Call, Exists
<1>7. status' \in [Contract -> [Kind -> Nat]]
  <2>1. before \subseteq Block
    BY <1>1 DEF LatestState, Highest
  <2>2. HeightOf(before) \in Nat
    BY <2>1, HeightTyped
  <2> HIDE DEF before, next
  <2> QED
    BY <1>1, <1>4, <2>2, NoteTyped
<1> HIDE DEF next, b, before
<1>8. calls' \in [Caller -> Call] /\ \A j \in Caller : calls'[j] = NoCall \/ calls'[j].block \in complete
  BY <1>1, <1>3, <1>4, <1>6 DEF TypeOK
<1> QED
  BY <1>1, <1>4, <1>7, <1>8, CallsTyped DEF TypeOK, syncVars, jobVars

LEMMA MaxOfTwo ==
    ASSUME NEW m \in Int, NEW n \in Int
    PROVE  Max({m, n}) = IF m >= n THEN m ELSE n
<1>1. \E x \in {m, n} : \A y \in {m, n} : x >= y
  OBVIOUS
<1> QED
  BY <1>1 DEF Max

LEMMA SaveCheckpointTyped ==
    ASSUME TypeOK, FoundStays, NEW i \in Caller, SaveCheckpoint(i)
    PROVE  /\ TypeOK'
           /\ \A e \in Key : e[3] # "checkpoint" => states'[e] = states[e]
           /\ \A e \in Key : states[e] # NoState => states'[e] # NoState
<1> DEFINE b == calls[i].block
           c == calls[i].contract
           key == <<b, c, "checkpoint">>
           new == IF calls[i].found THEN states[key] \cup calls[i].data ELSE calls[i].data
<1>1. calls \in [Caller -> Call] /\ calls[i] \in Call /\ (calls[i] = NoCall \/ b \in complete)
      /\ checkpoints \in Seq(complete) /\ complete \subseteq saved /\ saved \subseteq Block
      /\ faults \in 0..MaxFaults
      /\ checkpointed \in Nat \cup {-1} /\ status \in [Contract -> [Kind -> Nat]]
      /\ states \in [Key -> Data \cup {NoState}]
      /\ \A e \in Key : states[e] # NoState => e[1] \in saved
  BY DEF TypeOK
<1>2. /\ calls[i].pc = "save"
      /\ states' = [states EXCEPT ![key] = new]
      /\ calls' = [calls EXCEPT ![i].pc = "merge"]
      /\ UNCHANGED <<blockVars, syncVars, jobVars, faults>>
      /\ NoteCheckpoint(i, c, Number[b])
  BY DEF SaveCheckpoint
<1>3. b \in complete /\ b \in Block /\ c \in Contract /\ key \in Key
  BY <1>1, <1>2 DEF NoCall, Call, Key, Kind
<1>4. new \in Data
  <2>1. calls[i].data \in Data
    BY <1>1 DEF Call
  <2>2. calls[i].found => states[key] \in Data
    BY <1>1, <1>2, <1>3 DEF FoundStays, Exists
  <2> QED
    BY <2>1, <2>2 DEF Data
<1>5. calls' \in [Caller -> Call] /\ \A j \in Caller : calls'[j] = NoCall \/ calls'[j].block \in complete
  <2> DEFINE next == [calls[i] EXCEPT !.pc = "merge"]
  <2>1. next \in Call /\ next.block = b
    BY <1>1 DEF Call
  <2>2. calls' = [calls EXCEPT ![i] = next]
    BY <1>2
  <2>3. next.block \in complete
    BY <1>3, <2>1
  <2> HIDE DEF next
  <2>4. calls' \in [Caller -> Call]
    BY <1>1, <2>1, <2>2
  <2>5. \A j \in Caller : calls[j] = NoCall \/ calls[j].block \in complete
    BY DEF TypeOK
  <2>6. \A j \in Caller : calls'[j] = NoCall \/ calls'[j].block \in complete
    BY <1>1, <2>2, <2>3, <2>5
  <2> QED
    BY <2>4, <2>6
<1>6. status' \in [Contract -> [Kind -> Nat]]
  BY <1>2, <1>3, NumberTyped, NoteTyped
<1> HIDE DEF new
<1>7. states' \in [Key -> Data \cup {NoState}]
  BY <1>1, <1>2, <1>4
<1>8. \A e \in Key : states'[e] # NoState => e[1] \in saved
  BY <1>1, <1>2, <1>3
<1>9. \A e \in Key : e[3] # "checkpoint" => states'[e] = states[e]
  BY <1>1, <1>2, <1>3
<1>10. TypeOK'
  BY <1>1, <1>2, <1>5, <1>6, <1>7, <1>8, CallsTyped DEF TypeOK, syncVars, jobVars
<1>11. \A e \in Key : states[e] # NoState => states'[e] # NoState
  BY <1>1, <1>2, <1>4, StateSyncAssumption DEF Data
<1> QED
  BY <1>9, <1>10, <1>11

LEMMA FinishCheckpointTyped ==
    ASSUME TypeOK, NEW i \in Caller, FinishCheckpoint(i)
    PROVE  TypeOK'
<1>1. calls \in [Caller -> Call] /\ calls[i] \in Call
      /\ (calls[i] = NoCall \/ calls[i].block \in complete)
      /\ complete \subseteq Block /\ checkpointed \in Nat \cup {-1}
  BY DEF TypeOK
<1>2. calls[i].block \in Block
  BY <1>1 DEF FinishCheckpoint, NoCall
<1>3. Number[calls[i].block] \in Nat
  BY <1>2, NumberTyped
<1>4. checkpointed' \in Nat \cup {-1}
  BY <1>1, <1>3, MaxOfTwo DEF FinishCheckpoint
<1>5. calls' = [calls EXCEPT ![i] = NoCall]
      /\ UNCHANGED <<blockVars, states, indexed, firstIndexed, status, jobVars, faults>>
  BY DEF FinishCheckpoint
<1>6. calls' \in [Caller -> Call] /\ \A j \in Caller : calls'[j] = NoCall \/ calls'[j].block \in complete
  BY <1>1, <1>5, IdleTyped DEF TypeOK
<1> QED
  BY <1>4, <1>5, <1>6, CallsTyped DEF TypeOK, jobVars

LEMMA CheckpointThrowsTyped ==
    ASSUME TypeOK, NEW i \in Caller, CheckpointThrows(i)
    PROVE  TypeOK'
<1>1. faults' \in 0..MaxFaults
  BY DEF TypeOK, CheckpointThrows
<1>2. CASE Restart
  BY <1>1, <1>2, RestartTyped
<1>3. CASE ~Restart
  <2>1. calls' = [calls EXCEPT ![i] = NoCall]
        /\ UNCHANGED <<blockVars, states, syncVars, status, jobVars>>
    BY <1>3 DEF CheckpointThrows
  <2>2. calls' \in [Caller -> Call] /\ \A j \in Caller : calls'[j] = NoCall \/ calls'[j].block \in complete
    BY <2>1, IdleTyped DEF TypeOK
  <2> QED
    BY <1>1, <2>1, <2>2, CallsTyped DEF TypeOK, syncVars, jobVars
<1> QED
  BY <1>2, <1>3

-------------------------------------------------------------------------------
(* Steps of the calls change nothing but checkpoints.                       *)

\* a call finds again what it has found, unless its row is removed
LEMMA FoundKept ==
    ASSUME TypeOK, FoundStays,
           \A i \in Caller : calls'[i] = calls[i] \/ calls'[i].pc # "save",
           \A b \in complete, c \in Contract :
               Exists(b, c, "checkpoint") => Exists(b, c, "checkpoint")'
    PROVE  FoundStays'
<1> SUFFICES ASSUME NEW i \in Caller, calls'[i].pc = "save", calls'[i].found
             PROVE  Exists(calls[i].block, calls[i].contract, "checkpoint")' /\ calls'[i] = calls[i]
  BY DEF FoundStays, Exists
<1>1. calls'[i] = calls[i]
  OBVIOUS
<1>2. calls[i] \in Call /\ calls[i].block \in complete
  BY <1>1 DEF TypeOK, NoCall
<1>3. Exists(calls[i].block, calls[i].contract, "checkpoint")
  BY <1>1 DEF FoundStays
<1>4. calls[i].contract \in Contract
  BY <1>2 DEF Call
<1>5. \A b \in complete, c \in Contract :
         states[<<b, c, "checkpoint">>] # NoState => states'[<<b, c, "checkpoint">>] # NoState
  BY DEF Exists
<1>6. states'[<<calls[i].block, calls[i].contract, "checkpoint">>] # NoState
  BY <1>2, <1>3, <1>4, <1>5 DEF Exists
<1> QED
  BY <1>1, <1>6 DEF Exists

LEMMA CheckpointsAside ==
    ASSUME SettledInv, TypeOK', FoundStays',
           UNCHANGED <<blockVars, indexed, firstIndexed, hooks, hooking>>,
           \A e \in Key : e[3] # "checkpoint" => states'[e] = states[e]
    PROVE  SettledInv'
<1>1. UNCHANGED <<saved, complete, canonical, current, indexed, firstIndexed, hooks, hooking>>
  BY DEF blockVars
<1>2. \A b \in saved, c \in Contract, k \in Kind \ {"checkpoint"} :
         states'[<<b, c, k>>] = states[<<b, c, k>>]
  BY DEF SettledInv, TypeOK, Key
<1>3. RowsInOrder' /\ Window' /\ IndexedHeights'
  BY <1>1 DEF SettledInv, RowsInOrder, Window, IndexedHeights, HasStatus
<1>4. Settled' = Settled /\ (HasStatus' <=> HasStatus) /\ saved \subseteq Block
      /\ complete \subseteq saved /\ (hooking = Idle \/ hooking.block \in saved)
  BY <1>1 DEF SettledInv, TypeOK, Settled, HasStatus
<1>5. \A b \in saved, c \in Contract, k \in {"diff", "diff_staged"} :
         Exists(b, c, k)' <=> Exists(b, c, k)
  BY <1>2 DEF Exists, Kind
<1>6. HooksInStep'
  <2>1. hooking.pc # "idle" => hooking.block \in saved
    BY <1>4 DEF Idle
  <2>2. hooking.pc # "idle" => \A c \in Contract :
           /\ Exists(hooking.block, c, "diff_staged")' <=> Exists(hooking.block, c, "diff_staged")
           /\ Exists(hooking.block, c, "diff")' <=> Exists(hooking.block, c, "diff")
    BY <1>1, <1>2, <2>1 DEF Exists, Kind
  <2> QED
    BY <1>1, <1>4, <1>5, <2>2 DEF SettledInv, HooksInStep
<1>7. OwnDiffs'
  BY <1>1, <1>2, <1>4, <1>5 DEF SettledInv, OwnDiffs, Kind
<1>8. NothingLost'
  BY <1>1, <1>4, <1>5 DEF SettledInv, NothingLost, Changed, Started
<1>9. StagedRemoved'
  BY <1>1, <1>4, <1>5 DEF SettledInv, StagedRemoved, Indexed
<1> QED
  BY <1>3, <1>6, <1>7, <1>8, <1>9 DEF SettledInv

\* a restart removes the rows of unfinished blocks and the jobs
LEMMA RestartSettled ==
    ASSUME SettledInv, Restart, faults' \in 0..MaxFaults
    PROVE  SettledInv'
<1>1. TypeOK'
  BY RestartTyped DEF SettledInv
<1>2. saved' = complete /\ complete' = complete /\ current' = NoBlock /\ canonical' = canonical
      /\ indexed' = indexed /\ firstIndexed' = firstIndexed
      /\ hooks' = {} /\ hooking' = Idle
  BY DEF Restart, syncVars
<1>3. complete \subseteq saved /\ complete \subseteq Block /\ saved \subseteq Block
  BY DEF SettledInv, TypeOK
<1>4. \A b \in complete, c \in Contract, k \in Kind : states'[<<b, c, k>>] = states[<<b, c, k>>]
  BY <1>3 DEF Restart, Key
<1>5. Settled' = Settled /\ (HasStatus' <=> HasStatus)
  BY <1>2 DEF Settled, HasStatus
<1>6. \A b \in complete, c \in Contract, k \in Kind : Exists(b, c, k)' <=> Exists(b, c, k)
  BY <1>4 DEF Exists
<1>7. FoundStays'
  <2>1. \A i \in Caller : calls'[i] = calls[i] \/ calls'[i].pc # "save"
    BY DEF Restart, NoCall
  <2>2. \A b \in complete, c \in Contract :
           Exists(b, c, "checkpoint") => Exists(b, c, "checkpoint")'
    BY <1>6 DEF Kind
  <2> QED
    BY <2>1, <2>2, FoundKept DEF SettledInv
<1>8. RowsInOrder'
  BY <1>2, <1>3 DEF SettledInv, RowsInOrder
<1>9. Window'
  BY <1>2, <1>3 DEF SettledInv, Window
<1>10. IndexedHeights'
  BY <1>2, <1>5 DEF SettledInv, IndexedHeights
<1>11. HooksInStep'
  BY <1>2 DEF HooksInStep, Idle
<1>12. OwnDiffs'
  <2> SUFFICES ASSUME NEW b \in complete, NEW c \in Contract
               PROVE  /\ Exists(b, c, "diff_staged")' =>
                             states'[<<b, c, "diff_staged">>] = {b} /\ c \in Changed(b)
                      /\ Exists(b, c, "diff")' =>
                             states'[<<b, c, "diff">>] = {b} /\ c \in Changed(b) /\ b \in Settled
    BY <1>2, <1>5 DEF OwnDiffs, Changed, Started
  <2>1. \A k \in {"diff", "diff_staged"} : states'[<<b, c, k>>] = states[<<b, c, k>>]
    BY <1>4 DEF Kind
  <2> QED
    BY <1>3, <2>1 DEF SettledInv, OwnDiffs, Exists
<1>13. NothingLost'
  BY <1>2, <1>5, <1>6 DEF SettledInv, NothingLost, Kind, Changed, Started
<1>14. StagedRemoved'
  BY <1>2, <1>3, <1>5, <1>6 DEF SettledInv, StagedRemoved, Kind, Indexed
<1> QED
  BY <1>1, <1>7, <1>8, <1>9, <1>10, <1>11, <1>12, <1>13, <1>14 DEF SettledInv

LEMMA CallStepSettled ==
    ASSUME SettledInv, NEW i \in Caller, CallStep(i)
    PROVE  SettledInv'
<1>0. TypeOK /\ FoundStays /\ calls \in [Caller -> Call]
  BY DEF SettledInv, TypeOK
<1>1. ASSUME NEW c \in Contract, MergeDiffs(i, c)
      PROVE  SettledInv'
  <2>1. TypeOK'
    BY <1>0, <1>1, MergeDiffsTyped
  <2>2. UNCHANGED <<blockVars, states, syncVars, jobVars>>
        /\ \A j \in Caller \ {i} : calls'[j] = calls[j]
    BY <1>0, <1>1 DEF MergeDiffs
  <2>3. /\ calls'[i].contract = c /\ calls'[i].block = calls[i].block
        /\ calls'[i].found = Exists(calls[i].block, c, "checkpoint")
    BY <1>0, <1>1 DEF MergeDiffs, Call
  <2>4. FoundStays'
    BY <1>0, <2>2, <2>3 DEF FoundStays, Exists
  <2> QED
    BY <2>1, <2>2, <2>4, CheckpointsAside DEF syncVars, jobVars
<1>2. ASSUME SaveCheckpoint(i)
      PROVE  SettledInv'
  <2>1. TypeOK' /\ \A e \in Key : e[3] # "checkpoint" => states'[e] = states[e]
    BY <1>0, <1>2, SaveCheckpointTyped
  <2>2. UNCHANGED <<blockVars, syncVars, jobVars>>
    BY <1>2 DEF SaveCheckpoint
  <2>3. FoundStays'
    <3>1. calls[i] \in Call /\ calls[i].pc = "save" /\ calls'[i].pc = "merge"
          /\ \A j \in Caller \ {i} : calls'[j] = calls[j]
      BY <1>0, <1>2 DEF SaveCheckpoint, Call
    <3>2. \A e \in Key : states[e] # NoState => states'[e] # NoState
      BY <1>0, <1>2, SaveCheckpointTyped
    <3>3. complete \subseteq Block
      BY DEF SettledInv, TypeOK
    <3>4. \A b \in complete, c \in Contract :
             Exists(b, c, "checkpoint") => Exists(b, c, "checkpoint")'
      BY <3>2, <3>3 DEF Exists, Key, Kind
    <3> QED
      BY <1>0, <3>1, <3>4, FoundKept
  <2> QED
    BY <2>1, <2>2, <2>3, CheckpointsAside DEF syncVars, jobVars
<1>3. ASSUME FinishCheckpoint(i)
      PROVE  SettledInv'
  <2>1. TypeOK'
    BY <1>0, <1>3, FinishCheckpointTyped
  <2>2. UNCHANGED <<blockVars, states, indexed, firstIndexed, jobVars>>
        /\ calls' = [calls EXCEPT ![i] = NoCall]
    BY <1>3 DEF FinishCheckpoint
  <2>3. FoundStays'
    BY <1>0, <2>2, FoundKept DEF NoCall, Exists
  <2> QED
    BY <2>1, <2>2, <2>3, CheckpointsAside DEF jobVars
<1>4. ASSUME CheckpointThrows(i)
      PROVE  SettledInv'
  <2>1. TypeOK' /\ UNCHANGED faults /\ faults \in 0..MaxFaults
    BY <1>0, <1>4, CheckpointThrowsTyped DEF CheckpointThrows, TypeOK
  <2>2. CASE Restart
    BY <2>1, <2>2, RestartSettled
  <2>3. CASE ~Restart
    <3>1. UNCHANGED <<blockVars, states, syncVars, jobVars>>
          /\ calls' = [calls EXCEPT ![i] = NoCall]
      BY <1>4, <2>3 DEF CheckpointThrows
    <3>2. FoundStays'
      BY <1>0, <3>1, FoundKept DEF NoCall, Exists
    <3> QED
      BY <2>1, <3>1, <3>2, CheckpointsAside DEF syncVars, jobVars
  <2> QED
    BY <2>2, <2>3
<1> QED
  BY <1>1, <1>2, <1>3, <1>4 DEF CallStep

LEMMA TakeCheckpointSettled ==
    ASSUME SettledInv, NEW i \in Caller, TakeCheckpoint(i)
    PROVE  SettledInv'
<1>0. TypeOK /\ FoundStays /\ calls \in [Caller -> Call] /\ faults \in 0..MaxFaults
  BY DEF SettledInv, TypeOK
<1>1. TypeOK'
  BY <1>0, TakeCheckpointTyped
<1>2. CASE Restart /\ UNCHANGED faults
  BY <1>0, <1>2, RestartSettled
<1>3. CASE ~(Restart /\ UNCHANGED faults)
  <2>1. /\ UNCHANGED <<blockVars, states, syncVars, hooks, hooking>>
        /\ \/ UNCHANGED calls
           \/ calls' = [calls EXCEPT ![i] = [NoCall EXCEPT !.block = Head(checkpoints),
                                                           !.pc = "merge",
                                                           !.todo = Due(Head(checkpoints))]]
    BY <1>3 DEF TakeCheckpoint
  <2>2. FoundStays'
    BY <1>0, <2>1, FoundKept DEF NoCall, Exists
  <2> QED
    BY <1>1, <2>1, <2>2, CheckpointsAside DEF syncVars
<1> QED
  BY <1>2, <1>3

LEMMA StartCommandSettled ==
    ASSUME SettledInv, NEW i \in Command, NEW b \in Block, NEW c \in Contract, StartCommand(i, b, c)
    PROVE  SettledInv'
<1>0. TypeOK /\ FoundStays /\ calls \in [Caller -> Call]
  BY DEF SettledInv, TypeOK
<1>1. TypeOK'
  BY <1>0, StartCommandTyped
<1>2. /\ calls' = [calls EXCEPT ![i] = [NoCall EXCEPT !.block = b, !.pc = "merge", !.todo = {c}]]
      /\ UNCHANGED <<blockVars, states, syncVars, jobVars>>
  BY DEF StartCommand
<1>3. FoundStays'
  BY <1>0, <1>2, FoundKept DEF NoCall, Exists
<1> QED
  BY <1>1, <1>2, <1>3, CheckpointsAside DEF syncVars, jobVars

-------------------------------------------------------------------------------
(* Steps of the blocks.                                                     *)

LEMMA IndexBlockSettled ==
    ASSUME SettledInv, NEW b \in Block, IndexBlock(b)
    PROVE  SettledInv'
<1>0. TypeOK /\ FoundStays /\ complete \subseteq saved /\ saved \subseteq Block
      /\ (hooking = Idle \/ hooking.block \in complete)
  BY DEF SettledInv, TypeOK
<1>1. TypeOK'
  BY <1>0, IndexBlockTyped
<1>2. /\ UNCHANGED <<complete, canonical, indexed, firstIndexed, hooks, hooking, calls>>
      /\ saved' = saved \cup {b} /\ current' = b /\ b \notin saved /\ current = NoBlock
  BY DEF IndexBlock, syncVars, jobVars
<1>3. /\ b # Root => Parent[b] \in complete /\ Number[b] > Number[canonical]
      /\ canonical \in Ancestors[b]
      /\ \A t \in saved : Number[t] - Number[canonical] <= MaxReorgDepth
  BY DEF IndexBlock, WithinReorgDepth
<1>4. \A x \in Block, c \in Contract, k \in Kind \ {"init"} :
         states'[<<x, c, k>>] = states[<<x, c, k>>]
  BY DEF IndexBlock, Key
<1>5. \A x \in Block, c \in Contract, k \in Kind \ {"init"} :
         Exists(x, c, k)' <=> Exists(x, c, k)
  BY <1>4 DEF Exists
<1>6. \A c \in Contract, k \in Kind : ~Exists(b, c, k)
  BY <1>0, <1>2, StateTyped
<1>7. Settled' = Settled /\ (HasStatus' <=> HasStatus)
  BY <1>2 DEF Settled, HasStatus
<1>8. FoundStays'
  BY <1>0, <1>2, <1>5, FoundKept DEF Kind
<1>9. RowsInOrder'
  BY <1>0, <1>2, <1>3, BlockTreeAssumption DEF SettledInv, RowsInOrder
<1>10. Window'
  <2>1. Number[canonical] \in Nat /\ \A t \in saved : Number[t] \in Nat
    BY <1>0, NumberTyped DEF TypeOK
  <2>2. \A t \in saved : Number[t] <= Number[canonical] + MaxReorgDepth
    BY <1>3, <2>1, StateSyncAssumption
  <2>3. \A t \in saved : ~(Number[t] > Number[canonical] + MaxReorgDepth)
    BY <2>1, <2>2, StateSyncAssumption
  <2> QED
    BY <1>2, <1>3, <2>2, <2>3 DEF Window
<1>11. IndexedHeights'
  BY <1>2, <1>7 DEF SettledInv, IndexedHeights
<1>12. HooksInStep'
  <2>1. hooking.pc # "idle" => hooking.block \in Block
    BY <1>0 DEF Idle
  <2>2. hooking.pc # "idle" => \A c \in Contract :
           /\ Exists(hooking.block, c, "diff_staged")' <=> Exists(hooking.block, c, "diff_staged")
           /\ Exists(hooking.block, c, "diff")' <=> Exists(hooking.block, c, "diff")
    BY <1>2, <1>4, <2>1 DEF Exists, Kind
  <2>3. hooking.pc \in {"status", "push"} => \A x \in saved', c \in Contract :
           Number[x] = Number[hooking.block] => ~Exists(x, c, "diff_staged")'
    BY <1>0, <1>2, <1>5, <1>6 DEF SettledInv, HooksInStep, Kind
  <2> QED
    BY <1>2, <1>7, <2>2, <2>3 DEF SettledInv, HooksInStep
<1>13. OwnDiffs'
  <2> SUFFICES ASSUME NEW x \in saved', NEW c \in Contract
               PROVE  /\ Exists(x, c, "diff_staged")' =>
                             states'[<<x, c, "diff_staged">>] = {x} /\ c \in Changed(x)
                      /\ Exists(x, c, "diff")' =>
                             states'[<<x, c, "diff">>] = {x} /\ c \in Changed(x) /\ x \in Settled
    BY <1>7 DEF OwnDiffs, Changed, Started
  <2>1. \A k \in {"diff", "diff_staged"} :
           states'[<<x, c, k>>] = states[<<x, c, k>>] /\ (Exists(x, c, k)' <=> Exists(x, c, k))
    BY <1>0, <1>2, <1>4, <1>5 DEF Kind
  <2> QED
    BY <1>2, <1>6, <2>1 DEF SettledInv, OwnDiffs, Kind
<1>14. NothingLost'
  BY <1>0, <1>2, <1>5, <1>7 DEF SettledInv, NothingLost, Kind, Changed, Started
<1>15. StagedRemoved'
  BY <1>0, <1>2, <1>5, <1>6, <1>7 DEF SettledInv, StagedRemoved, Kind, Indexed
<1> QED
  BY <1>1, <1>8, <1>9, <1>10, <1>11, <1>12, <1>13, <1>14, <1>15 DEF SettledInv

\* the block in flight is above those that are indexed and those of the hooks jobs
LEMMA InFlightAbove ==
    ASSUME SettledInv, current # NoBlock
    PROVE  /\ HasStatus => Number[current] > indexed
           /\ \A b \in Settled : Number[current] # Number[b]
<1>1. TypeOK /\ RowsInOrder /\ IndexedHeights /\ current \in saved \ complete
      /\ saved \subseteq Block /\ canonical \in Block
  BY DEF SettledInv, TypeOK
<1>2. Number[current] \in Nat /\ Number[canonical] \in Nat /\ \A b \in Settled : Number[b] \in Nat
  BY <1>1, NumberTyped, SettledBlocks
<1>3. CASE current = Root
  <2>1. complete = {} /\ Settled = {}
    BY <1>1, <1>3, SettledBlocks
  <2> QED
    BY <1>1, <2>1 DEF IndexedHeights
<1>4. CASE current # Root
  <2>1. Number[current] > Number[canonical]
    BY <1>1, <1>4 DEF RowsInOrder
  <2>2. HasStatus => indexed \in Int /\ indexed <= Number[canonical]
    BY <1>1 DEF TypeOK, IndexedHeights
  <2>3. \A b \in Settled : Number[b] < Number[canonical]
    BY <1>1, SettledBlocks
  <2> QED
    BY <1>2, <2>1, <2>2, <2>3
<1> QED
  BY <1>3, <1>4

\* the staged diffs of the block in flight
LEMMA DumpSettled ==
    ASSUME SettledInv, DumpDiffs, NEW b, b = current,
           UNCHANGED <<saved, canonical, indexed, firstIndexed, hooks, hooking, calls>>
    PROVE  /\ FoundStays'
           /\ HooksInStep'
           /\ OwnDiffs'
           /\ StagedRemoved'
           /\ \A x \in complete, c \in Contract, k \in Kind :
                 Exists(x, c, k)' <=> Exists(x, c, k)
           /\ \A c \in Changed(b) : Exists(b, c, "diff_staged")'
<1>0. TypeOK /\ FoundStays /\ complete \subseteq saved /\ saved \subseteq Block
      /\ (hooking = Idle \/ hooking.block \in complete)
      /\ b \in saved \ complete /\ current # NoBlock /\ b \in Block
  BY DEF SettledInv, TypeOK, DumpDiffs
<1>1. states' = [e \in Key |-> IF e[1] = b /\ e[2] \in Changed(b)
                                  /\ e[3] = "diff_staged" THEN {b} ELSE states[e]]
  BY DEF DumpDiffs, Dumped, Changed
<1>2. \A x \in Block, c \in Contract, k \in Kind :
         states'[<<x, c, k>>] = IF x = b /\ c \in Changed(b) /\ k = "diff_staged"
                                THEN {b} ELSE states[<<x, c, k>>]
  BY <1>1 DEF Key
<1>3. {b} # NoState
  BY <1>0, StateSyncAssumption
<1>4. \A x \in Block \ {b}, c \in Contract, k \in Kind :
         states'[<<x, c, k>>] = states[<<x, c, k>>] /\ (Exists(x, c, k)' <=> Exists(x, c, k))
  BY <1>2 DEF Exists
<1>5. \A c \in Contract, k \in Kind \ {"diff_staged"} :
         states'[<<b, c, k>>] = states[<<b, c, k>>]
         /\ (Exists(b, c, k)' <=> Exists(b, c, k))
  BY <1>0, <1>2 DEF Exists
<1>6. Settled' = Settled /\ (HasStatus' <=> HasStatus)
  BY DEF Settled, HasStatus
<1>7. FoundStays'
  BY <1>0, <1>4, FoundKept DEF Kind
<1>8. HooksInStep'
  <2>1. hooking.pc # "idle" => hooking.block \in Block \ {b}
    BY <1>0 DEF Idle
  <2>2. hooking.pc # "idle" => \A c \in Contract :
           /\ Exists(hooking.block, c, "diff_staged")' <=> Exists(hooking.block, c, "diff_staged")
           /\ Exists(hooking.block, c, "diff")' <=> Exists(hooking.block, c, "diff")
    BY <1>4, <2>1 DEF Exists, Kind
  <2>3. hooking.pc # "idle" => Number[hooking.block] # Number[b]
    BY <1>0, InFlightAbove DEF SettledInv, HooksInStep
  <2>4. hooking.pc \in {"status", "push"} => \A x \in saved, c \in Contract :
           Number[x] = Number[hooking.block] => ~Exists(x, c, "diff_staged")'
    BY <1>0, <1>4, <2>3 DEF SettledInv, HooksInStep, Kind
  <2> QED
    BY <1>6, <2>2, <2>4 DEF SettledInv, HooksInStep
<1>9. OwnDiffs'
  <2> SUFFICES ASSUME NEW x \in saved, NEW c \in Contract
               PROVE  /\ Exists(x, c, "diff_staged")' =>
                             states'[<<x, c, "diff_staged">>] = {x} /\ c \in Changed(x)
                      /\ Exists(x, c, "diff")' =>
                             states'[<<x, c, "diff">>] = {x} /\ c \in Changed(x) /\ x \in Settled
    BY <1>6 DEF OwnDiffs, Changed, Started
  <2>1. OwnDiffs
    BY DEF SettledInv
  <2>2. CASE x # b
    BY <1>0, <1>4, <2>1, <2>2 DEF OwnDiffs, Kind
  <2>3. CASE x = b
    <3>1. states'[<<b, c, "diff">>] = states[<<b, c, "diff">>]
      BY <1>5 DEF Kind
    <3>2. states'[<<b, c, "diff_staged">>] =
             IF c \in Changed(b) THEN {b} ELSE states[<<b, c, "diff_staged">>]
      BY <1>0, <1>2 DEF Kind
    <3> QED
      BY <1>0, <2>1, <2>3, <3>1, <3>2 DEF OwnDiffs, Exists
  <2> QED
    BY <2>2, <2>3
<1>10. StagedRemoved'
  <2>1. HasStatus => ~Indexed(b)
    <3>1. Number[b] \in Nat /\ (HasStatus => indexed \in Nat)
      BY <1>0, NumberTyped DEF TypeOK, HasStatus
    <3> QED
      BY <1>0, <3>1, InFlightAbove DEF Indexed
  <2> QED
    BY <1>0, <1>4, <1>6, <2>1 DEF SettledInv, StagedRemoved, Indexed, Kind
<1>11. \A c \in Changed(b) : Exists(b, c, "diff_staged")'
  BY <1>0, <1>2, <1>3 DEF Exists, Changed, Started, Kind
<1> QED
  BY <1>0, <1>4, <1>7, <1>8, <1>9, <1>10, <1>11

LEMMA CompleteBlockSettled ==
    ASSUME SettledInv, CompleteBlock
    PROVE  SettledInv'
<1> PICK b : b = current
  OBVIOUS
<1>0. TypeOK /\ complete \subseteq saved /\ saved \subseteq Block /\ b \in saved \ complete
      /\ b # NoBlock /\ b \in Block
  BY DEF SettledInv, TypeOK, CompleteBlock, DumpDiffs
<1>1. TypeOK'
  BY <1>0, CompleteBlockTyped
<1>2. DumpDiffs /\ complete' = complete \cup {b} /\ current' = NoBlock
      /\ UNCHANGED <<saved, canonical, indexed, firstIndexed, hooks, hooking, calls>>
  BY DEF CompleteBlock, syncVars, jobVars
<1>3. /\ FoundStays' /\ HooksInStep' /\ OwnDiffs' /\ StagedRemoved'
      /\ \A x \in complete, c \in Contract, k \in Kind : Exists(x, c, k)' <=> Exists(x, c, k)
      /\ \A c \in Changed(b) : Exists(b, c, "diff_staged")'
  BY <1>2, DumpSettled
<1>4. Settled' = Settled /\ (HasStatus' <=> HasStatus)
  BY <1>2 DEF Settled, HasStatus
<1>5. RowsInOrder'
  BY <1>0, <1>2 DEF SettledInv, RowsInOrder
<1>6. Window'
  BY <1>2 DEF SettledInv, Window
<1>7. IndexedHeights'
  BY <1>2, <1>4 DEF SettledInv, IndexedHeights
<1>8. NothingLost'
  <2> SUFFICES ASSUME NEW x \in complete', NEW c \in Changed(x),
                      (Number[x] >= Number[canonical] \/ x \in Settled)
                      /\ (HasStatus => firstIndexed <= Number[x])
               PROVE  Exists(x, c, "diff_staged")' \/ Exists(x, c, "diff")'
    BY <1>2, <1>4 DEF NothingLost, Changed, Started
  <2>1. CASE x = b
    BY <1>3, <2>1
  <2>2. CASE x # b
    BY <1>2, <1>3, <2>2 DEF SettledInv, NothingLost, Changed, Started, Kind
  <2> QED
    BY <2>1, <2>2
<1> QED
  BY <1>1, <1>3, <1>5, <1>6, <1>7, <1>8 DEF SettledInv

LEMMA EventsFailSettled ==
    ASSUME SettledInv, EventsFail
    PROVE  SettledInv'
<1>0. TypeOK
  BY DEF SettledInv
<1>1. TypeOK'
  BY <1>0, EventsFailTyped
<1>2. DumpDiffs /\ UNCHANGED <<complete, current>>
      /\ UNCHANGED <<saved, canonical, indexed, firstIndexed, hooks, hooking, calls>>
  BY DEF EventsFail, blockVars, syncVars, jobVars
<1>3. /\ FoundStays' /\ HooksInStep' /\ OwnDiffs' /\ StagedRemoved'
      /\ \A x \in complete, c \in Contract, k \in Kind : Exists(x, c, k)' <=> Exists(x, c, k)
  BY <1>2, DumpSettled
<1>4. Settled' = Settled /\ (HasStatus' <=> HasStatus)
  BY <1>2 DEF Settled, HasStatus
<1>5. RowsInOrder' /\ Window' /\ IndexedHeights'
  BY <1>2, <1>4 DEF SettledInv, RowsInOrder, Window, IndexedHeights
<1>6. NothingLost'
  BY <1>2, <1>3, <1>4 DEF SettledInv, NothingLost, Changed, Started, Kind
<1> QED
  BY <1>1, <1>3, <1>5, <1>6 DEF SettledInv

\* the block that a prune job commits is the child of the canonical one
LEMMA PrunedToChild ==
    ASSUME SettledInv, PruneBlock
    PROVE  /\ canonical' \in complete \ {Root}
           /\ Parent[canonical'] = canonical
           /\ Number[canonical'] = Number[canonical] + 1
           /\ hooks' = hooks \cup {canonical}
           /\ pruned \subseteq pruned' /\ pruned' \subseteq complete /\ canonical' \notin pruned'
           /\ \A t \in saved : Number[t] <= Number[canonical] + 1 + MaxReorgDepth
           /\ current # NoBlock => Number[current] > Number[canonical] + 1
<1> DEFINE n == Number[canonical] + 1
<1>0. TypeOK /\ RowsInOrder /\ Window /\ saved \subseteq Block /\ canonical \in Block
      /\ pruned \subseteq complete /\ complete \subseteq saved
      /\ saved \ complete \subseteq {current}
  BY DEF SettledInv, TypeOK, RowsInOrder
<1>1. PICK h \in saved : Number[h] = n + MaxReorgDepth
  BY DEF PruneBlock
<1>2. PICK b \in AtHeight(saved \ pruned, n) \cap UNION {Ancestors[u] : u \in Highest(saved)} :
         /\ pruned' = pruned \cup (AtHeight(saved \ pruned, n) \ {b})
         /\ canonical' = b
         /\ hooks' = hooks \cup {Parent[b]}
  BY DEF PruneBlock
<1>3. Number[canonical] \in Nat /\ MaxReorgDepth \in Nat \ {0}
      /\ \A t \in saved : Number[t] \in Nat
  BY <1>0, NumberTyped, StateSyncAssumption
<1>4. \A t \in saved : t # h => Number[t] <= Number[canonical] + MaxReorgDepth
  BY <1>0, <1>1, <1>3 DEF Window
<1>5. canonical \in Ancestors[h]
  BY <1>0, <1>1, <1>3 DEF Window
<1>6. b \in saved /\ Number[b] = n /\ b \notin pruned /\ b \in Ancestors[h]
  <2>1. \A u \in Highest(saved) : u = h
    BY <1>1, <1>3, <1>4 DEF Highest
  <2> QED
    BY <1>2, <2>1 DEF AtHeight
<1>7. current # NoBlock => current = h
  <2>1. current # NoBlock => \A t \in saved \ {current} :
           Number[t] <= Number[canonical] + MaxReorgDepth
    BY <1>0 DEF Window
  <2> QED
    BY <1>1, <1>3, <2>1
<1>8. \A t \in saved : Number[t] = n => t \in complete
  BY <1>0, <1>1, <1>3, <1>7, BlockTreeAssumption
<1>9. b # Root
  <2>1. CASE canonical = Root
    BY <1>3, <1>6, <2>1
  <2>2. CASE canonical # Root
    BY <1>0, <1>3, <1>6, <2>2, RootLowest
  <2> QED
    BY <2>1, <2>2
<1>10. canonical \in Ancestors[b]
  <2>1. OnOneBranch(b, canonical)
    BY <1>0, <1>1, <1>5, <1>6, AncestorsLinear
  <2>2. b \in Ancestors[canonical] => b = canonical \/ Number[b] < Number[canonical]
    BY <1>0, AncestorsBelow
  <2> QED
    BY <1>3, <1>6, <2>1, <2>2 DEF OnOneBranch
<1>11. Parent[b] = canonical
  <2>1. b \in Block \ {Root} /\ b # canonical
    BY <1>0, <1>3, <1>6, <1>9
  <2>2. Parent[b] \in Block /\ Number[Parent[b]] < Number[b]
    BY <2>1, BlockTreeAssumption
  <2>3. canonical \in Ancestors[Parent[b]]
    BY <1>10, <2>1, AncestorsOfParent
  <2>4. canonical # Parent[b] => Number[canonical] < Number[Parent[b]]
    BY <2>2, <2>3, AncestorsBelow
  <2>5. Number[Parent[b]] \in Nat
    BY <2>2, NumberTyped
  <2> QED
    BY <1>3, <1>6, <2>2, <2>4, <2>5
<1>12. canonical' \in complete \ {Root} /\ Number[canonical'] = n /\ Parent[canonical'] = canonical
      /\ hooks' = hooks \cup {canonical}
  BY <1>2, <1>6, <1>8, <1>9, <1>11
<1>13. pruned \subseteq pruned' /\ pruned' \subseteq complete /\ canonical' \notin pruned'
  BY <1>0, <1>2, <1>6, <1>8 DEF AtHeight
<1>14. \A t \in saved : Number[t] <= n + MaxReorgDepth
  BY <1>1, <1>3, <1>4
<1>15. current # NoBlock => Number[current] > n
  BY <1>1, <1>3, <1>7
<1> QED
  BY <1>12, <1>13, <1>14, <1>15

LEMMA PruneBlockSettled ==
    ASSUME SettledInv, PruneBlock
    PROVE  SettledInv'
<1>0. TypeOK /\ saved \subseteq Block /\ complete \subseteq saved /\ canonical \in Block
  BY DEF SettledInv, TypeOK
<1>1. UNCHANGED <<saved, complete, current, states, indexed, firstIndexed, checkpointed,
                  status, failed, hooking, checkpoints, calls, faults>>
  BY DEF PruneBlock, syncVars
<1>2. /\ canonical' \in complete \ {Root}
      /\ Parent[canonical'] = canonical
      /\ Number[canonical'] = Number[canonical] + 1
      /\ hooks' = hooks \cup {canonical}
      /\ pruned' \subseteq complete /\ canonical' \notin pruned'
      /\ \A t \in saved : Number[t] <= Number[canonical] + 1 + MaxReorgDepth
      /\ current # NoBlock => Number[current] > Number[canonical] + 1
  BY PrunedToChild
<1>3. canonical \in complete
  BY <1>0, <1>2 DEF SettledInv, RowsInOrder
<1>4. TypeOK'
  BY <1>0, <1>1, <1>2, <1>3 DEF TypeOK
<1>5. Number[canonical] \in Nat /\ \A t \in saved : Number[t] \in Nat
  BY <1>0, NumberTyped
<1>6. Settled' = Settled \cup {canonical}
  <2> DEFINE b == canonical'
  <2>1. b \in Block \ {Root} /\ Parent[b] = canonical /\ b # canonical
        /\ Number[b] = Number[canonical] + 1
    BY <1>0, <1>2, <1>5
  <2>2. Ancestors[b] \subseteq {b} \cup Ancestors[canonical]
    BY <2>1, AncestorsOfParent
  <2>3. b \in Ancestors[b] /\ canonical \in Ancestors[b]
    BY <2>1, AncestorsClosed DEF ParentClosed
  <2>4. Ancestors[canonical] \subseteq Ancestors[b] /\ canonical \in Ancestors[canonical]
    BY <1>0, <2>1, <2>3, AncestorsTransitive, AncestorsClosed
  <2>5. b \notin Ancestors[canonical]
    BY <1>0, <1>5, <2>1, AncestorsBelow
  <2>6. Settled' = Ancestors[b] \ {b}
    BY DEF Settled
  <2> HIDE DEF b
  <2> QED
    BY <2>2, <2>3, <2>4, <2>5, <2>6 DEF Settled
<1>7. HasStatus' <=> HasStatus
  BY <1>1 DEF HasStatus
<1>8. RowsInOrder'
  BY <1>1, <1>2 DEF SettledInv, RowsInOrder
<1>9. Window'
  <2>1. \A t \in saved : ~(Number[t] > Number[canonical]' + MaxReorgDepth)
        /\ Number[t] <= Number[canonical]' + MaxReorgDepth
    BY <1>2, <1>5, StateSyncAssumption
  <2> QED
    BY <1>1, <2>1 DEF Window
<1>10. IndexedHeights'
  BY <1>1, <1>2, <1>5, <1>7 DEF SettledInv, IndexedHeights, TypeOK, HasStatus
<1>11. FoundStays'
  BY <1>1 DEF SettledInv, FoundStays, Exists
<1>12. HooksInStep'
  BY <1>1, <1>2, <1>6, <1>7 DEF SettledInv, HooksInStep, Exists
<1>13. OwnDiffs'
  BY <1>1, <1>6 DEF SettledInv, OwnDiffs, Exists, Changed, Started
<1>14. NothingLost'
  <2> SUFFICES ASSUME NEW x \in complete, NEW c \in Changed(x),
                      Number[x] >= Number[canonical]' \/ x \in Settled',
                      HasStatus => firstIndexed <= Number[x]
               PROVE  Exists(x, c, "diff_staged") \/ Exists(x, c, "diff")
    BY <1>1, <1>7 DEF NothingLost, Changed, Started, Exists
  <2>1. Number[x] >= Number[canonical] \/ x \in Settled
    BY <1>0, <1>2, <1>5, <1>6
  <2> QED
    BY <2>1 DEF SettledInv, NothingLost
<1>15. StagedRemoved'
  BY <1>1, <1>7 DEF SettledInv, StagedRemoved, Indexed, Exists
<1> QED
  BY <1>4, <1>8, <1>9, <1>10, <1>11, <1>12, <1>13, <1>14, <1>15 DEF SettledInv

-------------------------------------------------------------------------------
(* Steps of the hooks jobs.                                                 *)

\* the block of the hooks job that runs
LEMMA Hooking ==
    ASSUME SettledInv, hooking.pc # "idle"
    PROVE  /\ hooking.block \in hooks /\ hooking.block \in Settled
           /\ hooking.block \in complete /\ hooking.block \in saved /\ hooking.block \in Block
           /\ Number[hooking.block] \in Nat /\ Number[canonical] \in Nat
           /\ Number[hooking.block] < Number[canonical]
           /\ Number[Root] \in Nat /\ Number[Root] <= Number[hooking.block]
           /\ hooking.todo \subseteq Contract
<1>1. TypeOK /\ RowsInOrder /\ HooksInStep
  BY DEF SettledInv
<1>2. hooking.block \in hooks /\ hooking.block \in Settled
  BY <1>1 DEF HooksInStep
<1>3. hooking.block \in complete /\ hooking.block \in Block /\ canonical \in Block
      /\ hooking.block \in saved
      /\ Number[hooking.block] < Number[canonical]
  BY <1>1, <1>2, SettledBlocks DEF TypeOK
<1>4. Number[hooking.block] \in Nat /\ Number[canonical] \in Nat
  BY <1>3, NumberTyped
<1>5. Number[Root] \in Nat /\ Number[Root] <= Number[hooking.block]
  BY <1>3, <1>4, NumberTyped, RootLowest, BlockTreeAssumption
<1>6. hooking.todo \subseteq Contract
  BY <1>1 DEF TypeOK, HooksJob
<1> QED
  BY <1>2, <1>3, <1>4, <1>5, <1>6

\* what the hooks jobs leave alone
LEMMA HooksAside ==
    ASSUME SettledInv, TypeOK',
           UNCHANGED <<blockVars, indexed, firstIndexed, states, calls>>,
           HooksInStep'
    PROVE  SettledInv'
<1>1. UNCHANGED <<saved, complete, canonical, current>>
  BY DEF blockVars
<1>2. Settled' = Settled /\ (HasStatus' <=> HasStatus)
  BY <1>1 DEF Settled, HasStatus
<1>3. RowsInOrder' /\ Window' /\ IndexedHeights'
  BY <1>1, <1>2 DEF SettledInv, RowsInOrder, Window, IndexedHeights
<1>4. FoundStays'
  BY DEF SettledInv, FoundStays, Exists
<1>5. OwnDiffs'
  BY <1>1, <1>2 DEF SettledInv, OwnDiffs, Exists, Changed, Started
<1>6. NothingLost'
  BY <1>1, <1>2 DEF SettledInv, NothingLost, Exists, Changed, Started
<1>7. StagedRemoved'
  BY <1>1, <1>2 DEF SettledInv, StagedRemoved, Indexed, Exists
<1> QED
  BY <1>3, <1>4, <1>5, <1>6, <1>7 DEF SettledInv

LEMMA TakeHooksSettled ==
    ASSUME SettledInv, NEW b \in Block, TakeHooks(b)
    PROVE  SettledInv'
<1>0. TypeOK /\ RowsInOrder /\ HooksInStep /\ IndexedHeights
  BY DEF SettledInv
<1>1. b \in hooks /\ hooking = Idle
      /\ UNCHANGED <<blockVars, states, syncVars, status, checkpoints, calls, faults>>
  BY <1>0 DEF TakeHooks, NextHooks, Lowest, TypeOK
<1>2. b \in Settled /\ b \in complete /\ b \in Block /\ b # NoJob
      /\ hooks \subseteq Settled /\ failed \subseteq hooks /\ Settled \subseteq complete
  BY <1>0, <1>1, SettledBlocks, StateSyncAssumption DEF HooksInStep, TypeOK
<1>3. Number[b] \in Nat /\ Number[Root] \in Nat /\ indexed \in Int
  BY <1>0, <1>2, NumberTyped, BlockTreeAssumption DEF TypeOK
<1>4. CASE ~ParentIndexed(b) /\ AbortHooks(b) /\ failed' = failed \cup {b} /\ UNCHANGED hooking
  <2>1. b # Root
    BY <1>0, <1>3, <1>4 DEF ParentIndexed, IndexedHeights
  <2>2. Parent[b] \in Settled /\ Parent[b] \in complete
    BY <1>0, <1>2, <2>1, SettledBlocks
  <2>3. hooks' = hooks \cup {Parent[b]}
    BY <1>4 DEF AbortHooks
  <2>4. TypeOK'
    BY <1>0, <1>1, <1>2, <1>4, <2>2, <2>3, HooksTyped DEF TypeOK, syncVars
  <2>5. Settled' = Settled
    BY <1>1 DEF Settled, blockVars
  <2>6. HooksInStep'
    BY <1>0, <1>1, <1>2, <1>4, <2>2, <2>3, <2>5 DEF HooksInStep, Idle
  <2> QED
    BY <1>1, <2>4, <2>6, HooksAside DEF syncVars
<1>5. CASE RemoveHooks(b) /\ UNCHANGED hooking
  <2>1. hooks' = hooks \ {b} /\ failed' = failed \ {b}
    BY <1>5 DEF RemoveHooks
  <2>2. TypeOK'
    BY <1>0, <1>1, <1>2, <1>5, <2>1, HooksTyped DEF TypeOK, syncVars
  <2>3. Settled' = Settled
    BY <1>1 DEF Settled, blockVars
  <2>4. HooksInStep'
    BY <1>0, <1>1, <1>2, <1>5, <2>1, <2>3 DEF HooksInStep, Idle
  <2> QED
    BY <1>1, <2>2, <2>4, HooksAside DEF syncVars
<1>6. CASE /\ ParentIndexed(b) /\ ~IndexedUpTo(Number[b])
           /\ hooking' = [block |-> b, pc |-> "diffs",
                          todo |-> {c \in Contract : Exists(b, c, "diff_staged")}]
           /\ UNCHANGED <<hooks, failed>>
  <2>1. hooking' \in HooksJob /\ hooking'.block = b /\ hooking'.pc = "diffs"
        /\ hooking'.todo = {c \in Contract : Exists(b, c, "diff_staged")}
    BY <1>2, <1>6 DEF HooksJob
  <2>2. TypeOK'
    BY <1>0, <1>1, <1>2, <1>6, <2>1, HooksTyped DEF TypeOK, syncVars
  <2>3. Settled' = Settled /\ (HasStatus' <=> HasStatus) /\ indexed' = indexed
    BY <1>1 DEF Settled, blockVars, syncVars, HasStatus
  <2>4. HasStatus => indexed = Number[b] - 1
    BY <1>3, <1>6 DEF ParentIndexed, IndexedUpTo
  <2>5. \A c \in Contract : Exists(b, c, "diff_staged")' <=> Exists(b, c, "diff_staged")
    BY <1>1 DEF Exists
  <2>6. HooksInStep'
    BY <1>1, <1>2, <1>6, <2>1, <2>3, <2>4, <2>5 DEF HooksInStep, Exists
  <2> QED
    BY <1>1, <2>2, <2>6, HooksAside DEF syncVars
<1> QED
  BY <1>4, <1>5, <1>6 DEF TakeHooks

LEMMA FinishHooksSettled ==
    ASSUME SettledInv, FinishHooks
    PROVE  SettledInv'
<1>0. TypeOK /\ HooksInStep
  BY DEF SettledInv
<1>1. hooking.pc = "push" /\ hooks' = hooks \ {hooking.block} /\ failed' = failed \ {hooking.block}
      /\ hooking' = Idle /\ checkpoints' = Append(checkpoints, hooking.block)
      /\ UNCHANGED <<blockVars, states, syncVars, status, calls, faults>>
  BY DEF FinishHooks, RemoveHooks
<1>2. hooking.block \in complete
  BY <1>1, Hooking
<1>3. checkpoints' \in Seq(complete)
  BY <1>0, <1>1, <1>2 DEF TypeOK
<1>4. TypeOK'
  BY <1>0, <1>1, <1>3, IdleTyped, HooksTyped DEF TypeOK, syncVars
<1>5. Settled' = Settled
  BY <1>1 DEF Settled, blockVars
<1>6. HooksInStep'
  BY <1>0, <1>1, <1>5 DEF HooksInStep, Idle
<1> QED
  BY <1>1, <1>4, <1>6, HooksAside DEF syncVars

LEMMA HooksFailSettled ==
    ASSUME SettledInv, HooksFail
    PROVE  SettledInv'
<1>0. TypeOK /\ HooksInStep
  BY DEF SettledInv
<1>1. hooking # Idle /\ failed' = failed \cup {hooking.block} /\ hooking' = Idle
      /\ UNCHANGED <<blockVars, states, syncVars, status, hooks, checkpoints, calls>>
  BY DEF HooksFail
<1>2. hooking.block \in hooks
  BY <1>0, <1>1 DEF HooksInStep
<1>3. faults' \in 0..MaxFaults
  BY <1>0, StateSyncAssumption DEF HooksFail, TypeOK
<1>4. TypeOK'
  BY <1>0, <1>1, <1>2, <1>3, IdleTyped, HooksTyped DEF TypeOK, syncVars
<1>5. Settled' = Settled
  BY <1>1 DEF Settled, blockVars
<1>6. HooksInStep'
  BY <1>0, <1>1, <1>5 DEF HooksInStep, Idle
<1> QED
  BY <1>1, <1>4, <1>6, HooksAside DEF syncVars

LEMMA UpdateIndexedSettled ==
    ASSUME SettledInv, UpdateIndexed
    PROVE  SettledInv'
<1> DEFINE n == Number[hooking.block]
<1>0. TypeOK /\ RowsInOrder /\ HooksInStep /\ IndexedHeights /\ saved \subseteq Block
      /\ indexed \in Nat \cup {-1} /\ firstIndexed \in Nat \cup {-1} /\ complete \subseteq saved
  BY DEF SettledInv, TypeOK
<1>1. /\ hooking.pc = "status"
      /\ hooking' = [hooking EXCEPT !.pc = "push"]
      /\ UNCHANGED <<blockVars, states, checkpointed, status, hooks, failed, checkpoints,
                     calls, faults>>
      /\ firstIndexed' = IF HasStatus THEN firstIndexed ELSE n
  BY DEF UpdateIndexed
<1>2. /\ hooking.block \in complete /\ hooking.block \in hooks
      /\ n \in Nat /\ Number[canonical] \in Nat /\ n < Number[canonical]
      /\ Number[Root] \in Nat /\ Number[Root] <= n
  BY <1>1, Hooking
<1>3. HasStatus => indexed = n - 1
  BY <1>0, <1>1 DEF HooksInStep
<1> HIDE DEF n
<1>4. indexed' = n
  <2>1. indexed' = Max({indexed, n})
    BY DEF UpdateIndexed, n
  <2> QED
    BY <1>0, <1>2, <1>3, <2>1, MaxOfTwo DEF HasStatus
<1>5. hooking \in HooksJob /\ hooking' \in HooksJob /\ hooking'.block = hooking.block
      /\ hooking'.pc = "push"
  BY <1>0, <1>1 DEF TypeOK, HooksJob
<1>6. TypeOK'
  <2>1. {indexed', firstIndexed'} \subseteq Nat \cup {-1}
    BY <1>0, <1>1, <1>2, <1>4
  <2> QED
    BY <1>0, <1>1, <1>2, <1>5, <2>1, HooksTyped DEF TypeOK
<1>7. UNCHANGED <<saved, complete, canonical, current>> /\ Settled' = Settled /\ HasStatus'
  BY <1>1, <1>2, <1>4 DEF Settled, blockVars, HasStatus
<1>8. RowsInOrder' /\ Window'
  BY <1>7 DEF SettledInv, RowsInOrder, Window
<1>9. IndexedHeights'
  <2>1. Root \in complete
    BY <1>0, <1>2, SettledBlocks
  <2> QED
    BY <1>0, <1>1, <1>2, <1>3, <1>4, <1>7, <2>1 DEF IndexedHeights
<1>10. FoundStays'
  BY <1>1 DEF SettledInv, FoundStays, Exists
<1>11. HooksInStep'
  <2>1. \A x \in saved, c \in Contract : Number[x] = n => ~Exists(x, c, "diff_staged")
    BY <1>0, <1>1 DEF HooksInStep, n
  <2>2. \A x \in saved', c \in Contract :
           Number[x] = Number[hooking'.block] => ~Exists(x, c, "diff_staged")'
    BY <1>1, <1>5, <1>7, <2>1 DEF Exists, n
  <2> QED
    BY <1>0, <1>1, <1>5, <1>7, <2>2 DEF HooksInStep
<1>12. OwnDiffs'
  BY <1>1, <1>7 DEF SettledInv, OwnDiffs, Exists, Changed, Started
<1>13. NothingLost'
  BY <1>1, <1>7 DEF SettledInv, NothingLost, Exists, Changed, Started
<1>14. StagedRemoved'
  <2> SUFFICES ASSUME NEW x \in saved, NEW c \in Contract,
                      firstIndexed' <= Number[x], Number[x] <= n, Number[x] \in Nat
               PROVE  ~Exists(x, c, "diff_staged")
    BY <1>0, <1>1, <1>4, <1>7, NumberTyped DEF StagedRemoved, Indexed, Exists
  <2>1. CASE Number[x] = n
    BY <1>0, <1>1, <2>1 DEF HooksInStep, n
  <2>2. CASE Number[x] # n
    <3>1. HasStatus /\ firstIndexed <= Number[x] /\ Number[x] <= indexed
      BY <1>0, <1>1, <1>2, <1>3, <2>2
    <3> QED
      BY <1>0, <3>1 DEF SettledInv, StagedRemoved, Indexed
  <2> QED
    BY <2>1, <2>2
<1> QED
  BY <1>6, <1>8, <1>9, <1>10, <1>11, <1>12, <1>13, <1>14 DEF SettledInv

LEMMA CreateDiffSettled ==
    ASSUME SettledInv, NEW c \in Contract, CreateDiff(c)
    PROVE  SettledInv'
<1> PICK b : b = hooking.block
  OBVIOUS
<1>0. TypeOK /\ HooksInStep /\ OwnDiffs /\ saved \subseteq Block /\ complete \subseteq saved
      /\ states \in [Key -> Data \cup {NoState}] /\ status \in [Contract -> [Kind -> Nat]]
      /\ \A e \in Key : states[e] # NoState => e[1] \in saved
  BY DEF SettledInv, TypeOK
<1>1. /\ hooking.pc = "diffs" /\ c \in hooking.todo
      /\ states' = SaveState(states, status[c]["diff"] = Number[b], b, c, "diff",
                             states[<<b, c, "diff_staged">>])
      /\ status' = [status EXCEPT ![c]["diff"] = Number[b]]
      /\ hooking' = [hooking EXCEPT !.todo = @ \ {c}]
      /\ UNCHANGED <<blockVars, syncVars, hooks, failed, checkpoints, calls, faults>>
  BY DEF CreateDiff
<1>2. /\ b \in hooks /\ b \in Settled /\ b \in complete /\ b \in saved /\ b \in Block
      /\ Number[b] \in Nat
  BY <1>1, Hooking
<1>3. Exists(b, c, "diff_staged") /\ states[<<b, c, "diff_staged">>] = {b} /\ c \in Changed(b)
  BY <1>0, <1>1, <1>2 DEF HooksInStep, OwnDiffs
<1>4. <<b, c, "diff">> \in Key /\ {b} # NoState /\ {b} \in Data
  BY <1>2, KeyTyped, StateSyncAssumption DEF Kind, Data
<1>5. states' = [states EXCEPT ![<<b, c, "diff">>] = {b}]
  <2>1. states[<<b, c, "diff">>] # NoState => states[<<b, c, "diff">>] = {b}
    BY <1>0, <1>2 DEF OwnDiffs, Exists
  <2> QED
    BY <1>1, <1>3, <2>1 DEF SaveState
<1>6. \A e \in Key : states'[e] = IF e = <<b, c, "diff">> THEN {b} ELSE states[e]
  BY <1>0, <1>5
<1>7. \A x \in Block, d \in Contract :
         /\ states'[<<x, d, "diff">>] =
               IF x = b /\ d = c THEN {b} ELSE states[<<x, d, "diff">>]
         /\ states'[<<x, d, "diff_staged">>] = states[<<x, d, "diff_staged">>]
         /\ states'[<<x, d, "checkpoint">>] = states[<<x, d, "checkpoint">>]
  BY <1>6 DEF Key, Kind
<1>8. hooking' \in HooksJob /\ hooking'.block = b /\ hooking'.pc = "diffs"
      /\ hooking'.todo = hooking.todo \ {c}
  BY <1>0, <1>1 DEF TypeOK, HooksJob
<1>9. TypeOK'
  <2>1. states' \in [Key -> Data \cup {NoState}]
    BY <1>0, <1>4, <1>5
  <2>2. \A e \in Key : states'[e] # NoState => e[1] \in saved
    BY <1>0, <1>2, <1>6
  <2>3. status' \in [Contract -> [Kind -> Nat]]
    BY <1>0, <1>1, <1>2 DEF Kind
  <2> QED
    BY <1>0, <1>1, <1>2, <1>8, <2>1, <2>2, <2>3, HooksTyped DEF TypeOK, syncVars
<1>10. UNCHANGED <<saved, complete, canonical, current, indexed, firstIndexed>>
       /\ Settled' = Settled /\ (HasStatus' <=> HasStatus)
  BY <1>1 DEF Settled, blockVars, syncVars, HasStatus
<1>11. RowsInOrder' /\ Window' /\ IndexedHeights'
  BY <1>10 DEF SettledInv, RowsInOrder, Window, IndexedHeights
<1>12. FoundStays'
  <2>1. \A x \in complete, d \in Contract :
           Exists(x, d, "checkpoint") => Exists(x, d, "checkpoint")'
    BY <1>0, <1>7 DEF Exists
  <2> QED
    BY <1>0, <1>1, <2>1, FoundKept DEF SettledInv
<1>13. \A x \in saved, d \in Contract :
          /\ Exists(x, d, "diff_staged")' <=> Exists(x, d, "diff_staged")
          /\ Exists(x, d, "diff")' <=> Exists(x, d, "diff") \/ (x = b /\ d = c)
  BY <1>0, <1>4, <1>7 DEF Exists
<1>14. HooksInStep'
  <2>1. \A d \in Contract :
           IF d \in hooking'.todo THEN Exists(b, d, "diff_staged")'
           ELSE Exists(b, d, "diff_staged")' => Exists(b, d, "diff")'
    BY <1>0, <1>1, <1>2, <1>8, <1>13 DEF HooksInStep
  <2>2. \A d \in Contract :
           IF d \in hooking'.todo THEN Exists(hooking.block, d, "diff_staged")'
           ELSE Exists(hooking.block, d, "diff_staged")' => Exists(hooking.block, d, "diff")'
    BY <1>8, <2>1 DEF Exists
  <2> QED
    BY <1>0, <1>1, <1>8, <1>10, <2>2 DEF HooksInStep
<1>15. OwnDiffs'
  <2> SUFFICES ASSUME NEW x \in saved, NEW d \in Contract
               PROVE  /\ Exists(x, d, "diff_staged")' =>
                             states'[<<x, d, "diff_staged">>] = {x} /\ d \in Changed(x)
                      /\ Exists(x, d, "diff")' =>
                             states'[<<x, d, "diff">>] = {x} /\ d \in Changed(x) /\ x \in Settled
    BY <1>10 DEF OwnDiffs, Changed, Started
  <2>1. x \in Block /\ (Exists(x, d, "diff_staged")' <=> Exists(x, d, "diff_staged"))
        /\ (Exists(x, d, "diff")' <=> Exists(x, d, "diff") \/ (x = b /\ d = c))
    BY <1>0, <1>13
  <2>2. states'[<<x, d, "diff_staged">>] = states[<<x, d, "diff_staged">>]
        /\ states'[<<x, d, "diff">>] = IF x = b /\ d = c THEN {b} ELSE states[<<x, d, "diff">>]
    BY <1>7, <2>1
  <2> QED
    BY <1>0, <1>2, <1>3, <2>1, <2>2 DEF OwnDiffs
<1>16. NothingLost'
  BY <1>0, <1>10, <1>13 DEF SettledInv, NothingLost, Changed, Started
<1>17. StagedRemoved'
  BY <1>10, <1>13 DEF SettledInv, StagedRemoved, Indexed
<1> QED
  BY <1>9, <1>11, <1>12, <1>14, <1>15, <1>16, <1>17 DEF SettledInv

LEMMA RemoveStagedSettled ==
    ASSUME SettledInv, RemoveStaged
    PROVE  SettledInv'
<1> PICK b : b = hooking.block
  OBVIOUS
<1>0. TypeOK /\ HooksInStep /\ OwnDiffs /\ NothingLost
      /\ saved \subseteq Block /\ complete \subseteq saved /\ canonical \in Block
      /\ states \in [Key -> Data \cup {NoState}]
      /\ \A e \in Key : states[e] # NoState => e[1] \in saved
  BY DEF SettledInv, TypeOK
<1>1. /\ hooking.pc = "diffs" /\ hooking.todo = {}
      /\ states' = [e \in Key |-> IF Number[e[1]] = Number[b] /\ e[3] = "diff_staged"
                                  THEN NoState ELSE states[e]]
      /\ hooking' = [hooking EXCEPT !.pc = "status"]
      /\ UNCHANGED <<blockVars, syncVars, status, hooks, failed, checkpoints, calls, faults>>
  BY DEF RemoveStaged, Removed
<1>2. /\ b \in hooks /\ b \in Settled /\ b \in complete /\ b \in saved /\ b \in Block
      /\ Number[b] \in Nat /\ Number[canonical] \in Nat /\ Number[b] < Number[canonical]
  BY <1>1, Hooking
<1>3. \A x \in Block, d \in Contract :
         /\ states'[<<x, d, "diff">>] = states[<<x, d, "diff">>]
         /\ states'[<<x, d, "diff_staged">>] =
               IF Number[x] = Number[b] THEN NoState ELSE states[<<x, d, "diff_staged">>]
         /\ states'[<<x, d, "checkpoint">>] = states[<<x, d, "checkpoint">>]
  BY <1>1 DEF Key, Kind
<1>4. hooking' \in HooksJob /\ hooking'.block = b /\ hooking'.pc = "status"
  BY <1>0, <1>1 DEF TypeOK, HooksJob
<1>5. TypeOK'
  <2>1. states' \in [Key -> Data \cup {NoState}]
    BY <1>0, <1>1
  <2>2. \A e \in Key : states'[e] # NoState => e[1] \in saved
    BY <1>0, <1>1
  <2> QED
    BY <1>0, <1>1, <1>2, <1>4, <2>1, <2>2, HooksTyped DEF TypeOK, syncVars
<1>6. UNCHANGED <<saved, complete, canonical, current, indexed, firstIndexed>>
      /\ Settled' = Settled /\ (HasStatus' <=> HasStatus)
  BY <1>1 DEF Settled, blockVars, syncVars, HasStatus
<1>7. RowsInOrder' /\ Window' /\ IndexedHeights'
  BY <1>6 DEF SettledInv, RowsInOrder, Window, IndexedHeights
<1>8. FoundStays'
  <2>1. \A x \in complete, d \in Contract :
           Exists(x, d, "checkpoint") => Exists(x, d, "checkpoint")'
    BY <1>0, <1>3 DEF Exists
  <2> QED
    BY <1>0, <1>1, <2>1, FoundKept DEF SettledInv
<1>9. \A x \in saved, d \in Contract :
         /\ Exists(x, d, "diff_staged")' <=> Exists(x, d, "diff_staged") /\ Number[x] # Number[b]
         /\ Exists(x, d, "diff")' <=> Exists(x, d, "diff")
  BY <1>0, <1>3 DEF Exists
<1>10. HooksInStep'
  <2>1. HasStatus => indexed = Number[b] - 1
    BY <1>0, <1>1 DEF HooksInStep
  <2>2. \A x \in saved, d \in Contract : Number[x] = Number[b] => ~Exists(x, d, "diff_staged")'
    BY <1>9
  <2> QED
    BY <1>0, <1>1, <1>2, <1>4, <1>6, <2>1, <2>2 DEF HooksInStep
<1>11. OwnDiffs'
  <2> SUFFICES ASSUME NEW x \in saved, NEW d \in Contract
               PROVE  /\ Exists(x, d, "diff_staged")' =>
                             states'[<<x, d, "diff_staged">>] = {x} /\ d \in Changed(x)
                      /\ Exists(x, d, "diff")' =>
                             states'[<<x, d, "diff">>] = {x} /\ d \in Changed(x) /\ x \in Settled
    BY <1>6 DEF OwnDiffs, Changed, Started
  <2>1. x \in Block /\ (Exists(x, d, "diff_staged")' => Exists(x, d, "diff_staged"))
        /\ (Exists(x, d, "diff_staged")' => Number[x] # Number[b])
        /\ (Exists(x, d, "diff")' <=> Exists(x, d, "diff"))
    BY <1>0, <1>9
  <2>2. (Number[x] # Number[b] => states'[<<x, d, "diff_staged">>] = states[<<x, d, "diff_staged">>])
        /\ states'[<<x, d, "diff">>] = states[<<x, d, "diff">>]
    BY <1>3, <2>1
  <2> QED
    BY <1>0, <2>1, <2>2 DEF OwnDiffs
<1>12. NothingLost'
  <2> SUFFICES ASSUME NEW x \in complete, NEW d \in Changed(x),
                      Number[x] >= Number[canonical] \/ x \in Settled,
                      HasStatus => firstIndexed <= Number[x]
               PROVE  Exists(x, d, "diff_staged")' \/ Exists(x, d, "diff")'
    BY <1>6 DEF NothingLost, Changed, Started
  <2>0. x \in saved /\ d \in Contract /\ Number[x] \in Nat
    BY <1>0, NumberTyped DEF Changed, Started
  <2>1. Exists(x, d, "diff_staged") \/ Exists(x, d, "diff")
    BY <1>0 DEF NothingLost
  <2>2. CASE Number[x] # Number[b]
    BY <1>9, <2>0, <2>1, <2>2
  <2>3. CASE Number[x] = Number[b]
    <3>1. x \in Settled
      BY <1>2, <2>0, <2>3
    <3>2. x = b
      BY <1>0, <1>2, <2>3, <3>1, OneAncestorPerHeight DEF Settled
    <3>3. Exists(x, d, "diff")
      BY <1>0, <1>1, <2>0, <2>1, <3>2 DEF HooksInStep
    <3> QED
      BY <1>9, <2>0, <3>3
  <2> QED
    BY <2>2, <2>3
<1>13. StagedRemoved'
  BY <1>6, <1>9 DEF SettledInv, StagedRemoved, Indexed
<1> QED
  BY <1>5, <1>7, <1>8, <1>10, <1>11, <1>12, <1>13 DEF SettledInv

-------------------------------------------------------------------------------
(* The initial states, and the theorem.                                     *)

LEMMA InitSettled ==
    ASSUME Init
    PROVE  SettledInv
<1>0. /\ pruned = {} /\ canonical = Root /\ current = NoBlock
      /\ hooks = {} /\ failed = {} /\ hooking = Idle /\ checkpoints = <<>>
      /\ calls = [i \in Caller |-> NoCall] /\ faults = 0
  BY DEF Init
<1>1. Settled = {} /\ Root \in Block /\ Number[Root] \in Nat \ {0}
  BY <1>0, RootAlone, NumberTyped, BlockTreeAssumption DEF Settled
<1>2. CASE NewWatcher
  <2>1. /\ saved = {} /\ complete = {} /\ states = [e \in Key |-> NoState]
        /\ indexed = -1 /\ firstIndexed = -1 /\ checkpointed = -1
        /\ status = [c \in Contract |-> [k \in Kind |-> 0]]
    BY <1>2 DEF NewWatcher
  <2>2. TypeOK
    BY <1>0, <1>1, <2>1, IdleTyped, EmptySeq, StateSyncAssumption DEF TypeOK
  <2>3. ~HasStatus
    BY <2>1 DEF HasStatus
  <2> QED
    BY <1>0, <1>1, <2>1, <2>2, <2>3, IdleTyped
       DEF SettledInv, RowsInOrder, Window, IndexedHeights, HooksInStep, FoundStays, OwnDiffs,
           NothingLost, StagedRemoved, NoCall
<1>3. CASE ImportedWatcher
  <2>1. /\ saved = {Root} /\ complete = {Root}
        /\ states = [e \in Key |->
              IF e[1] = Root /\ e[2] \in Started(Root) /\ e[3] = "checkpoint"
              THEN History(e[2], Root) ELSE NoState]
        /\ indexed = Number[Root] /\ firstIndexed = indexed + 1 /\ checkpointed = indexed
        /\ status = StoredStatus(states, {Root})
    BY <1>3 DEF ImportedWatcher
  <2>2. \A c \in Contract : History(c, Root) \in Data
    BY <1>1, AncestorsTyped DEF History, Data
  <2>3. states \in [Key -> Data \cup {NoState}] /\ \A e \in Key : states[e] # NoState => e[1] \in saved
    BY <2>1, <2>2 DEF Started
  <2>4. status \in [Contract -> [Kind -> Nat]]
    <3>1. \A c \in Contract, k \in Kind :
             HeightOf(Highest({b \in {Root} : states[<<b, c, k>>] # NoState})) \in Nat
      BY <1>1, HeightTyped
    <3> QED
      BY <2>1, <3>1 DEF StoredStatus
  <2>5. TypeOK
    <3>1. {indexed, firstIndexed} \subseteq Nat \cup {-1} /\ checkpointed \in Nat \cup {-1}
      BY <1>1, <2>1
    <3>2. checkpoints \in Seq(complete) /\ faults \in 0..MaxFaults
      BY <1>0, EmptySeq, StateSyncAssumption
    <3>3. calls \in [Caller -> Call] /\ \A i \in Caller : calls[i] = NoCall
      BY <1>0, IdleTyped
    <3> QED
      BY <1>0, <1>1, <2>1, <2>3, <2>4, <3>1, <3>2, <3>3, IdleTyped DEF TypeOK
  <2>6. \A c \in Contract : ~Exists(Root, c, "diff") /\ ~Exists(Root, c, "diff_staged")
    BY <1>1, <2>1 DEF Exists, Key, Kind
  <2>7. RowsInOrder /\ IndexedHeights /\ FoundStays /\ HooksInStep /\ OwnDiffs /\ StagedRemoved
    BY <1>0, <1>1, <2>1, <2>6, IdleTyped
       DEF RowsInOrder, IndexedHeights, HooksInStep, FoundStays, OwnDiffs, StagedRemoved, NoCall
  <2>8. Window
    BY <1>0, <1>1, <2>1, StateSyncAssumption, AncestorsClosed DEF Window
  <2>9. NothingLost
    BY <1>0, <1>1, <2>1 DEF NothingLost, HasStatus
  <2> QED
    BY <2>5, <2>7, <2>8, <2>9 DEF SettledInv
<1> QED
  BY <1>2, <1>3 DEF Init

LEMMA StutterSettled ==
    ASSUME SettledInv, UNCHANGED vars
    PROVE  SettledInv'
<1>1. UNCHANGED <<saved, complete, pruned, canonical, current, states, indexed, firstIndexed,
                  checkpointed, status, hooks, failed, hooking, checkpoints, calls, faults>>
  BY DEF vars, blockVars, syncVars, jobVars
<1>2. TypeOK'
  BY <1>1 DEF SettledInv, TypeOK
<1>3. Settled' = Settled /\ HooksInStep'
  BY <1>1 DEF SettledInv, HooksInStep, Settled, HasStatus, Exists
<1> QED
  BY <1>1, <1>2, <1>3, HooksAside DEF blockVars

LEMMA StepSettled ==
    ASSUME SettledInv, Next
    PROVE  SettledInv'
<1>1. ASSUME HooksWorker
      PROVE  SettledInv'
  BY <1>1, CreateDiffSettled, RemoveStagedSettled, UpdateIndexedSettled, FinishHooksSettled
     DEF HooksWorker
<1>2. ASSUME Crash
      PROVE  SettledInv'
  <2>1. Restart /\ faults' \in 0..MaxFaults
    BY <1>2, StateSyncAssumption DEF Crash, Faulty, SettledInv, TypeOK
  <2> QED
    BY <2>1, RestartSettled
<1> QED
  BY <1>1, <1>2, IndexBlockSettled, CompleteBlockSettled, PruneBlockSettled, TakeHooksSettled,
     TakeCheckpointSettled, StartCommandSettled, CallStepSettled, EventsFailSettled,
     HooksFailSettled DEF Next

LEMMA SettledAtIndexed ==
    ASSUME SettledInv
    PROVE  DiffsFollowCanonical
<1>0. TypeOK /\ RowsInOrder /\ IndexedHeights /\ OwnDiffs /\ NothingLost /\ StagedRemoved
      /\ saved \subseteq Block /\ canonical \in Block
  BY DEF SettledInv, TypeOK
<1> SUFFICES ASSUME HasStatus, NEW b \in saved, NEW c \in Contract
             PROVE  IF b \in Ancestors[canonical] /\ Indexed(b)
                    THEN states[<<b, c, "diff">>] = IF b \in History(c, b) THEN {b} ELSE NoState
                    ELSE Exists(b, c, "diff") => b \in Ancestors[canonical] \ {canonical}
  BY DEF DiffsFollowCanonical
<1>1. b \in History(c, b) <=> c \in Changed(b)
  BY <1>0, AncestorsClosed DEF History, Changed
<1>2. Exists(b, c, "diff") => states[<<b, c, "diff">>] = {b} /\ c \in Changed(b) /\ b \in Settled
  BY <1>0 DEF OwnDiffs
<1>3. ASSUME b \in Ancestors[canonical], Indexed(b), c \in Changed(b)
      PROVE  Exists(b, c, "diff")
  <2>1. b \in complete
    <3>1. canonical \in complete
      BY <1>0 DEF RowsInOrder, IndexedHeights
    <3> QED
      BY <1>0, <1>3, <3>1, SettledBlocks DEF Settled
  <2>2. Number[b] >= Number[canonical] \/ b \in Settled
    BY <1>0, <1>3, NumberTyped DEF Settled
  <2>3. firstIndexed <= Number[b] /\ ~Exists(b, c, "diff_staged")
    BY <1>0, <1>3 DEF Indexed, StagedRemoved
  <2> QED
    BY <1>0, <1>3, <2>1, <2>2, <2>3 DEF NothingLost
<1> QED
  BY <1>1, <1>2, <1>3 DEF Settled, Exists

\* The indexed heights are settled, whatever hooks jobs overtake each other, fail or are
\* lost: each block of the canonical branch there has the diffs of the contracts that its
\* events change, those and no others, and no staged diff is left at these heights
\* (processHooks of packages/util/src/job-runner.ts, finalizeDiffStaged and
\* removeStates of packages/util/src/indexer.ts).
THEOREM IndexedStaysSettled == Spec => []IndexedIsSettled
<1>1. Init => SettledInv
  BY InitSettled
<1>2. SettledInv /\ [Next]_vars => SettledInv'
  BY StepSettled, StutterSettled
<1>3. SettledInv => IndexedIsSettled
  BY SettledAtIndexed DEF SettledInv, IndexedIsSettled
<1> QED
  BY <1>1, <1>2, <1>3, PTL DEF Spec

-------------------------------------------------------------------------------
(* Checkpoints.  What follows holds when no branches part at the height a    *)
(* contract starts at: otherwise its initial state may be on a lost branch.  *)

\* the blocks a contract starts with, one on each branch
FirstOf(c) == {b \in Block : c \in Started(b) /\ (b # Root => c \notin Started(Parent[b]))}

\* there is one such block
StartsUnforked == \A c \in Contract : \A a, b \in FirstOf(c) : a = b

\* the blocks that checkpoints are made for
Done == {b \in Ancestors[canonical] \cap complete : HasStatus /\ Number[b] <= indexed}

\* Up to the canonical height the blocks that are not pruned are its ancestors.
OneBranchUnpruned ==
    /\ \A b \in saved \ pruned : Number[b] <= Number[canonical] => b \in Ancestors[canonical]
    /\ \A p \in pruned : \E b \in Ancestors[canonical] : b # p /\ Number[b] = Number[p]

\* A checkpoint is made of a contract that has started, for a block that is indexed.
CheckpointJobs ==
    /\ hooking.pc = "push" => HasStatus /\ Number[hooking.block] <= indexed
    /\ checkpoints \in Seq(Done)
    /\ \A i \in Caller : calls[i].pc # "idle" =>
          /\ calls[i].block \in Done
          /\ calls[i].todo \subseteq Started(calls[i].block)
          /\ calls[i].pc = "save" => calls[i].contract \in Started(calls[i].block)
    /\ \A b \in saved, c \in Contract : Exists(b, c, "checkpoint") =>
          b \in Done /\ c \in Started(b)

\* The initial state of a contract is empty, and in the first block it has started in,
\* unless that was imported.
InitRows ==
    /\ \A b \in saved, c \in Contract :
          Exists(b, c, "init") => states[<<b, c, "init">>] = {} /\ b \in FirstOf(c)
    /\ \A b \in saved, c \in Contract : b \in FirstOf(c) =>
          Exists(b, c, "init") \/ (b = Root /\ Exists(b, c, "checkpoint"))

\* The status map of the job-runner says whether there is one.
InitKnown ==
    /\ \A b \in saved, c \in Contract : b \in FirstOf(c) => ~NeedsInit(c)
    /\ \A c \in Contract : (\A b \in saved : c \notin Started(b)) => NeedsInit(c)

\* A call that is to save a checkpoint has merged all updates.
MergedData ==
    FromTheStart => \A i \in Caller : calls[i].pc = "save" =>
        calls[i].data = History(calls[i].contract, calls[i].block)

MergeInv ==
    /\ OneBranchUnpruned
    /\ CheckpointJobs
    /\ InitRows
    /\ InitKnown
    /\ MergedData
    /\ CheckpointsMergeDiffs

\* of the blocks up to some height one is the highest
LEMMA HighestExists ==
    ASSUME NEW S \in SUBSET Block, S # {}, NEW n \in Nat, \A b \in S : Number[b] <= n
    PROVE  Highest(S) # {}
<1> DEFINE T == {n - Number[b] : b \in S}
<1>1. T \in SUBSET Nat /\ T # {}
  BY NumberTyped
<1>2. \E x \in T : \A y \in T : <<y, x>> \notin OpToRel(<, Nat)
  <2> HIDE DEF T
  <2> QED
    BY <1>1, NatLessThanWellFounded, WFMin, Zenon
<1>3. PICK x \in T : \A y \in T : ~(y < x)
  <2> HIDE DEF T
  <2> QED
    BY <1>1, <1>2, Zenon DEF OpToRel
<1>4. PICK a \in S : x = n - Number[a]
  BY <1>3
<1>5. ASSUME NEW b \in S
      PROVE  Number[b] <= Number[a]
  <2>1. n - Number[b] \in T
    OBVIOUS
  <2>2. ~(n - Number[b] < n - Number[a])
    BY <1>3, <1>4, <2>1
  <2> QED
    BY <2>2, NumberTyped
<1> QED
  BY <1>5 DEF Highest

\* a contract that has started has a first block, by RootAssumption
LEMMA FirstExists ==
    ASSUME NEW b \in Block, NEW c \in Started(b)
    PROVE  \E a \in Ancestors[b] : a \in FirstOf(c)
<1> DEFINE S == {x \in Ancestors[b] : c \in Started(x)}
<1> SUFFICES ASSUME \A a \in Ancestors[b] : a \notin FirstOf(c) PROVE FALSE
  OBVIOUS
<1>1. Ancestors[b] \subseteq Block /\ b \in Ancestors[b] /\ Ancestors[b] \in ParentClosed
  BY AncestorsTyped, AncestorsClosed
<1>2. S \in ParentClosed
  BY <1>1 DEF ParentClosed, FirstOf
<1>3. Root \in S
  BY <1>1, <1>2, RootAssumption, ClosedHoldsAncestors
<1> QED
  BY <1>1, <1>3 DEF FirstOf

LEMMA FirstBelow ==
    ASSUME StartsUnforked, NEW b \in Block, NEW c \in Started(b), NEW a \in FirstOf(c)
    PROVE  a \in Ancestors[b] /\ Number[a] <= Number[b]
<1>1. a \in Ancestors[b] /\ a \in Block
  BY FirstExists DEF StartsUnforked, Started, FirstOf
<1>2. CASE a = b
  BY <1>2, <1>1, NumberTyped
<1>3. CASE a # b
  BY <1>1, <1>3, AncestorsBelow, NumberTyped
<1> QED
  BY <1>1, <1>2, <1>3

\* the blocks that are done are on one branch
LEMMA DoneTyped ==
    ASSUME SettledInv, NEW b \in Done
    PROVE  /\ b \in complete /\ b \in saved /\ b \in Block /\ b \in Ancestors[canonical]
           /\ canonical \in Block /\ canonical \in complete /\ Root \in complete
           /\ HasStatus /\ indexed \in Nat /\ Number[b] <= indexed
           /\ Number[b] \in Nat /\ Number[Root] \in Nat \ {0} /\ Number[Root] <= Number[b]
<1>1. b \in complete /\ b \in saved /\ b \in Block /\ canonical \in Block
      /\ HasStatus /\ indexed \in Nat /\ Number[b] <= indexed /\ b \in Ancestors[canonical]
  BY DEF Done, SettledInv, TypeOK, HasStatus
<1>2. Root \in complete /\ canonical \in complete
  BY <1>1 DEF SettledInv, RowsInOrder, IndexedHeights
<1>3. Number[b] \in Nat /\ Number[Root] \in Nat \ {0} /\ Number[Root] <= Number[b]
  BY <1>1, NumberTyped, RootLowest, BlockTreeAssumption
<1> QED
  BY <1>1, <1>2, <1>3

\* the saved blocks have an upper bound
LEMMA SavedBounded ==
    ASSUME SettledInv
    PROVE  \E n \in Nat : \A b \in saved : Number[b] <= n
<1>1. saved \subseteq Block /\ canonical \in Block /\ Window
  BY DEF SettledInv, TypeOK
<1> DEFINE m == Number[canonical] + MaxReorgDepth
<1>2. m \in Nat /\ \A b \in saved : Number[b] \in Nat
  BY <1>1, NumberTyped, StateSyncAssumption
<1>3. CASE \E t \in saved : Number[t] > m
  <2>1. PICK t \in saved : Number[t] > m
    BY <1>3
  <2>2. \A b \in saved : Number[b] <= Number[t]
    BY <1>1, <1>2, <2>1 DEF Window
  <2> QED
    BY <1>2, <2>2
<1>4. CASE \A t \in saved : ~(Number[t] > m)
  BY <1>2, <1>4
<1> QED
  BY <1>3, <1>4

\* a state of the kind in a block that is not pruned is found
LEMMA StateFound ==
    ASSUME SettledInv, NEW c \in Contract, NEW k \in Kind, NEW b \in saved \ pruned,
           Exists(b, c, k)
    PROVE  LatestState(c, k, AnyHeight) # {}
<1> DEFINE S == {x \in saved \ pruned : Exists(x, c, k)}
<1>1. S \in SUBSET Block /\ S # {}
  BY DEF SettledInv, TypeOK
<1>2. Highest(S) # {}
  <2>1. PICK n \in Nat : \A x \in saved : Number[x] <= n
    BY SavedBounded
  <2> QED
    BY <1>1, <2>1, HighestExists
<1> QED
  BY <1>2 DEF LatestState, AnyHeight

LEMMA HeightOfFound ==
    ASSUME NEW S \in SUBSET Block, S # {}
    PROVE  HeightOf(S) \in Nat \ {0}
<1>1. (CHOOSE b \in S : TRUE) \in S
  OBVIOUS
<1> QED
  BY <1>1, NumberTyped DEF HeightOf

\* of two ancestors of a block the lower one is an ancestor of the other
LEMMA LowerIsBelow ==
    ASSUME NEW h \in Block, NEW x \in Ancestors[h], NEW y \in Ancestors[h],
           Number[x] <= Number[y]
    PROVE  x \in Ancestors[y]
<1>1. x \in Block /\ y \in Block /\ Number[x] \in Nat /\ Number[y] \in Nat
  BY AncestorsTyped, NumberTyped
<1>2. CASE Number[x] = Number[y]
  BY <1>1, <1>2, OneAncestorPerHeight, AncestorsClosed
<1>3. CASE Number[x] # Number[y]
  <2>1. y \notin Ancestors[x]
    BY <1>1, <1>3, AncestorsBelow
  <2> QED
    BY <2>1, AncestorsLinear DEF OnOneBranch
<1> QED
  BY <1>2, <1>3

\* the updates at the indexed heights have their diffs, in blocks that are not pruned
LEMMA UpdateHasDiff ==
    ASSUME SettledInv, OneBranchUnpruned, NEW b \in Done, NEW y \in Ancestors[b],
           NEW c \in Changed(y), firstIndexed <= Number[y]
    PROVE  y \in saved \ pruned /\ states[<<y, c, "diff">>] = {y} /\ Exists(y, c, "diff")
<1>1. /\ b \in Block /\ b \in Ancestors[canonical] /\ canonical \in Block
      /\ canonical \in complete /\ HasStatus /\ indexed \in Nat
      /\ Number[b] \in Nat /\ Number[b] <= indexed
  BY DoneTyped
<1>2. y \in Ancestors[canonical] /\ y \in Block /\ Number[y] <= Number[b]
  <2>1. y \in Ancestors[canonical] /\ y \in Block
    BY <1>1, AncestorsTransitive, AncestorsTyped
  <2>2. y = b \/ Number[y] < Number[b]
    BY <1>1, AncestorsBelow
  <2> QED
    BY <1>1, <2>1, <2>2, NumberTyped
<1>3. y \in saved
  BY <1>1, <1>2, SettledBlocks DEF SettledInv, Settled, TypeOK
<1>4. y \notin pruned
  <2> SUFFICES ASSUME y \in pruned PROVE FALSE
    OBVIOUS
  <2>1. PICK x \in Ancestors[canonical] : x # y /\ Number[x] = Number[y]
    BY DEF OneBranchUnpruned
  <2> QED
    BY <1>1, <1>2, <2>1, OneAncestorPerHeight
<1>5. Indexed(y)
  BY <1>1, <1>2, NumberTyped DEF Indexed, SettledInv, TypeOK
<1>6. c \in Contract /\ y \in History(c, y)
  BY <1>2, AncestorsClosed DEF Changed, Started, History
<1>7. states[<<y, c, "diff">>] = {y}
  BY <1>1, <1>2, <1>3, <1>5, <1>6, SettledAtIndexed DEF DiffsFollowCanonical
<1>8. {y} # NoState
  BY <1>2, StateSyncAssumption
<1> QED
  BY <1>3, <1>4, <1>7, <1>8 DEF Exists

\* a diff at these heights is an update
LEMMA DiffIsUpdate ==
    ASSUME SettledInv, NEW b \in Done, NEW y \in saved, NEW c \in Contract,
           Exists(y, c, "diff"), Number[y] <= Number[b]
    PROVE  states[<<y, c, "diff">>] = {y} /\ c \in Changed(y) /\ y \in Ancestors[b]
<1>1. states[<<y, c, "diff">>] = {y} /\ c \in Changed(y) /\ y \in Settled
  BY DEF SettledInv, OwnDiffs
<1>2. b \in Ancestors[canonical] /\ canonical \in Block
  BY DoneTyped
<1> QED
  BY <1>1, <1>2, LowerIsBelow DEF Settled

\* what createCheckpoint reads is the history of the contract, whichever base it finds
LEMMA DiffsInRangeAre ==
    ASSUME SettledInv, OneBranchUnpruned, NEW b \in Done, NEW c \in Contract,
           NEW from \in Int, firstIndexed <= from + 1
    PROVE  DiffsInRange(c, from, Number[b]) = {y \in History(c, b) : from < Number[y]}
<1>0. b \in Block /\ Number[b] \in Nat
  BY DoneTyped
<1>1. ASSUME NEW x \in DiffsInRange(c, from, Number[b])
      PROVE  x \in History(c, b) /\ from < Number[x]
  <2>1. PICK y \in saved \ pruned : /\ Exists(y, c, "diff")
                                    /\ from < Number[y] /\ Number[y] <= Number[b]
                                    /\ x \in states[<<y, c, "diff">>]
    BY <1>1 DEF DiffsInRange
  <2>2. states[<<y, c, "diff">>] = {y} /\ c \in Changed(y) /\ y \in Ancestors[b]
    BY <2>1, DiffIsUpdate
  <2> QED
    BY <2>1, <2>2 DEF History, Changed
<1>2. ASSUME NEW y \in History(c, b), from < Number[y]
      PROVE  y \in DiffsInRange(c, from, Number[b])
  <2>1. y \in Ancestors[b] /\ c \in Changed(y) /\ y \in Block
    BY <1>0, AncestorsTyped DEF History, Changed
  <2>2. firstIndexed <= Number[y]
    BY <1>2, <2>1, NumberTyped DEF SettledInv, TypeOK
  <2>3. y \in saved \ pruned /\ states[<<y, c, "diff">>] = {y} /\ Exists(y, c, "diff")
    BY <2>1, <2>2, UpdateHasDiff
  <2>4. Number[y] <= Number[b]
    <3>1. y = b \/ Number[y] < Number[b]
      BY <1>0, <2>1, AncestorsBelow
    <3> QED
      BY <1>0, <2>1, <3>1, NumberTyped
  <2> QED
    BY <1>2, <2>3, <2>4 DEF DiffsInRange
<1> QED
  BY <1>1, <1>2

LEMMA LatestStateTyped ==
    ASSUME NEW c, NEW k, NEW n, NEW a \in LatestState(c, k, n)
    PROVE  a \in saved \ pruned /\ Exists(a, c, k) /\ (n # AnyHeight => Number[a] <= n)
BY DEF LatestState, Highest

LEMMA MergedIsHistory ==
    ASSUME Number[Root] > 1, StartsUnforked, SettledInv, MergeInv, FromTheStart,
           NEW b \in Done, NEW c \in Started(b), HasBase(c, b)
    PROVE  Merged(c, b) = History(c, b)
<1>0. /\ b \in Block /\ Number[b] \in Nat /\ Number[Root] <= Number[b] /\ c \in Contract
      /\ Number[Root] \in Nat /\ b \in Ancestors[canonical] /\ canonical \in Block
      /\ firstIndexed \in Int
  BY DoneTyped DEF Started, SettledInv, TypeOK
<1> DEFINE before == LatestState(c, "checkpoint", Number[b] - 1)
           init   == LatestState(c, "init", AnyHeight)
           base   == IF before # {} THEN before ELSE init
           a      == CHOOSE x \in base : TRUE
<1>1. a \in base
  BY DEF HasBase
<1>2. CASE before # {}
  <2>1. a \in saved /\ Exists(a, c, "checkpoint") /\ Number[a] <= Number[b] - 1
    <3>1. a \in LatestState(c, "checkpoint", Number[b] - 1)
      BY <1>1, <1>2
    <3>2. Number[b] - 1 # AnyHeight
      BY <1>0 DEF AnyHeight
    <3> HIDE DEF a
    <3> QED
      BY <3>1, <3>2, LatestStateTyped
  <2>2. states[<<a, c, "checkpoint">>] = History(c, a) /\ a \in Done
    <3> HIDE DEF a
    <3> QED
      BY <1>0, <2>1 DEF MergeInv, CheckpointsMergeDiffs, CheckpointJobs
  <2>3. Merged(c, b) = states[<<a, c, "checkpoint">>] \cup DiffsInRange(c, Number[a], Number[b])
    BY <1>2 DEF Merged
  <2> HIDE DEF a, before, init
  <2>4. /\ a \in Block /\ Number[a] \in Nat /\ Number[Root] <= Number[a]
        /\ a \in Ancestors[canonical]
    BY <2>2, DoneTyped
  <2>5. a \in Ancestors[b]
    BY <1>0, <2>1, <2>4, LowerIsBelow
  <2>6. firstIndexed <= Number[a] + 1
    BY <1>0, <2>4 DEF FromTheStart
  <2>7. DiffsInRange(c, Number[a], Number[b]) = {y \in History(c, b) : Number[a] < Number[y]}
    BY <1>0, <2>4, <2>6, DiffsInRangeAre DEF MergeInv
  <2>8. History(c, a) \subseteq History(c, b)
    BY <1>0, <2>5, AncestorsTransitive DEF History
  <2>9. ASSUME NEW y \in History(c, b), ~(Number[a] < Number[y])
        PROVE  y \in History(c, a)
    <3>1. y \in Ancestors[b] /\ y \in Block
      BY <1>0, AncestorsTyped DEF History
    <3>2. Number[y] <= Number[a]
      BY <2>4, <2>9, <3>1, NumberTyped
    <3>3. y \in Ancestors[a]
      BY <1>0, <2>5, <3>1, <3>2, LowerIsBelow
    <3> QED
      BY <3>3 DEF History
  <2> QED
    BY <2>2, <2>3, <2>7, <2>8, <2>9
<1>3. CASE before = {}
  <2>1. a \in saved /\ Exists(a, c, "init")
    <3>1. a \in LatestState(c, "init", AnyHeight)
      BY <1>1, <1>3
    <3> HIDE DEF a
    <3> QED
      BY <3>1, LatestStateTyped
  <2>2. states[<<a, c, "init">>] = {} /\ a \in FirstOf(c)
    <3> HIDE DEF a
    <3> QED
      BY <1>0, <2>1 DEF MergeInv, InitRows
  <2>3. Merged(c, b) = states[<<a, c, "init">>] \cup DiffsInRange(c, Number[a] - 1, Number[b])
    BY <1>3 DEF Merged
  <2> HIDE DEF a, before, init
  <2>4. a \in Block /\ Number[a] \in Nat /\ a \in Ancestors[b] /\ Number[Root] <= Number[a]
    BY <1>0, <2>2, FirstBelow, NumberTyped, RootLowest DEF FirstOf
  <2>5. firstIndexed <= Number[a] - 1 + 1
    <3>1. CASE a = Root
      BY <1>0, <2>1, <3>1 DEF FromTheStart
    <3>2. CASE a # Root
      <4>1. Number[Root] < Number[a]
        BY <2>4, <3>2, RootLowest
      <4> QED
        BY <1>0, <2>4, <4>1 DEF FromTheStart
    <3> QED
      BY <3>1, <3>2
  <2>6. DiffsInRange(c, Number[a] - 1, Number[b])
            = {y \in History(c, b) : Number[a] - 1 < Number[y]}
    BY <1>0, <2>4, <2>5, DiffsInRangeAre DEF MergeInv
  <2>7. ASSUME NEW y \in History(c, b)
        PROVE  Number[a] - 1 < Number[y]
    <3>1. y \in Block /\ c \in Started(y)
      BY <1>0, AncestorsTyped DEF History
    <3>2. Number[a] <= Number[y]
      BY <2>2, <3>1, FirstBelow
    <3> QED
      BY <2>4, <3>1, <3>2, NumberTyped
  <2> QED
    BY <2>2, <2>3, <2>6, <2>7
<1> QED
  BY <1>2, <1>3

-------------------------------------------------------------------------------
(* What the steps change of it.                                             *)

\* without a sync status no checkpoint has been made, and none is being made
LEMMA NothingDone ==
    ASSUME SettledInv, MergeInv, ~HasStatus
    PROVE  /\ Done = {}
           /\ \A i \in Caller : calls[i].pc = "idle"
           /\ \A b \in saved, c \in Contract : ~Exists(b, c, "checkpoint")
<1>1. Done = {}
  BY DEF Done
<1> QED
  BY <1>1 DEF MergeInv, CheckpointJobs

LEMMA SameDone ==
    ASSUME UNCHANGED <<complete, canonical, indexed>>
    PROVE  Done' = Done
BY DEF Done, HasStatus

\* what was done stays done while the canonical block and the indexed height go up
LEMMA DoneGrows ==
    ASSUME TypeOK, TypeOK', complete \subseteq complete', canonical \in Ancestors[canonical'],
           indexed <= indexed'
    PROVE  Done \subseteq Done'
<1> SUFFICES ASSUME NEW b \in Done PROVE b \in Done'
  OBVIOUS
<1>1. b \in Ancestors[canonical] /\ b \in complete /\ b \in Block /\ indexed >= 0
      /\ Number[b] <= indexed /\ canonical' \in Block /\ indexed \in Int /\ indexed' \in Int
  BY DEF Done, TypeOK, HasStatus
<1>2. b \in Ancestors[canonical']
  BY <1>1, AncestorsTransitive
<1>3. indexed' >= 0 /\ Number[b] <= indexed'
  BY <1>1, NumberTyped
<1> QED
  BY <1>1, <1>2, <1>3 DEF Done, HasStatus

LEMMA SeqOfMore ==
    ASSUME NEW S, NEW T, S \subseteq T, NEW s \in Seq(S)
    PROVE  s \in Seq(T)
OBVIOUS

\* steps that leave the calls, the checkpoints and the initial states alone
LEMMA MergeAside ==
    ASSUME SettledInv, MergeInv,
           saved' = saved, calls' = calls,
           Done \subseteq Done',
           \A b \in saved, c \in Contract, k \in {"init", "checkpoint"} :
               states'[<<b, c, k>>] = states[<<b, c, k>>],
           HasStatus => firstIndexed' = firstIndexed,
           OneBranchUnpruned', InitKnown',
           checkpoints' \in Seq(Done'),
           hooking'.pc = "push" => HasStatus' /\ Number[hooking'.block] <= indexed'
    PROVE  MergeInv'
<1>1. \A b \in saved, c \in Contract, k \in {"init", "checkpoint"} :
         Exists(b, c, k)' <=> Exists(b, c, k)
  BY DEF Exists
<1>2. CheckpointJobs'
  <2>1. \A i \in Caller : calls'[i].pc # "idle" =>
           /\ calls'[i].block \in Done'
           /\ calls'[i].todo \subseteq Started(calls'[i].block)
           /\ calls'[i].pc = "save" => calls'[i].contract \in Started(calls'[i].block)
    BY DEF MergeInv, CheckpointJobs
  <2>2. \A b \in saved', c \in Contract : Exists(b, c, "checkpoint")' =>
           b \in Done' /\ c \in Started(b)
    BY <1>1 DEF MergeInv, CheckpointJobs
  <2> QED
    BY <2>1, <2>2 DEF CheckpointJobs, Started
<1>3. InitRows'
  <2>1. \A b \in saved, c \in Contract :
           Exists(b, c, "init")' => states'[<<b, c, "init">>] = {} /\ b \in FirstOf(c)
    BY <1>1 DEF MergeInv, InitRows
  <2>2. \A b \in saved, c \in Contract : b \in FirstOf(c) =>
           Exists(b, c, "init")' \/ (b = Root /\ Exists(b, c, "checkpoint")')
    BY <1>1 DEF MergeInv, InitRows
  <2> QED
    BY <2>1, <2>2 DEF InitRows, FirstOf, Started
<1>4. HasStatus /\ FromTheStart' => FromTheStart
  <2> SUFFICES ASSUME HasStatus, FromTheStart' PROVE FromTheStart
    OBVIOUS
  <2>1. Root \in saved
    BY DEF SettledInv, IndexedHeights, TypeOK
  <2> QED
    BY <1>1, <2>1 DEF FromTheStart
<1>5. MergedData'
  <2> SUFFICES ASSUME FromTheStart', NEW i \in Caller, calls[i].pc = "save"
               PROVE  calls[i].data = History(calls[i].contract, calls[i].block)
    BY DEF MergedData, History, Started
  <2>1. HasStatus
    BY NothingDone
  <2> QED
    BY <1>4, <2>1 DEF MergeInv, MergedData
<1>6. CheckpointsMergeDiffs'
  <2> SUFFICES ASSUME FromTheStart', NEW b \in saved, NEW c \in Contract, Exists(b, c, "checkpoint")'
               PROVE  states'[<<b, c, "checkpoint">>] = History(c, b)
    BY DEF CheckpointsMergeDiffs, History, Started
  <2>1. Exists(b, c, "checkpoint") /\ states'[<<b, c, "checkpoint">>] = states[<<b, c, "checkpoint">>]
    BY <1>1
  <2>2. HasStatus
    BY <2>1, NothingDone
  <2> QED
    BY <1>4, <2>1, <2>2 DEF MergeInv, CheckpointsMergeDiffs
<1> QED
  BY <1>2, <1>3, <1>5, <1>6 DEF MergeInv

\* steps of the calls
LEMMA CallsAside ==
    ASSUME SettledInv, MergeInv,
           UNCHANGED <<blockVars, indexed, firstIndexed, hooking>>,
           \A b \in saved, c \in Contract : states'[<<b, c, "init">>] = states[<<b, c, "init">>],
           \A b \in saved, c \in Contract :
               Exists(b, c, "checkpoint") => Exists(b, c, "checkpoint")',
           \A b \in saved, c \in Contract :
               \/ states'[<<b, c, "checkpoint">>] = states[<<b, c, "checkpoint">>]
               \/ /\ b \in Done /\ c \in Started(b)
                  /\ FromTheStart => states'[<<b, c, "checkpoint">>] = History(c, b),
           InitKnown', checkpoints' \in Seq(Done),
           \A i \in Caller : calls'[i].pc # "idle" =>
               /\ calls'[i].block \in Done
               /\ calls'[i].todo \subseteq Started(calls'[i].block)
               /\ calls'[i].pc = "save" => calls'[i].contract \in Started(calls'[i].block)
               /\ FromTheStart /\ calls'[i].pc = "save" =>
                      calls'[i].data = History(calls'[i].contract, calls'[i].block)
    PROVE  MergeInv'
<1>0. /\ UNCHANGED <<saved, complete, pruned, canonical>>
      /\ Done' = Done
  BY SameDone DEF blockVars
<1>1. \A b \in saved, c \in Contract : Exists(b, c, "init")' <=> Exists(b, c, "init")
  BY DEF Exists
<1>2. OneBranchUnpruned'
  BY <1>0 DEF MergeInv, OneBranchUnpruned
<1>3. CheckpointJobs'
  <2>1. \A b \in saved', c \in Contract : Exists(b, c, "checkpoint")' =>
           b \in Done /\ c \in Started(b)
    BY <1>0 DEF MergeInv, CheckpointJobs, Exists
  <2>2. hooking'.pc = "push" => HasStatus' /\ Number[hooking'.block] <= indexed'
    BY DEF MergeInv, CheckpointJobs, HasStatus
  <2> QED
    BY <1>0, <2>1, <2>2 DEF CheckpointJobs, Started
<1>4. InitRows'
  BY <1>0, <1>1 DEF MergeInv, InitRows, FirstOf, Started
<1>5. CASE ~HasStatus
  <2>1. Done = {}
    BY <1>5 DEF Done
  <2>2. MergedData' /\ CheckpointsMergeDiffs'
    BY <1>0, <1>3, <2>1 DEF MergedData, CheckpointsMergeDiffs, CheckpointJobs
  <2> QED
    BY <1>2, <1>3, <1>4, <2>2 DEF MergeInv
<1>6. CASE HasStatus
  <2>1. FromTheStart' => FromTheStart
    <3>1. Root \in saved
      BY <1>6 DEF SettledInv, IndexedHeights, TypeOK
    <3> QED
      BY <1>1, <3>1 DEF FromTheStart
  <2>2. MergedData'
    BY <2>1 DEF MergedData, History, Started
  <2>3. CheckpointsMergeDiffs'
    <3> SUFFICES ASSUME FromTheStart, NEW b \in saved, NEW c \in Contract,
                        Exists(b, c, "checkpoint")'
                 PROVE  states'[<<b, c, "checkpoint">>] = History(c, b)
      BY <1>0, <2>1 DEF CheckpointsMergeDiffs, History, Started
    <3>1. CASE states'[<<b, c, "checkpoint">>] = states[<<b, c, "checkpoint">>]
      BY <3>1 DEF MergeInv, CheckpointsMergeDiffs, Exists
    <3>2. CASE states'[<<b, c, "checkpoint">>] # states[<<b, c, "checkpoint">>]
      BY <3>2
    <3> QED
      BY <3>1, <3>2
  <2> QED
    BY <1>2, <1>3, <1>4, <2>2, <2>3 DEF MergeInv
<1> QED
  BY <1>5, <1>6

\* the status map forgets no contract, and knows none that has not started
LEMMA KnownKept ==
    ASSUME InitKnown, saved' = saved,
           \A c \in Contract, k \in {"init", "diff", "checkpoint"} :
               \/ status'[c][k] = status[c][k]
               \/ status'[c][k] # 0 /\ \E b \in saved : c \in Started(b)
    PROVE  InitKnown'
<1>1. \A c \in Contract : ~NeedsInit(c) => ~NeedsInit(c)'
  BY DEF NeedsInit
<1>2. \A c \in Contract : (\A b \in saved : c \notin Started(b)) /\ NeedsInit(c) => NeedsInit(c)'
  BY DEF NeedsInit
<1>3. \A b \in saved', c \in Contract : b \in FirstOf(c) => ~NeedsInit(c)'
  BY <1>1 DEF InitKnown
<1>4. \A c \in Contract : (\A b \in saved' : c \notin Started(b)) => NeedsInit(c)'
  BY <1>2 DEF InitKnown
<1> QED
  BY <1>3, <1>4 DEF InitKnown, FirstOf, Started

\* steps of the events leave staged diffs
LEMMA DumpMerged ==
    ASSUME SettledInv, MergeInv, DumpDiffs, TypeOK',
           UNCHANGED <<saved, pruned, canonical, indexed, firstIndexed, hooking, checkpoints,
                       calls>>,
           complete \subseteq complete'
    PROVE  MergeInv'
<1>0. TypeOK /\ saved \subseteq Block /\ canonical \in Block /\ indexed \in Int
      /\ status \in [Contract -> [Kind -> Nat]]
  BY DEF SettledInv, TypeOK
<1>1. Done \subseteq Done'
  BY <1>0, DoneGrows, AncestorsClosed
<1>2. \A b \in saved, c \in Contract, k \in {"init", "checkpoint"} :
         states'[<<b, c, k>>] = states[<<b, c, k>>]
  BY <1>0 DEF DumpDiffs, Key, Kind
<1>3. OneBranchUnpruned'
  BY DEF MergeInv, OneBranchUnpruned
<1>4. InitKnown'
  <2>1. \A c \in Contract, k \in {"init", "diff", "checkpoint"} : status'[c][k] = status[c][k]
    BY <1>0 DEF DumpDiffs, Kind
  <2> QED
    BY <2>1, KnownKept DEF MergeInv
<1>5. checkpoints' \in Seq(Done')
  BY <1>1, SeqOfMore DEF MergeInv, CheckpointJobs
<1>6. hooking'.pc = "push" => HasStatus' /\ Number[hooking'.block] <= indexed'
  BY DEF MergeInv, CheckpointJobs, HasStatus
<1> QED
  BY <1>1, <1>2, <1>3, <1>4, <1>5, <1>6, MergeAside

LEMMA CompleteBlockMerged ==
    ASSUME SettledInv, SettledInv', MergeInv, CompleteBlock
    PROVE  MergeInv'
<1>1. TypeOK' /\ DumpDiffs /\ complete \subseteq complete'
      /\ UNCHANGED <<saved, pruned, canonical, indexed, firstIndexed, hooking, checkpoints, calls>>
  BY DEF SettledInv, CompleteBlock, syncVars, jobVars
<1> QED
  BY <1>1, DumpMerged

LEMMA EventsFailMerged ==
    ASSUME SettledInv, SettledInv', MergeInv, EventsFail
    PROVE  MergeInv'
<1>1. TypeOK' /\ DumpDiffs /\ complete \subseteq complete'
      /\ UNCHANGED <<saved, pruned, canonical, indexed, firstIndexed, hooking, checkpoints, calls>>
  BY DEF SettledInv, EventsFail, blockVars, syncVars, jobVars
<1> QED
  BY <1>1, DumpMerged

\* a prune job leaves one block at its height
LEMMA PruneBlockMerged ==
    ASSUME SettledInv, SettledInv', MergeInv, PruneBlock
    PROVE  MergeInv'
<1>0. TypeOK /\ TypeOK' /\ saved \subseteq Block /\ complete \subseteq saved
      /\ canonical \in Block /\ indexed \in Int
  BY DEF SettledInv, TypeOK
<1>1. UNCHANGED <<saved, complete, states, indexed, firstIndexed, status, hooking,
                  checkpoints, calls>>
  BY DEF PruneBlock, syncVars
<1> PICK b : b = canonical'
  OBVIOUS
<1>2. /\ b \in complete \ {Root} /\ Parent[b] = canonical
      /\ Number[b] = Number[canonical] + 1
      /\ pruned' = pruned \cup {x \in saved \ pruned : Number[x] = Number[b] /\ x # b}
  <2>1. /\ b \in complete \ {Root} /\ Parent[b] = canonical
        /\ Number[b] = Number[canonical] + 1
    BY PrunedToChild
  <2> QED
    BY <2>1 DEF PruneBlock, AtHeight
<1>3. b \in Block /\ b \in Ancestors[b] /\ canonical \in Ancestors[b]
      /\ Ancestors[canonical] \subseteq Ancestors[b]
  BY <1>0, <1>2, AncestorsClosed, AncestorsTransitive DEF ParentClosed
<1>4. Number[canonical] \in Nat /\ \A x \in saved : Number[x] \in Nat
  BY <1>0, NumberTyped
<1>5. ASSUME NEW x \in saved \ pruned', Number[x] <= Number[b]
      PROVE  x \in Ancestors[b]
  <2>1. CASE Number[x] = Number[b]
    BY <1>2, <1>3, <1>5, <2>1
  <2>2. CASE Number[x] # Number[b]
    <3>1. x \in saved \ pruned /\ Number[x] <= Number[canonical]
      BY <1>2, <1>4, <1>5, <2>2
    <3> QED
      BY <1>3, <3>1 DEF MergeInv, OneBranchUnpruned
  <2> QED
    BY <2>1, <2>2
<1>6. \A p \in pruned' : \E x \in Ancestors[b] : x # p /\ Number[x] = Number[p]
  BY <1>2, <1>3 DEF MergeInv, OneBranchUnpruned
<1>7. OneBranchUnpruned'
  BY <1>1, <1>5, <1>6 DEF OneBranchUnpruned
<1>8. Done \subseteq Done'
  BY <1>0, <1>1, <1>3, DoneGrows
<1>9. InitKnown'
  BY <1>1, KnownKept DEF MergeInv
<1>10. checkpoints' \in Seq(Done')
  BY <1>1, <1>8, SeqOfMore DEF MergeInv, CheckpointJobs
<1>11. hooking'.pc = "push" => HasStatus' /\ Number[hooking'.block] <= indexed'
  BY <1>1 DEF MergeInv, CheckpointJobs, HasStatus
<1> QED
  BY <1>1, <1>7, <1>8, <1>9, <1>10, <1>11, MergeAside

\* steps of the hooks jobs
LEMMA HooksMerged ==
    ASSUME SettledInv, SettledInv', MergeInv, UNCHANGED <<blockVars, calls>>,
           \A b \in saved, c \in Contract, k \in {"init", "checkpoint"} :
               states'[<<b, c, k>>] = states[<<b, c, k>>],
           HasStatus => firstIndexed' = firstIndexed,
           indexed <= indexed', InitKnown', checkpoints' \in Seq(Done'),
           hooking'.pc = "push" => HasStatus' /\ Number[hooking'.block] <= indexed'
    PROVE  MergeInv'
<1>0. UNCHANGED <<saved, complete, pruned, canonical>>
  BY DEF blockVars
<1>1. Done \subseteq Done'
  BY <1>0, DoneGrows, AncestorsClosed DEF SettledInv, TypeOK
<1>2. OneBranchUnpruned'
  BY <1>0 DEF MergeInv, OneBranchUnpruned
<1> QED
  BY <1>0, <1>1, <1>2, MergeAside

LEMMA TakeHooksMerged ==
    ASSUME SettledInv, SettledInv', MergeInv, NEW b \in Block, TakeHooks(b)
    PROVE  MergeInv'
<1>1. UNCHANGED <<blockVars, states, syncVars, status, checkpoints, calls>>
      /\ hooking = Idle /\ (hooking'.pc # "push" \/ hooking' = hooking)
  BY DEF TakeHooks
<1>2. hooking'.pc # "push"
  BY <1>1 DEF Idle
<1>3. UNCHANGED <<saved, complete, canonical, indexed, firstIndexed>>
      /\ indexed <= indexed' /\ Done' = Done
  BY <1>1, SameDone DEF blockVars, syncVars, SettledInv, TypeOK
<1>4. InitKnown' /\ checkpoints' \in Seq(Done')
  BY <1>1, <1>3, KnownKept DEF MergeInv, CheckpointJobs
<1> QED
  BY <1>1, <1>2, <1>3, <1>4, HooksMerged

LEMMA HooksFailMerged ==
    ASSUME SettledInv, SettledInv', MergeInv, HooksFail
    PROVE  MergeInv'
<1>1. UNCHANGED <<blockVars, states, syncVars, status, checkpoints, calls>> /\ hooking' = Idle
  BY DEF HooksFail
<1>2. UNCHANGED <<saved, complete, canonical, indexed, firstIndexed>>
      /\ indexed <= indexed' /\ Done' = Done
  BY <1>1, SameDone DEF blockVars, syncVars, SettledInv, TypeOK
<1>3. InitKnown' /\ checkpoints' \in Seq(Done') /\ hooking'.pc # "push"
  BY <1>1, <1>2, KnownKept DEF MergeInv, CheckpointJobs, Idle
<1> QED
  BY <1>1, <1>2, <1>3, HooksMerged

LEMMA CreateDiffMerged ==
    ASSUME SettledInv, SettledInv', MergeInv, NEW c \in Contract, CreateDiff(c)
    PROVE  MergeInv'
<1> PICK b : b = hooking.block
  OBVIOUS
<1>0. TypeOK /\ HooksInStep /\ OwnDiffs /\ saved \subseteq Block
      /\ states \in [Key -> Data \cup {NoState}] /\ status \in [Contract -> [Kind -> Nat]]
      /\ hooking \in HooksJob
  BY DEF SettledInv, TypeOK, Idle
<1>1. /\ hooking.pc = "diffs" /\ c \in hooking.todo
      /\ states' = SaveState(states, status[c]["diff"] = Number[b], b, c, "diff",
                             states[<<b, c, "diff_staged">>])
      /\ status' = [status EXCEPT ![c]["diff"] = Number[b]]
      /\ hooking' = [hooking EXCEPT !.todo = @ \ {c}]
      /\ UNCHANGED <<blockVars, syncVars, checkpoints, calls>>
  BY DEF CreateDiff
<1>2. b \in saved /\ Number[b] \in Nat \ {0} /\ Exists(b, c, "diff_staged") /\ c \in Changed(b)
  <2>1. b \in saved /\ b \in Block
    BY <1>1, Hooking
  <2>2. Exists(b, c, "diff_staged")
    BY <1>0, <1>1 DEF HooksInStep
  <2> QED
    BY <1>0, <2>1, <2>2, NumberTyped DEF OwnDiffs
<1>3. \A x \in saved, d \in Contract, k \in {"init", "checkpoint"} :
         states'[<<x, d, k>>] = states[<<x, d, k>>]
  <2>1. \A e \in Key : e[3] # "diff" => states'[e] = states[e]
    BY <1>0, <1>1 DEF SaveState
  <2> QED
    BY <1>0, <2>1 DEF Key, Kind
<1>4. UNCHANGED <<saved, complete, canonical, indexed, firstIndexed>>
      /\ indexed <= indexed' /\ Done' = Done
  BY <1>1, SameDone DEF blockVars, syncVars, SettledInv, TypeOK
<1>5. InitKnown'
  <2>1. \A d \in Contract, k \in {"init", "diff", "checkpoint"} :
           \/ status'[d][k] = status[d][k]
           \/ status'[d][k] # 0 /\ d = c
    BY <1>0, <1>1, <1>2 DEF Kind
  <2>2. c \in Started(b)
    BY <1>2 DEF Changed
  <2> QED
    BY <1>2, <1>4, <2>1, <2>2, KnownKept DEF MergeInv
<1>6. checkpoints' \in Seq(Done') /\ hooking'.pc # "push"
  BY <1>0, <1>1, <1>4 DEF MergeInv, CheckpointJobs, HooksJob
<1> QED
  BY <1>1, <1>3, <1>4, <1>5, <1>6, HooksMerged

LEMMA RemoveStagedMerged ==
    ASSUME SettledInv, SettledInv', MergeInv, RemoveStaged
    PROVE  MergeInv'
<1>0. saved \subseteq Block /\ hooking \in HooksJob
  BY DEF SettledInv, TypeOK
<1>1. /\ hooking' = [hooking EXCEPT !.pc = "status"]
      /\ UNCHANGED <<blockVars, syncVars, status, checkpoints, calls>>
      /\ \A e \in Key : e[3] # "diff_staged" => states'[e] = states[e]
  BY DEF RemoveStaged, Removed
<1>2. \A b \in saved, c \in Contract, k \in {"init", "checkpoint"} :
         states'[<<b, c, k>>] = states[<<b, c, k>>]
  BY <1>0, <1>1 DEF Key, Kind
<1>3. UNCHANGED <<saved, complete, canonical, indexed, firstIndexed>>
      /\ indexed <= indexed' /\ Done' = Done
  BY <1>1, SameDone DEF blockVars, syncVars, SettledInv, TypeOK
<1>4. InitKnown' /\ checkpoints' \in Seq(Done') /\ hooking'.pc # "push"
  BY <1>0, <1>1, <1>3, KnownKept DEF MergeInv, CheckpointJobs, HooksJob
<1> QED
  BY <1>1, <1>2, <1>3, <1>4, HooksMerged

LEMMA UpdateIndexedMerged ==
    ASSUME SettledInv, SettledInv', MergeInv, UpdateIndexed
    PROVE  MergeInv'
<1>0. TypeOK /\ TypeOK' /\ hooking \in HooksJob /\ indexed \in Int /\ canonical \in Block
  BY DEF SettledInv, TypeOK
<1>1. /\ hooking.pc = "status"
      /\ hooking' = [hooking EXCEPT !.pc = "push"]
      /\ UNCHANGED <<blockVars, states, status, checkpoints, calls>>
      /\ indexed' = Max({indexed, Number[hooking.block]})
      /\ HasStatus => firstIndexed' = firstIndexed
  BY DEF UpdateIndexed
<1>2. Number[hooking.block] \in Nat
  BY <1>1, Hooking
<1>3. indexed <= indexed' /\ Number[hooking.block] <= indexed' /\ indexed' >= 0
      /\ hooking'.block = hooking.block
  <2>1. indexed' \in Int /\ indexed <= indexed' /\ Number[hooking.block] <= indexed'
    <3> PICK n \in Nat : n = Number[hooking.block]
      BY <1>2
    <3>1. indexed' = Max({indexed, n})
      BY <1>1
    <3>2. indexed' = IF indexed >= n THEN indexed ELSE n
      BY <1>0, <3>1, MaxOfTwo
    <3> QED
      BY <1>0, <3>2
  <2> QED
    BY <1>0, <1>1, <1>2, <2>1 DEF HooksJob
<1>4. UNCHANGED <<saved, complete, canonical>>
  BY <1>1 DEF blockVars
<1>5. Done \subseteq Done'
  BY <1>0, <1>3, <1>4, DoneGrows, AncestorsClosed
<1>6. InitKnown' /\ checkpoints' \in Seq(Done')
  BY <1>1, <1>4, <1>5, KnownKept, SeqOfMore DEF MergeInv, CheckpointJobs
<1> QED
  BY <1>1, <1>3, <1>6, HooksMerged DEF HasStatus

LEMMA FinishHooksMerged ==
    ASSUME SettledInv, SettledInv', MergeInv, FinishHooks
    PROVE  MergeInv'
<1>1. hooking.pc = "push" /\ hooking' = Idle
      /\ checkpoints' = Append(checkpoints, hooking.block)
      /\ UNCHANGED <<blockVars, states, syncVars, status, calls>>
  BY DEF FinishHooks
<1>2. UNCHANGED <<saved, complete, canonical, indexed, firstIndexed>>
      /\ indexed <= indexed' /\ Done' = Done
  BY <1>1, SameDone DEF blockVars, syncVars, SettledInv, TypeOK
<1>3. hooking.block \in Done
  BY <1>1, Hooking DEF MergeInv, CheckpointJobs, Done, Settled
<1>4. checkpoints' \in Seq(Done')
  BY <1>1, <1>2, <1>3 DEF MergeInv, CheckpointJobs
<1>5. InitKnown' /\ hooking'.pc # "push"
  BY <1>1, <1>2, KnownKept DEF MergeInv, Idle
<1> QED
  BY <1>1, <1>2, <1>4, <1>5, HooksMerged

\* createInit makes the initial state of a contract in its first block
LEMMA IndexBlockMerged ==
    ASSUME StartsUnforked, SettledInv, SettledInv', MergeInv, NEW b \in Block, IndexBlock(b)
    PROVE  MergeInv'
<1> DEFINE new == {c \in Started(b) : NeedsInit(c)}
<1>0. TypeOK /\ RowsInOrder /\ complete \subseteq saved /\ saved \subseteq Block
      /\ canonical \in Block /\ status \in [Contract -> [Kind -> Nat]]
  BY DEF SettledInv, TypeOK
<1>1. /\ saved' = saved \cup {b} /\ b \notin saved
      /\ UNCHANGED <<complete, pruned, canonical, indexed, firstIndexed, hooking, checkpoints,
                     calls>>
      /\ b # Root => Parent[b] \in complete /\ Number[b] > Number[canonical]
      /\ canonical \in Ancestors[b]
  BY DEF IndexBlock, syncVars, jobVars, WithinReorgDepth
<1>2. \A x \in Block, c \in Contract, k \in Kind :
         states'[<<x, c, k>>] = IF x = b /\ c \in new /\ k = "init" THEN {}
                                ELSE states[<<x, c, k>>]
  BY DEF IndexBlock, Key
<1>3. \A c \in Contract : status'[c] = IF c \in new THEN [status[c] EXCEPT !["init"] = Number[b]]
                                       ELSE status[c]
  BY DEF IndexBlock
<1>4. \A c \in Contract, k \in Kind : ~Exists(b, c, k)
  BY <1>0, <1>1, StateTyped
<1>5. {} # NoState
  BY StateSyncAssumption
<1>6. \A c \in Contract : c \in new <=> b \in FirstOf(c)
  <2> SUFFICES ASSUME NEW c \in Contract PROVE c \in new <=> b \in FirstOf(c)
    OBVIOUS
  <2>1. ASSUME c \in new, b \notin FirstOf(c) PROVE FALSE
    <3>1. b # Root /\ c \in Started(Parent[b]) /\ c \in Started(b) /\ NeedsInit(c)
      BY <2>1 DEF FirstOf
    <3>2. Parent[b] \in complete /\ Parent[b] \in Block
      BY <1>0, <1>1, <3>1
    <3>3. PICK a \in Ancestors[Parent[b]] : a \in FirstOf(c)
      BY <3>1, <3>2, FirstExists
    <3>4. complete \in ParentClosed
      BY <1>0 DEF RowsInOrder, ParentClosed
    <3>5. a \in saved
      BY <1>0, <3>2, <3>3, <3>4, ClosedHoldsAncestors
    <3> QED
      BY <3>1, <3>3, <3>5 DEF MergeInv, InitKnown
  <2>2. ASSUME b \in FirstOf(c), c \notin new PROVE FALSE
    <3>1. c \in Started(b) /\ ~NeedsInit(c)
      BY <2>2 DEF FirstOf
    <3>2. PICK x \in saved : c \in Started(x)
      BY <3>1 DEF MergeInv, InitKnown
    <3>3. x \in Block /\ b \in Ancestors[x]
      BY <1>0, <2>2, <3>2, FirstBelow
    <3>4. saved \in ParentClosed
      BY <1>0 DEF RowsInOrder, ParentClosed
    <3> QED
      BY <1>1, <3>2, <3>3, <3>4, ClosedHoldsAncestors
  <2> QED
    BY <2>1, <2>2
<1> HIDE DEF new
<1>7. Done' = Done
  BY <1>1, SameDone
<1>8. \A x \in saved, c \in Contract, k \in Kind :
         states'[<<x, c, k>>] = states[<<x, c, k>>] /\ (Exists(x, c, k)' <=> Exists(x, c, k))
  BY <1>0, <1>1, <1>2 DEF Exists
<1>9. \A c \in Contract : /\ ~Exists(b, c, "checkpoint")'
                          /\ Exists(b, c, "init")' <=> c \in new
                          /\ c \in new => states'[<<b, c, "init">>] = {}
  <2>1. \A c \in Contract : /\ states'[<<b, c, "checkpoint">>] = states[<<b, c, "checkpoint">>]
                            /\ states'[<<b, c, "init">>] = IF c \in new THEN {}
                                                           ELSE states[<<b, c, "init">>]
    BY <1>2 DEF Kind
  <2> QED
    BY <1>4, <1>5, <2>1 DEF Exists, Kind
<1>10. OneBranchUnpruned'
  <2>1. b # Root => ~(Number[b] <= Number[canonical])
    BY <1>0, <1>1, NumberTyped
  <2>2. b = Root => b \in Ancestors[canonical]
    BY <1>0, RootAssumption
  <2> QED
    BY <1>1, <2>1, <2>2 DEF MergeInv, OneBranchUnpruned
<1>11. CheckpointJobs'
  <2>1. \A x \in saved', c \in Contract : Exists(x, c, "checkpoint")' =>
           x \in Done /\ c \in Started(x)
    BY <1>1, <1>8, <1>9 DEF MergeInv, CheckpointJobs, Kind
  <2>2. hooking'.pc = "push" => HasStatus' /\ Number[hooking'.block] <= indexed'
    BY <1>1 DEF MergeInv, CheckpointJobs, HasStatus
  <2> QED
    BY <1>1, <1>7, <2>1, <2>2 DEF MergeInv, CheckpointJobs, Started
<1>12. InitRows'
  <2>1. \A x \in saved', c \in Contract :
           Exists(x, c, "init")' => states'[<<x, c, "init">>] = {} /\ x \in FirstOf(c)
    BY <1>1, <1>6, <1>8, <1>9 DEF MergeInv, InitRows, Kind
  <2>2. \A x \in saved', c \in Contract : x \in FirstOf(c) =>
           Exists(x, c, "init")' \/ (x = Root /\ Exists(x, c, "checkpoint")')
    BY <1>1, <1>6, <1>8, <1>9 DEF MergeInv, InitRows, Kind
  <2> QED
    BY <2>1, <2>2 DEF InitRows, FirstOf, Started
<1>13. InitKnown'
  <2>1. \A c \in Contract : c \notin new => (NeedsInit(c)' <=> NeedsInit(c))
    BY <1>3 DEF NeedsInit
  <2>2. \A c \in new : ~NeedsInit(c)'
    <3> SUFFICES ASSUME NEW c \in new PROVE status'[c]["init"] # 0
      BY DEF NeedsInit
    <3>1. c \in Contract
      BY DEF new, Started
    <3>2. status'[c]["init"] = Number[b]
      BY <1>0, <1>3, <3>1 DEF Kind
    <3> QED
      BY <3>2, NumberTyped
  <2>3. \A c \in new : c \in Started(b)
    BY DEF new
  <2>4. \A x \in saved', c \in Contract : x \in FirstOf(c) => ~NeedsInit(c)'
    BY <1>1, <1>6, <2>1, <2>2 DEF MergeInv, InitKnown
  <2>5. \A c \in Contract : (\A x \in saved' : c \notin Started(x)) => NeedsInit(c)'
    BY <1>1, <2>1, <2>3 DEF MergeInv, InitKnown
  <2> QED
    BY <2>4, <2>5 DEF InitKnown, FirstOf, Started
<1>14. FromTheStart' /\ HasStatus => FromTheStart
  <2> SUFFICES ASSUME FromTheStart', HasStatus PROVE FromTheStart
    OBVIOUS
  <2>1. Root \in saved
    BY DEF SettledInv, IndexedHeights, TypeOK
  <2>2. \A c \in Contract : Exists(Root, c, "init")' <=> Exists(Root, c, "init")
    BY <1>8, <2>1 DEF Kind
  <2> QED
    BY <1>1, <2>2 DEF FromTheStart
<1>15. MergedData'
  <2> SUFFICES ASSUME FromTheStart', NEW i \in Caller, calls[i].pc = "save"
               PROVE  calls[i].data = History(calls[i].contract, calls[i].block)
    BY <1>1 DEF MergedData, History, Started
  <2>1. HasStatus
    BY NothingDone
  <2> QED
    BY <1>14, <2>1 DEF MergeInv, MergedData
<1>16. CheckpointsMergeDiffs'
  <2> SUFFICES ASSUME FromTheStart', NEW x \in saved', NEW c \in Contract,
                      Exists(x, c, "checkpoint")'
               PROVE  states'[<<x, c, "checkpoint">>] = History(c, x)
    BY DEF CheckpointsMergeDiffs, History, Started
  <2>1. x \in saved
    BY <1>1, <1>9
  <2>2. Exists(x, c, "checkpoint") /\ states'[<<x, c, "checkpoint">>] = states[<<x, c, "checkpoint">>]
    BY <1>8, <2>1 DEF Kind
  <2>3. HasStatus
    BY <2>1, <2>2, NothingDone
  <2> QED
    BY <1>14, <2>1, <2>2, <2>3 DEF MergeInv, CheckpointsMergeDiffs
<1> QED
  BY <1>10, <1>11, <1>12, <1>13, <1>15, <1>16 DEF MergeInv

\* the first block of a contract is not pruned: the block that would be left at its
\* height would be another first one
LEMMA FirstUnpruned ==
    ASSUME StartsUnforked, SettledInv, OneBranchUnpruned, NEW c \in Contract, NEW b \in FirstOf(c)
    PROVE  b \notin pruned
<1> SUFFICES ASSUME b \in pruned PROVE FALSE
  OBVIOUS
<1>1. PICK x \in Ancestors[canonical] : x # b /\ Number[x] = Number[b]
  BY DEF OneBranchUnpruned
<1>2. x \in Block /\ b \in Block /\ c \in Started(x)
  BY <1>1, AncestorsTyped DEF SettledInv, TypeOK, FirstOf, Started
<1>3. b \in Ancestors[x]
  BY <1>2, FirstBelow
<1>4. Number[b] < Number[x]
  BY <1>1, <1>2, <1>3, AncestorsBelow
<1> QED
  BY <1>1, <1>2, <1>4, NumberTyped

\* the status map after fetchStateStatus
LEMMA StoredHeight ==
    ASSUME NEW rows, NEW S \in SUBSET Block, \E n \in Nat : \A b \in S : Number[b] <= n,
           NEW c \in Contract, NEW k \in Kind
    PROVE  StoredStatus(rows, S)[c][k] # 0 <=> \E b \in S : rows[<<b, c, k>>] # NoState
<1> PICK n \in Nat : \A b \in S : Number[b] <= n
  OBVIOUS
<1> DEFINE T == {b \in S : rows[<<b, c, k>>] # NoState}
<1>1. StoredStatus(rows, S)[c][k] = HeightOf(Highest(T))
  BY DEF StoredStatus
<1>2. T \subseteq Block /\ Highest(T) \subseteq T /\ \A b \in T : Number[b] <= n
  BY DEF Highest
<1> HIDE DEF T
<1>3. CASE T = {}
  <2>1. Highest(T) = {}
    BY <1>2, <1>3
  <2>2. HeightOf(Highest(T)) = 0
    BY <2>1 DEF HeightOf
  <2> QED
    BY <1>1, <1>3, <2>2 DEF T
<1>4. CASE T # {}
  <2>1. Highest(T) # {} /\ Highest(T) \in SUBSET Block
    BY <1>2, <1>4, HighestExists
  <2>2. HeightOf(Highest(T)) # 0
    BY <2>1, HeightOfFound
  <2> QED
    BY <1>1, <1>4, <2>2 DEF T
<1> QED
  BY <1>3, <1>4

\* a restart reads the status map again, and ends the calls of the job-runner
LEMMA RestartMerged ==
    ASSUME StartsUnforked, SettledInv, MergeInv, Restart
    PROVE  MergeInv'
<1>0. complete \subseteq saved /\ complete \subseteq Block /\ saved \subseteq Block
  BY DEF SettledInv, TypeOK
<1>1. /\ saved' = complete /\ UNCHANGED <<complete, pruned, canonical, indexed, firstIndexed>>
      /\ hooking' = Idle /\ checkpoints' = <<>>
      /\ \A i \in Caller : calls'[i] = NoCall \/ calls'[i] = calls[i]
      /\ status' = StoredStatus(states', complete \ pruned)
  BY DEF Restart, syncVars
<1>2. \A b \in complete, c \in Contract, k \in Kind :
         states'[<<b, c, k>>] = states[<<b, c, k>>] /\ (Exists(b, c, k)' <=> Exists(b, c, k))
  BY <1>0 DEF Restart, Key, Exists
<1>3. Done' = Done
  BY <1>1, SameDone
<1>4. OneBranchUnpruned'
  BY <1>0, <1>1 DEF MergeInv, OneBranchUnpruned
<1>5. CheckpointJobs'
  <2>1. \A b \in saved', c \in Contract : Exists(b, c, "checkpoint")' =>
           b \in Done /\ c \in Started(b)
    BY <1>0, <1>1, <1>2 DEF MergeInv, CheckpointJobs, Kind
  <2>2. hooking'.pc # "push" /\ checkpoints' \in Seq(Done)
    BY <1>1, EmptySeq DEF Idle
  <2>3. \A i \in Caller : calls'[i].pc # "idle" =>
           /\ calls'[i].block \in Done
           /\ calls'[i].todo \subseteq Started(calls'[i].block)
           /\ calls'[i].pc = "save" => calls'[i].contract \in Started(calls'[i].block)
    BY <1>1 DEF MergeInv, CheckpointJobs, NoCall
  <2> QED
    BY <1>3, <2>1, <2>2, <2>3 DEF CheckpointJobs, Started
<1>6. InitRows'
  <2>1. \A b \in complete, c \in Contract :
           /\ Exists(b, c, "init")' => states'[<<b, c, "init">>] = {} /\ b \in FirstOf(c)
           /\ b \in FirstOf(c) =>
                Exists(b, c, "init")' \/ (b = Root /\ Exists(b, c, "checkpoint")')
    BY <1>0, <1>2 DEF MergeInv, InitRows, Kind
  <2> QED
    BY <1>1, <2>1 DEF InitRows, FirstOf, Started
<1>7. InitKnown'
  <2>1. PICK n \in Nat : \A b \in saved : Number[b] <= n
    BY SavedBounded
  <2>2. (complete \ pruned) \in SUBSET Block /\ \A b \in complete \ pruned : Number[b] <= n
    BY <1>0, <2>1
  <2>3. \A c \in Contract, k \in Kind : status'[c][k] # 0 <=>
           \E b \in complete \ pruned : Exists(b, c, k)
    <3> SUFFICES ASSUME NEW c \in Contract, NEW k \in Kind
                 PROVE  status'[c][k] # 0 <=> \E b \in complete \ pruned : Exists(b, c, k)
      OBVIOUS
    <3>1. status'[c][k] # 0 <=> \E b \in complete \ pruned : states'[<<b, c, k>>] # NoState
      <4> DEFINE S == complete \ pruned
      <4>1. S \in SUBSET Block /\ \E m \in Nat : \A b \in S : Number[b] <= m
        BY <2>2
      <4> HIDE DEF S
      <4>2. StoredStatus(states', S)[c][k] # 0 <=> \E b \in S : states'[<<b, c, k>>] # NoState
        BY <4>1, StoredHeight, Zenon
      <4> QED
        BY <1>1, <4>2 DEF S
    <3> QED
      BY <1>2, <3>1 DEF Exists
  <2>4. \A b \in complete, c \in Contract : b \in FirstOf(c) => ~NeedsInit(c)'
    <3> SUFFICES ASSUME NEW b \in complete, NEW c \in Contract, b \in FirstOf(c)
                 PROVE  ~NeedsInit(c)'
      OBVIOUS
    <3>1. b \notin pruned
      BY FirstUnpruned DEF MergeInv
    <3>2. Exists(b, c, "init") \/ Exists(b, c, "checkpoint")
      BY <1>0 DEF MergeInv, InitRows
    <3>3. status'[c]["init"] # 0 \/ status'[c]["checkpoint"] # 0
      BY <2>3, <3>1, <3>2 DEF Kind
    <3> QED
      BY <3>3 DEF NeedsInit
  <2>5. ASSUME NEW c \in Contract, \A b \in complete : c \notin Started(b)
        PROVE  NeedsInit(c)'
    <3>1. \A b \in complete : ~Exists(b, c, "init") /\ ~Exists(b, c, "diff")
                              /\ ~Exists(b, c, "checkpoint")
      BY <1>0, <2>5 DEF MergeInv, InitRows, FirstOf, CheckpointJobs, SettledInv, OwnDiffs, Changed
    <3>2. \A k \in {"init", "diff", "checkpoint"} : status'[c][k] = 0
      BY <2>3, <3>1 DEF Kind
    <3> QED
      BY <3>2 DEF NeedsInit
  <2> QED
    BY <1>1, <2>4, <2>5 DEF InitKnown, FirstOf, Started
<1>8. FromTheStart' /\ HasStatus => FromTheStart
  <2> SUFFICES ASSUME FromTheStart', HasStatus PROVE FromTheStart
    OBVIOUS
  <2>1. Root \in complete
    BY DEF SettledInv, IndexedHeights
  <2>2. \A c \in Contract : Exists(Root, c, "init")' <=> Exists(Root, c, "init")
    BY <1>2, <2>1 DEF Kind
  <2> QED
    BY <1>1, <2>2 DEF FromTheStart
<1>9. MergedData'
  <2> SUFFICES ASSUME FromTheStart', NEW i \in Caller, calls'[i].pc = "save"
               PROVE  calls'[i].data = History(calls'[i].contract, calls'[i].block)
    BY DEF MergedData, History, Started
  <2>1. calls'[i] = calls[i] /\ calls[i].pc = "save"
    BY <1>1 DEF NoCall
  <2>2. HasStatus
    BY <2>1, NothingDone
  <2> QED
    BY <1>8, <2>1, <2>2 DEF MergeInv, MergedData
<1>10. CheckpointsMergeDiffs'
  <2> SUFFICES ASSUME FromTheStart', NEW b \in complete, NEW c \in Contract,
                      Exists(b, c, "checkpoint")'
               PROVE  states'[<<b, c, "checkpoint">>] = History(c, b)
    BY <1>1 DEF CheckpointsMergeDiffs, History, Started
  <2>1. Exists(b, c, "checkpoint") /\ states'[<<b, c, "checkpoint">>] = states[<<b, c, "checkpoint">>]
        /\ b \in saved
    BY <1>0, <1>2 DEF Kind
  <2>2. HasStatus
    BY <2>1, NothingDone
  <2> QED
    BY <1>8, <2>1, <2>2 DEF MergeInv, CheckpointsMergeDiffs
<1> QED
  BY <1>4, <1>5, <1>6, <1>7, <1>9, <1>10 DEF MergeInv

LEMMA TakeCheckpointMerged ==
    ASSUME StartsUnforked, SettledInv, MergeInv, NEW i \in Caller, TakeCheckpoint(i)
    PROVE  MergeInv'
<1> PICK b : b = Head(checkpoints)
  OBVIOUS
<1>0. calls \in [Caller -> Call] /\ checkpoints \in Seq(Done) /\ checkpoints # <<>>
      /\ InitKnown
  BY DEF SettledInv, TypeOK, MergeInv, CheckpointJobs, TakeCheckpoint
<1>1. b \in Done /\ Tail(checkpoints) \in Seq(Done)
  BY <1>0
<1>2. CASE Restart
  BY <1>2, RestartMerged
<1>3. CASE ~Restart
  <2>1. /\ checkpoints' = Tail(checkpoints)
        /\ UNCHANGED <<blockVars, states, syncVars, status, hooking>>
        /\ \/ UNCHANGED calls
           \/ calls' = [calls EXCEPT ![i] = [NoCall EXCEPT !.block = b, !.pc = "merge",
                                                           !.todo = Due(b)]]
    BY <1>3 DEF TakeCheckpoint
  <2>2. Due(b) \subseteq Started(b)
    BY DEF Due
  <2>3. \A j \in Caller : \/ calls'[j] = calls[j]
                          \/ /\ calls'[j].block = b /\ calls'[j].pc = "merge"
                             /\ calls'[j].todo = Due(b)
    BY <1>0, <2>1 DEF NoCall
  <2>4. \A j \in Caller : calls'[j].pc # "idle" =>
               /\ calls'[j].block \in Done
               /\ calls'[j].todo \subseteq Started(calls'[j].block)
               /\ calls'[j].pc = "save" => calls'[j].contract \in Started(calls'[j].block)
               /\ FromTheStart /\ calls'[j].pc = "save" =>
                      calls'[j].data = History(calls'[j].contract, calls'[j].block)
    BY <1>1, <2>2, <2>3 DEF MergeInv, CheckpointJobs, MergedData
  <2>5. InitKnown'
    BY <1>0, <2>1, KnownKept DEF blockVars
  <2> QED
    BY <1>1, <2>1, <2>4, <2>5, CallsAside DEF syncVars, Exists
<1> QED
  BY <1>2, <1>3

LEMMA StartCommandMerged ==
    ASSUME SettledInv, MergeInv, NEW i \in Command, NEW b \in Block, NEW c \in Contract,
           StartCommand(i, b, c)
    PROVE  MergeInv'
<1>0. calls \in [Caller -> Call] /\ checkpoints \in Seq(Done) /\ InitKnown
      /\ complete \subseteq saved /\ canonical \in Block /\ indexed \in Int
  BY DEF SettledInv, TypeOK, MergeInv, CheckpointJobs
<1>1. /\ b \in complete \ pruned /\ HasStatus /\ Number[b] <= indexed /\ c \in Started(b)
      /\ calls' = [calls EXCEPT ![i] = [NoCall EXCEPT !.block = b, !.pc = "merge", !.todo = {c}]]
      /\ UNCHANGED <<blockVars, states, syncVars, status, jobVars>>
  BY DEF StartCommand
<1>2. b \in Done
  <2>1. Number[b] <= Number[canonical]
    BY <1>0, <1>1, NumberTyped DEF SettledInv, IndexedHeights
  <2> QED
    BY <1>0, <1>1, <2>1 DEF MergeInv, OneBranchUnpruned, Done
<1>3. \A j \in Caller : \/ calls'[j] = calls[j]
                        \/ /\ calls'[j].block = b /\ calls'[j].pc = "merge"
                           /\ calls'[j].todo = {c}
  BY <1>0, <1>1 DEF NoCall
<1>4. \A j \in Caller : calls'[j].pc # "idle" =>
             /\ calls'[j].block \in Done
             /\ calls'[j].todo \subseteq Started(calls'[j].block)
             /\ calls'[j].pc = "save" => calls'[j].contract \in Started(calls'[j].block)
             /\ FromTheStart /\ calls'[j].pc = "save" =>
                    calls'[j].data = History(calls'[j].contract, calls'[j].block)
  BY <1>1, <1>2, <1>3 DEF MergeInv, CheckpointJobs, MergedData
<1>5. InitKnown'
  BY <1>0, <1>1, KnownKept DEF blockVars
<1> QED
  BY <1>0, <1>1, <1>4, <1>5, CallsAside DEF syncVars, jobVars, Exists

\* the job-runner's map gets the height of a checkpoint
LEMMA NoteKnown ==
    ASSUME SettledInv, InitKnown, saved' = saved, NEW i \in Caller, NEW c \in Contract,
           NEW n \in Nat \ {0}, NEW b \in saved, c \in Started(b), NoteCheckpoint(i, c, n)
    PROVE  InitKnown'
<1>1. status \in [Contract -> [Kind -> Nat]]
  BY DEF SettledInv, TypeOK
<1>2. \A d \in Contract, k \in {"init", "diff", "checkpoint"} :
         status'[d][k] = status[d][k] \/ (status'[d][k] # 0 /\ d = c)
  BY <1>1 DEF NoteCheckpoint, Kind
<1> QED
  BY <1>2, KnownKept

LEMMA MergeDiffsMerged ==
    ASSUME Number[Root] > 1, StartsUnforked, SettledInv, MergeInv,
           NEW i \in Caller, NEW c \in Contract, MergeDiffs(i, c)
    PROVE  MergeInv'
<1> PICK b : b = calls[i].block
  OBVIOUS
<1> DEFINE before == LatestState(c, "checkpoint", Number[b] - 1)
<1>0. calls \in [Caller -> Call] /\ calls[i] \in Call /\ saved \subseteq Block
      /\ checkpoints \in Seq(Done) /\ InitKnown
  BY DEF SettledInv, TypeOK, MergeInv, CheckpointJobs
<1>1. /\ calls[i].pc = "merge" /\ c \in calls[i].todo /\ HasBase(c, b)
      /\ UNCHANGED <<blockVars, states, syncVars, jobVars>>
      /\ IF before # {} THEN NoteCheckpoint(i, c, HeightOf(before)) ELSE UNCHANGED status
  BY DEF MergeDiffs
<1>2. calls' = [calls EXCEPT ![i] =
                   [calls[i] EXCEPT !.pc = "save", !.contract = c, !.data = Merged(c, b),
                                    !.found = Exists(b, c, "checkpoint"), !.todo = @ \ {c}]]
  BY DEF MergeDiffs
<1>3. b \in Done /\ calls[i].todo \subseteq Started(b) /\ c \in Started(b)
  BY <1>1 DEF MergeInv, CheckpointJobs
<1>4. FromTheStart => Merged(c, b) = History(c, b)
  BY <1>1, <1>3, MergedIsHistory
<1>5. /\ calls'[i].block = b /\ calls'[i].contract = c /\ calls'[i].data = Merged(c, b)
      /\ calls'[i].todo \subseteq calls[i].todo
      /\ \A j \in Caller \ {i} : calls'[j] = calls[j]
  BY <1>0, <1>2 DEF Call
<1>6. \A j \in Caller : calls'[j].pc # "idle" =>
             /\ calls'[j].block \in Done
             /\ calls'[j].todo \subseteq Started(calls'[j].block)
             /\ calls'[j].pc = "save" => calls'[j].contract \in Started(calls'[j].block)
             /\ FromTheStart /\ calls'[j].pc = "save" =>
                    calls'[j].data = History(calls'[j].contract, calls'[j].block)
  <2> SUFFICES ASSUME NEW j \in Caller, calls'[j].pc # "idle"
               PROVE  /\ calls'[j].block \in Done
                      /\ calls'[j].todo \subseteq Started(calls'[j].block)
                      /\ calls'[j].pc = "save" => calls'[j].contract \in Started(calls'[j].block)
                      /\ FromTheStart /\ calls'[j].pc = "save" =>
                             calls'[j].data = History(calls'[j].contract, calls'[j].block)
    OBVIOUS
  <2>1. CASE j = i
    BY <1>3, <1>4, <1>5, <2>1
  <2>2. CASE j # i
    BY <1>5, <2>2 DEF MergeInv, CheckpointJobs, MergedData
  <2> QED
    BY <2>1, <2>2
<1>7. InitKnown'
  <2>1. saved' = saved /\ b \in saved
    BY <1>1, <1>3, DoneTyped DEF blockVars
  <2>2. CASE before = {}
    BY <1>0, <1>1, <2>1, <2>2, KnownKept
  <2>3. CASE before # {}
    <3>1. before \subseteq Block
      BY <1>0 DEF LatestState, Highest
    <3>2. HeightOf(before) \in Nat \ {0}
      BY <2>3, <3>1, HeightOfFound
    <3> HIDE DEF before
    <3> QED
      BY <1>0, <1>1, <1>3, <2>1, <2>3, <3>2, NoteKnown
  <2> QED
    BY <2>2, <2>3
<1> QED
  BY <1>0, <1>1, <1>6, <1>7, CallsAside DEF syncVars, jobVars, Exists

LEMMA SaveCheckpointMerged ==
    ASSUME SettledInv, MergeInv, NEW i \in Caller, SaveCheckpoint(i)
    PROVE  MergeInv'
<1> PICK b, c : b = calls[i].block /\ c = calls[i].contract
  OBVIOUS
<1>0. calls \in [Caller -> Call] /\ calls[i] \in Call /\ saved \subseteq Block
      /\ states \in [Key -> Data \cup {NoState}]
      /\ checkpoints \in Seq(Done) /\ InitKnown /\ c \in Contract
  BY DEF SettledInv, TypeOK, MergeInv, CheckpointJobs, Call
<1>1. /\ calls[i].pc = "save"
      /\ calls[i].found \/ ~Exists(b, c, "checkpoint")
      /\ states' = [states EXCEPT ![<<b, c, "checkpoint">>] =
                       IF calls[i].found THEN states[<<b, c, "checkpoint">>] \cup calls[i].data
                       ELSE calls[i].data]
      /\ NoteCheckpoint(i, c, Number[b])
      /\ calls' = [calls EXCEPT ![i].pc = "merge"]
      /\ UNCHANGED <<blockVars, syncVars, jobVars>>
  BY DEF SaveCheckpoint
<1>2. b \in Done /\ calls[i].todo \subseteq Started(b) /\ c \in Started(b)
  BY <1>1 DEF MergeInv, CheckpointJobs
<1>3. b \in saved /\ b \in Block /\ Number[b] \in Nat \ {0}
  BY <1>2, DoneTyped, NumberTyped
<1>4. FromTheStart => calls[i].data = History(c, b)
  BY <1>1 DEF MergeInv, MergedData
<1>5. calls[i].found => Exists(b, c, "checkpoint")
  BY <1>1 DEF SettledInv, FoundStays
<1>6. FromTheStart /\ calls[i].found => states[<<b, c, "checkpoint">>] = History(c, b)
  BY <1>0, <1>3, <1>5 DEF MergeInv, CheckpointsMergeDiffs
<1>7. \A e \in Key : e # <<b, c, "checkpoint">> => states'[e] = states[e]
  BY <1>0, <1>1
<1>8. states'[<<b, c, "checkpoint">>] # NoState
      /\ (FromTheStart => states'[<<b, c, "checkpoint">>] = History(c, b))
  <2>1. <<b, c, "checkpoint">> \in Key
    BY <1>0, <1>3, KeyTyped DEF Kind
  <2>2. states'[<<b, c, "checkpoint">>] =
           IF calls[i].found THEN states[<<b, c, "checkpoint">>] \cup calls[i].data
           ELSE calls[i].data
    BY <1>0, <1>1, <2>1
  <2>3. calls[i].data \in Data /\ (calls[i].found => states[<<b, c, "checkpoint">>] \in Data)
    BY <1>0, <1>5, <2>1 DEF Call, Exists
  <2>4. states'[<<b, c, "checkpoint">>] \in Data
    BY <2>2, <2>3 DEF Data
  <2>5. states'[<<b, c, "checkpoint">>] # NoState
    BY <2>4, StateSyncAssumption DEF Data
  <2>6. FromTheStart => states'[<<b, c, "checkpoint">>] = History(c, b)
    BY <1>4, <1>6, <2>2
  <2> QED
    BY <2>5, <2>6
<1>9. \A x \in saved, d \in Contract :
         /\ states'[<<x, d, "init">>] = states[<<x, d, "init">>]
         /\ (x # b \/ d # c) => states'[<<x, d, "checkpoint">>] = states[<<x, d, "checkpoint">>]
  BY <1>0, <1>7 DEF Key, Kind
<1>10. \A x \in saved, d \in Contract :
          \/ states'[<<x, d, "checkpoint">>] = states[<<x, d, "checkpoint">>]
          \/ /\ x \in Done /\ d \in Started(x)
             /\ FromTheStart => states'[<<x, d, "checkpoint">>] = History(d, x)
  BY <1>2, <1>8, <1>9
<1>11. \A x \in saved, d \in Contract :
          Exists(x, d, "checkpoint") => Exists(x, d, "checkpoint")'
  BY <1>8, <1>9 DEF Exists
<1>12. \A j \in Caller : calls'[j].pc # "idle" =>
              /\ calls'[j].block \in Done
              /\ calls'[j].todo \subseteq Started(calls'[j].block)
              /\ calls'[j].pc = "save" => calls'[j].contract \in Started(calls'[j].block)
              /\ FromTheStart /\ calls'[j].pc = "save" =>
                     calls'[j].data = History(calls'[j].contract, calls'[j].block)
  <2>1. /\ calls'[i].pc = "merge" /\ calls'[i].block = b /\ calls'[i].todo = calls[i].todo
        /\ \A j \in Caller \ {i} : calls'[j] = calls[j]
    BY <1>0, <1>1 DEF Call
  <2> QED
    BY <1>2, <2>1 DEF MergeInv, CheckpointJobs, MergedData
<1>13. InitKnown'
  BY <1>0, <1>1, <1>2, <1>3, NoteKnown DEF blockVars
<1> QED
  BY <1>0, <1>1, <1>9, <1>10, <1>11, <1>12, <1>13, CallsAside DEF syncVars, jobVars

\* a call ends
LEMMA CallEndsMerged ==
    ASSUME SettledInv, MergeInv, NEW i \in Caller, calls' = [calls EXCEPT ![i] = NoCall],
           UNCHANGED <<blockVars, states, indexed, firstIndexed, status, jobVars>>
    PROVE  MergeInv'
<1>0. calls \in [Caller -> Call] /\ checkpoints \in Seq(Done) /\ InitKnown
  BY DEF SettledInv, TypeOK, MergeInv, CheckpointJobs
<1>1. \A j \in Caller : calls'[j] = calls[j] \/ calls'[j].pc = "idle"
  BY <1>0 DEF NoCall
<1>2. InitKnown'
  BY <1>0, KnownKept DEF blockVars
<1> QED
  BY <1>0, <1>1, <1>2, CallsAside DEF jobVars, Exists, MergeInv, CheckpointJobs, MergedData

LEMMA CallStepMerged ==
    ASSUME Number[Root] > 1, StartsUnforked, SettledInv, MergeInv, NEW i \in Caller, CallStep(i)
    PROVE  MergeInv'
<1>1. ASSUME FinishCheckpoint(i) PROVE MergeInv'
  BY <1>1, CallEndsMerged DEF FinishCheckpoint
<1>2. ASSUME CheckpointThrows(i) PROVE MergeInv'
  <2>1. CASE Restart
    BY <2>1, RestartMerged
  <2>2. CASE ~Restart
    BY <1>2, <2>2, CallEndsMerged DEF CheckpointThrows, syncVars
  <2> QED
    BY <2>1, <2>2
<1> QED
  BY <1>1, <1>2, MergeDiffsMerged, SaveCheckpointMerged DEF CallStep

LEMMA InitMerged ==
    ASSUME Init
    PROVE  MergeInv
<1>0. /\ pruned = {} /\ canonical = Root /\ hooking = Idle /\ checkpoints = <<>>
      /\ \A i \in Caller : calls[i] = NoCall
      /\ Root \in Block /\ Root \in Ancestors[Root] /\ Number[Root] \in Nat \ {0}
  BY BlockTreeAssumption, AncestorsClosed, NumberTyped DEF Init
<1>1. checkpoints \in Seq(Done)
  BY <1>0, EmptySeq
<1>2. \A i \in Caller : calls[i].pc = "idle"
  BY <1>0 DEF NoCall
<1>3. MergedData
  BY <1>2 DEF MergedData
<1>4. CASE NewWatcher
  <2>1. saved = {} /\ \A c \in Contract, k \in Kind : status[c][k] = 0
    BY <1>4 DEF NewWatcher
  <2>2. InitKnown
    BY <2>1 DEF InitKnown, NeedsInit, Kind
  <2>3. OneBranchUnpruned /\ InitRows /\ CheckpointsMergeDiffs
    BY <1>0, <2>1 DEF OneBranchUnpruned, InitRows, CheckpointsMergeDiffs
  <2>4. CheckpointJobs
    BY <1>0, <1>1, <1>2, <2>1 DEF CheckpointJobs, Idle
  <2> QED
    BY <1>3, <2>2, <2>3, <2>4 DEF MergeInv
<1>5. CASE ImportedWatcher
  <2>1. /\ saved = {Root} /\ complete = {Root} /\ indexed = Number[Root]
        /\ states = [e \in Key |->
              IF e[1] = Root /\ e[2] \in Started(Root) /\ e[3] = "checkpoint"
              THEN History(e[2], Root) ELSE NoState]
        /\ status = StoredStatus(states, {Root})
    BY <1>5 DEF ImportedWatcher
  <2>2. \A c \in Contract, k \in Kind : states[<<Root, c, k>>] =
           IF c \in Started(Root) /\ k = "checkpoint" THEN History(c, Root) ELSE NoState
    BY <1>0, <2>1 DEF Key
  <2>3. \A c \in Contract, k \in Kind :
           Exists(Root, c, k) <=> c \in Started(Root) /\ k = "checkpoint"
    <3>1. \A c \in Contract : History(c, Root) # NoState
      BY <1>0, AncestorsTyped, StateSyncAssumption DEF History
    <3> QED
      BY <2>2, <3>1 DEF Exists
  <2>4. Root \in Done
    BY <1>0, <2>1 DEF Done, HasStatus
  <2>5. OneBranchUnpruned
    BY <1>0, <2>1 DEF OneBranchUnpruned
  <2>6. CheckpointJobs
    BY <1>0, <1>1, <1>2, <2>1, <2>3, <2>4 DEF CheckpointJobs, Idle, Kind
  <2>7. InitRows
    BY <1>0, <2>1, <2>3 DEF InitRows, FirstOf, Kind
  <2>8. InitKnown
    <3>1. {Root} \in SUBSET Block /\ \E n \in Nat : \A b \in {Root} : Number[b] <= n
      BY <1>0
    <3>2. \A c \in Contract, k \in Kind :
             status[c][k] # 0 <=> \E b \in {Root} : states[<<b, c, k>>] # NoState
      <4> SUFFICES ASSUME NEW c \in Contract, NEW k \in Kind
                   PROVE  status[c][k] # 0 <=> \E b \in {Root} : states[<<b, c, k>>] # NoState
        OBVIOUS
      <4> DEFINE S == {Root}
      <4> HIDE DEF S
      <4>1. S \in SUBSET Block /\ \E n \in Nat : \A b \in S : Number[b] <= n
        BY <3>1 DEF S
      <4>2. StoredStatus(states, S)[c][k] # 0 <=> \E b \in S : states[<<b, c, k>>] # NoState
        BY <4>1, StoredHeight, Zenon
      <4> QED
        BY <2>1, <4>2 DEF S
    <3>3. \A c \in Contract, k \in Kind :
             status[c][k] # 0 <=> c \in Started(Root) /\ k = "checkpoint"
      BY <2>3, <3>2 DEF Exists
    <3> QED
      BY <2>1, <3>3 DEF InitKnown, NeedsInit, FirstOf, Kind
  <2>9. CheckpointsMergeDiffs
    <3> SUFFICES ASSUME NEW c \in Contract, Exists(Root, c, "checkpoint")
                 PROVE  states[<<Root, c, "checkpoint">>] = History(c, Root)
      BY <2>1 DEF CheckpointsMergeDiffs
    <3>1. c \in Started(Root)
      BY <2>3 DEF Kind
    <3> QED
      BY <2>2, <3>1 DEF Kind
  <2> QED
    BY <1>3, <2>5, <2>6, <2>7, <2>8, <2>9 DEF MergeInv
<1> QED
  BY <1>4, <1>5 DEF Init

LEMMA StutterMerged ==
    ASSUME SettledInv, MergeInv, UNCHANGED vars
    PROVE  MergeInv'
<1>1. UNCHANGED <<blockVars, states, indexed, firstIndexed, status, jobVars, calls>>
  BY DEF vars, syncVars
<1>2. checkpoints' \in Seq(Done) /\ InitKnown'
  BY <1>1, KnownKept DEF MergeInv, CheckpointJobs, jobVars, blockVars
<1> QED
  BY <1>1, <1>2, CallsAside DEF jobVars, Exists, MergeInv, CheckpointJobs, MergedData

LEMMA StepMerged ==
    ASSUME Number[Root] > 1, StartsUnforked, SettledInv, SettledInv', MergeInv, Next
    PROVE  MergeInv'
<1>1. ASSUME HooksWorker
      PROVE  MergeInv'
  BY <1>1, CreateDiffMerged, RemoveStagedMerged, UpdateIndexedMerged, FinishHooksMerged
     DEF HooksWorker
<1>2. ASSUME Crash
      PROVE  MergeInv'
  BY <1>2, RestartMerged DEF Crash
<1> QED
  BY <1>1, <1>2, IndexBlockMerged, CompleteBlockMerged, PruneBlockMerged, TakeHooksMerged,
     TakeCheckpointMerged, StartCommandMerged, CallStepMerged, EventsFailMerged,
     HooksFailMerged DEF Next

\* A checkpoint holds all updates of the contract up to its block, those of the block of
\* the initial state too, whichever calls and commands overlap, and whatever fails or is
\* lost on the way (createCheckpoint of packages/util/src/indexer.ts), for a watcher that
\* starts above block 1 and contracts that start at heights no branches part at.
THEOREM CheckpointsStayMerged ==
    ASSUME Number[Root] > 1, StartsUnforked
    PROVE  Spec => []CheckpointsMergeDiffs
<1>1. Init => SettledInv /\ MergeInv
  BY InitSettled, InitMerged
<1>2. SettledInv /\ MergeInv /\ [Next]_vars => (SettledInv /\ MergeInv)'
  BY StepSettled, StutterSettled, StepMerged, StutterMerged
<1>3. SettledInv /\ MergeInv => CheckpointsMergeDiffs
  BY DEF MergeInv
<1> QED
  BY <1>1, <1>2, <1>3, PTL DEF Spec

===============================================================================
