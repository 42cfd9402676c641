---------------------------- MODULE ChainFollower -----------------------------
(***************************************************************************)
(* What a watcher promises about the blocks it indexes, with no queue, job, *)
(* process or database in sight: it applies the events of a block once, on  *)
(* top of those of the parent, whichever branch the block is on; and it     *)
(* settles on one branch, height by height, never going back on a choice.   *)
(***************************************************************************)
EXTENDS BlockTree

VARIABLES
    processed,      \* the blocks whose events have been applied
    final           \* the latest block the watcher has settled on

Init == processed = {} /\ final = NoBlock

\* the watcher starts from the first block and takes it for settled
Start == /\ final = NoBlock
         /\ final' = Root
         /\ UNCHANGED processed

Process(b) == /\ b \notin processed
              /\ final # NoBlock
              /\ b = Root \/ Parent[b] \in processed
              /\ processed' = processed \cup {b}
              /\ UNCHANGED final

Finalize(b) == /\ b \in processed \ {Root}
               /\ Parent[b] = final
               /\ final' = b
               /\ UNCHANGED processed

\* after a failure it may forget what it did above some height and do it again
Rewind(n) == /\ final # NoBlock
             /\ n >= Number[final]
             /\ processed' = {b \in processed : Number[b] <= n}
             /\ UNCHANGED final

Next == \/ Start
        \/ \E b \in Block : Process(b) \/ Finalize(b)
        \/ \E n \in Heights(Block) : Rewind(n)

Spec == Init /\ [][Next]_<<processed, final>>
===============================================================================
