---------------------------- MODULE MCRealtimeSync ----------------------------
(***************************************************************************)
(* The block trees RealtimeSync is checked on.  The digit in the name of a  *)
(* block is its number.                                                     *)
(***************************************************************************)
EXTENDS RealtimeSync, TLC

CONSTANTS r, a2, a3, b2, b3, b4, c5, c6, c7

AllNumbers ==
    r :> 1 @@ a2 :> 2 @@ a3 :> 3 @@ b2 :> 2 @@ b3 :> 3 @@ b4 :> 4 @@ c5 :> 5
    @@ c6 :> 6 @@ c7 :> 7

\* a fork of depth 1 that the second branch wins
SmallFork       == {r, a2, b2, b3, b4}
SmallForkNumber == [b \in SmallFork |-> AllNumbers[b]]
SmallForkParent ==
    r :> NoBlock @@ a2 :> r @@ b2 :> r @@ b3 :> b2 @@ b4 :> b3

\* a reorg of depth 2: r - a2 - a3 gives way to r - b2 - c5 - c6 - c7, where
\* heights 3 and 4 are null rounds; with a2 and b2 saved, height 2 cannot be
\* pruned
NullRounds       == {r, a2, a3, b2, c5, c6, c7}
NullRoundsNumber == [b \in NullRounds |-> AllNumbers[b]]
NullRoundsParent == r :> NoBlock @@ a2 :> r @@ a3 :> a2
                    @@ b2 :> r @@ c5 :> b2 @@ c6 :> c5 @@ c7 :> c6
===============================================================================
