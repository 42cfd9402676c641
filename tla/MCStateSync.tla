----------------------------- MODULE MCStateSync -----------------------------
(***************************************************************************)
(* Instances of StateSync for TLC.                                          *)
(***************************************************************************)
EXTENDS StateSync

CONSTANTS r, s3, s4, a4, b5, b6, b7, token, pool, job1, job2, cli

\* a branch of one block is left for another
Fork == {r, s3, a4, s4, b5, b6, b7}
ForkNumber == (r :> 2) @@ (s3 :> 3) @@ (a4 :> 4) @@ (s4 :> 4) @@ (b5 :> 5)
                  @@ (b6 :> 6) @@ (b7 :> 7)
ForkParent == (r :> NoBlock) @@ (s3 :> r) @@ (a4 :> s3) @@ (s4 :> s3) @@ (b5 :> s4)
                  @@ (b6 :> b5) @@ (b7 :> b6)

ForkStarts == (token :> 2) @@ (pool :> 3)

ForkUpdates == (r :> {token}) @@ (s3 :> {token, pool}) @@ (a4 :> {token, pool})
                   @@ (s4 :> {pool}) @@ (b5 :> {token}) @@ (b6 :> {token, pool}) @@ (b7 :> {})

\* one branch
Line == {r, s3, s4, b5, b6, b7}
LineNumber == [b \in Line |-> ForkNumber[b]]
LineParent == [b \in Line |-> ForkParent[b]]
LineUpdates == [b \in Line |-> {token}]
LineStarts == (token :> 2)
===============================================================================
