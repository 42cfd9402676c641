--------------------------- MODULE MCEntityStore ---------------------------
(***************************************************************************)
(* Instances of EntityStore for TLC.                                        *)
(***************************************************************************)
EXTENDS EntityStore

CONSTANTS r, c2, a3, b3, a4, b4, b5, b6, pair, swap, user

Put(e) == [op |-> "set", id |-> e]
Del(e) == [op |-> "remove", id |-> e]

\* a branch of two blocks is left for another
Fork == {r, c2, a3, a4, b3, b4, b5, b6}
ForkNumber == (r :> 1) @@ (c2 :> 2) @@ (a3 :> 3) @@ (b3 :> 3) @@ (a4 :> 4)
                  @@ (b4 :> 4) @@ (b5 :> 5) @@ (b6 :> 6)
ForkParent == (r :> NoBlock) @@ (c2 :> r) @@ (a3 :> c2) @@ (b3 :> c2) @@ (a4 :> a3)
                  @@ (b4 :> b3) @@ (b5 :> b4) @@ (b6 :> b5)

\* the handlers of a block read what a branch that is left has updated only
\* after its own branch has
SharedOperations ==
    (r :> <<Put(pair), Put(swap), Put(user)>>) @@ (c2 :> <<Put(user), Del(swap), Del(swap)>>)
        @@ (a3 :> <<Put(pair), Put(swap)>>) @@ (b3 :> <<Put(pair), Put(pair)>>)
        @@ (a4 :> <<Put(pair)>>) @@ (b4 :> <<Del(pair), Put(user)>>)
        @@ (b5 :> <<Put(pair)>>) @@ (b6 :> <<Put(pair), Del(user)>>)

\* the branch that is left updates an entity that the other leaves alone
LoneOperations ==
    (r :> <<Put(pair), Put(swap)>>) @@ (c2 :> <<Put(pair)>>) @@ (a3 :> <<>>) @@ (b3 :> <<Put(pair)>>)
        @@ (a4 :> <<Put(swap)>>) @@ (b4 :> <<>>) @@ (b5 :> <<>>) @@ (b6 :> <<Put(swap)>>)

\* an entity of the branch that is left is removed on the other one
LoneRemove ==
    (r :> <<Put(pair), Put(swap)>>) @@ (c2 :> <<Put(pair)>>) @@ (a3 :> <<Put(user)>>) @@ (b3 :> <<Put(pair)>>)
        @@ (a4 :> <<>>) @@ (b4 :> <<>>) @@ (b5 :> <<>>) @@ (b6 :> <<Del(user)>>)

\* an entity is created on the branch that is left only
LoneCreate ==
    (r :> <<Put(pair), Put(swap)>>) @@ (c2 :> <<Put(pair)>>) @@ (a3 :> <<>>) @@ (b3 :> <<Put(pair)>>)
        @@ (a4 :> <<Put(user)>>) @@ (b4 :> <<>>) @@ (b5 :> <<>>) @@ (b6 :> <<>>)

\* the states that the store calls are to make are those that StateAfter has
ASSUME OperationsAppliedAssumption == OperationsApplied
===============================================================================
