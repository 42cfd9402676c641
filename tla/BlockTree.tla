------------------------------ MODULE BlockTree ------------------------------
(***************************************************************************)
(* The blocks an upstream Ethereum (or Filecoin FEVM) endpoint may serve to *)
(* a watcher: a finite tree under the block the watcher starts from.  A    *)
(* block number may skip heights, which is what a null round of FEVM looks  *)
(* like to the watcher.                                                     *)
(***************************************************************************)
EXTENDS Integers, FiniteSets

CONSTANTS
    Block,      \* the blocks of the tree, named by their hash
    NoBlock,    \* no hash: '' or constants.HashZero in the sync status
    Root,       \* the first block the watcher indexes
    Number,     \* Number[b], the block number of b
    Parent      \* Parent[b], the block whose hash is the parentHash of b

ASSUME BlockTreeAssumption ==
    /\ NoBlock \notin Block
    /\ Root \in Block
    /\ Number \in [Block -> Nat \ {0}]
    /\ Parent \in [Block -> Block \cup {NoBlock}]
    /\ Parent[Root] = NoBlock
    /\ \A b \in Block \ {Root} : /\ Parent[b] \in Block
                                 /\ Number[Parent[b]] < Number[b]

\* the sets that hold the parent of each of their blocks
ParentClosed == {S \in SUBSET Block : \A b \in S \ {Root} : Parent[b] \in S}

\* b and every block below it: what any such set that holds b has to hold
Ancestors ==
    [b \in Block |-> {a \in Block : \A S \in ParentClosed : b \in S => a \in S}]

\* the tree has one root
ASSUME RootAssumption == \A b \in Block : Root \in Ancestors[b]

Heights(S) == {Number[b] : b \in S}

\* the blocks of S with the smallest number
Lowest(S) == {b \in S : \A c \in S : Number[b] <= Number[c]}

\* the blocks of S with the largest number
Highest(S) == {b \in S : \A c \in S : Number[c] <= Number[b]}

AtHeight(S, n) == {b \in S : Number[b] = n}

\* two blocks are on one branch when one descends from the other
OnOneBranch(b, c) == b \in Ancestors[c] \/ c \in Ancestors[b]
==============================================================================
