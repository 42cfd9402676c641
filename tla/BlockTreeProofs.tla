--------------------------- MODULE BlockTreeProofs ---------------------------
(***************************************************************************)
(* Facts about the tree of blocks.  None of them needs an induction: the    *)
(* ancestors of a block are in every set that is closed under Parent and    *)
(* holds it, so each proof exhibits such a set.                             *)
(***************************************************************************)
EXTENDS BlockTree, TLAPS

LEMMA AncestorsTyped == \A b \in Block : Ancestors[b] \subseteq Block
BY DEF Ancestors

\* what a closed set holds, it holds with all its ancestors
LEMMA ClosedHoldsAncestors ==
    ASSUME NEW S \in ParentClosed, NEW b \in S
    PROVE  Ancestors[b] \subseteq S
<1>1. b \in Block
  BY DEF ParentClosed
<1> QED
  BY <1>1 DEF Ancestors

\* the ancestors of a block hold it and are closed themselves
LEMMA AncestorsClosed ==
    ASSUME NEW b \in Block
    PROVE  /\ b \in Ancestors[b]
           /\ Ancestors[b] \in ParentClosed
<1>1. ASSUME NEW a \in Ancestors[b], a # Root
      PROVE  Parent[a] \in Ancestors[b]
  <2>1. a \in Block /\ Parent[a] \in Block
    BY <1>1, AncestorsTyped, BlockTreeAssumption
  <2>2. ASSUME NEW S \in ParentClosed, b \in S
        PROVE  Parent[a] \in S
    BY <1>1, <2>2, ClosedHoldsAncestors DEF ParentClosed
  <2> QED
    BY <2>1, <2>2 DEF Ancestors
<1> QED
  BY <1>1, AncestorsTyped DEF Ancestors, ParentClosed

\* below a block its ancestors have smaller numbers
LEMMA AncestorsBelow ==
    ASSUME NEW b \in Block, NEW a \in Ancestors[b], a # b
    PROVE  Number[a] < Number[b]
<1> DEFINE S == {c \in Block : c = b \/ Number[c] < Number[b]}
<1>1. ASSUME NEW c \in S \ {Root}
      PROVE  Parent[c] \in S
  BY <1>1, BlockTreeAssumption
<1>2. S \in ParentClosed
  BY <1>1 DEF ParentClosed
<1> QED
  BY <1>2, ClosedHoldsAncestors

\* the ancestors of a block other than itself are those of its parent
LEMMA AncestorsOfParent ==
    ASSUME NEW b \in Block \ {Root}
    PROVE  Ancestors[b] \subseteq {b} \cup Ancestors[Parent[b]]
<1> DEFINE S == {b} \cup Ancestors[Parent[b]]
<1>1. Parent[b] \in Block
  BY BlockTreeAssumption
<1>2. Ancestors[Parent[b]] \in ParentClosed /\ Parent[b] \in Ancestors[Parent[b]]
  BY <1>1, AncestorsClosed
<1>3. S \in ParentClosed
  BY <1>2 DEF ParentClosed
<1> QED
  BY <1>3, ClosedHoldsAncestors

LEMMA AncestorsTransitive ==
    ASSUME NEW b \in Block, NEW a \in Ancestors[b]
    PROVE  Ancestors[a] \subseteq Ancestors[b]
BY AncestorsClosed, ClosedHoldsAncestors

\* the ancestors of a block are on one branch
LEMMA AncestorsLinear ==
    ASSUME NEW h \in Block, NEW x \in Ancestors[h], NEW y \in Ancestors[h]
    PROVE  OnOneBranch(x, y)
<1> DEFINE S == Ancestors[x] \cup {a \in Ancestors[h] : x \in Ancestors[a]}
<1>1. x \in Block
  BY AncestorsTyped
<1>2. S \subseteq Block
  BY <1>1, AncestorsTyped
<1>3. ASSUME NEW a \in S \ {Root}
      PROVE  Parent[a] \in S
  <2>1. CASE a \in Ancestors[x]
    BY <1>1, <1>3, <2>1, AncestorsClosed DEF ParentClosed
  <2>2. CASE a \notin Ancestors[x]
    <3>1. a \in Ancestors[h] /\ x \in Ancestors[a] /\ a # x
      BY <1>1, <1>3, <2>2, AncestorsClosed
    <3>2. Parent[a] \in Ancestors[h]
      BY <1>3, <3>1, AncestorsClosed DEF ParentClosed
    <3>3. x \in Ancestors[Parent[a]]
      BY <1>2, <1>3, <3>1, AncestorsOfParent
    <3> QED
      BY <3>2, <3>3
  <2> QED
    BY <2>1, <2>2
<1>4. S \in ParentClosed
  BY <1>2, <1>3 DEF ParentClosed
<1>5. h \in S
  BY AncestorsClosed
<1> QED
  BY <1>4, <1>5, ClosedHoldsAncestors DEF OnOneBranch

\* and so have different numbers
LEMMA OneAncestorPerHeight ==
    ASSUME NEW h \in Block, NEW x \in Ancestors[h], NEW y \in Ancestors[h],
           Number[x] = Number[y]
    PROVE  x = y
<1>1. x \in Block /\ y \in Block
  BY AncestorsTyped
<1>2. Number[x] \in Nat /\ Number[y] \in Nat
  BY <1>1, BlockTreeAssumption
<1>3. OnOneBranch(x, y)
  BY AncestorsLinear
<1> QED
  BY <1>1, <1>2, <1>3, AncestorsBelow DEF OnOneBranch

\* only the root has its number
LEMMA RootLowest ==
    ASSUME NEW b \in Block \ {Root}
    PROVE  Number[Root] < Number[b]
BY RootAssumption, AncestorsBelow
==============================================================================
