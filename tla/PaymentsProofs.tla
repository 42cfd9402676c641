---------------------------- MODULE PaymentsProofs ----------------------------
(***************************************************************************)
(* Theorems about Payments, for every set of channels and requests, every   *)
(* cost of their selections and every sequence of losses.                   *)
(***************************************************************************)
EXTENDS Payments, SequenceTheorems, FiniteSetTheorems, TLAPS

-------------------------------------------------------------------------------
(* The inductive invariant, in parts.                                       *)

RequestState ==
    [pc : {"new", "sent", "check", "wait", "woken", "closing", "done"},
     voucher : Voucher \cup {NoVoucher},
     next : Nat \ {0},
     payer : Account \cup {NoVoucher},
     result : {"none", "paid", "served", "quota", "insufficient", "not received"}]

LoopState ==
    [pc : {"select", "credit", "notify", "ended"},
     voucher : Voucher \cup {NoVoucher},
     todo : Seq(Request),
     live : BOOLEAN]

Types ==
    /\ made \in [Ledger -> Nat]
    /\ inbox \in Seq(Voucher)
    /\ stored \in [Ledger -> Nat]
    /\ paidSoFar \in [Ledger -> Nat \cup {NoPayment}]
    /\ received \in [Voucher -> Int \cup {NoPayment}]
    /\ free \in [Account -> 0..FreeLimit]
    /\ loop \in LoopState
    /\ loop.pc \in {"credit", "notify"} => loop.voucher \in Voucher
    /\ listeners \in Seq(Request)
    /\ requests \in [Request -> RequestState]
    /\ credited \in [Ledger -> Int]
    /\ spent \in [Voucher -> Nat]
    /\ served \in [Ledger -> Nat]
    /\ losses \subseteq Losses

\* A request that was sent names a voucher of its own channel, and one that waits
\* for it does so for a selection it has.
Named ==
    \A r \in Request :
        /\ requests[r].voucher # NoVoucher => requests[r].voucher[1] = Through[r]
        /\ requests[r].pc \in {"wait", "woken"} =>
               /\ requests[r].voucher # NoVoucher
               /\ requests[r].next <= Len(Selections[r])

SentOn(c) == {r \in Request : Through[r] = c /\ requests[r].pc # "new"}

\* A voucher is made by a request, and stored when it was made.
Made == \A c \in Ledger : stored[c] <= made[c] /\ made[c] <= Cardinality(SentOn(c))

Listening == {r \in Request : requests[r].pc \in {"wait", "woken", "closing"}}

\* Each request that waits has its listener, and no other has one.
Listeners == IsInjective(listeners) /\ ToSet(listeners) = Listening

\* the vouchers the loop has still to credit
Pending(v) == v \in ToSet(inbox) \/ (loop.pc = "credit" /\ v = loop.voucher)

\* The vouchers of a channel come to the loop in the order of their numbers.
InOrder ==
    /\ \A i, j \in DOMAIN inbox :
           i < j /\ inbox[i][1] = inbox[j][1] => inbox[i][2] < inbox[j][2]
    /\ loop.pc = "credit" =>
           \A i \in DOMAIN inbox :
               inbox[i][1] = loop.voucher[1] => loop.voucher[2] < inbox[i][2]
    /\ \A v \in Voucher : Pending(v) => v[2] <= stored[v[1]]

\* A voucher waits in the inbox, then its payment in the cache, then it is spent.
OneLife ==
    \A v \in Voucher :
        /\ spent[v] > 0 \/ received[v] # NoPayment => ~Pending(v) /\ v[2] <= stored[v[1]]
        /\ spent[v] > 0 => received[v] = NoPayment
        /\ spent[v] <= 1

\* the first k vouchers of a channel have been credited, or lost, and no other
CreditedTo(c, k) ==
    /\ paidSoFar[c] = k * PaymentAmount
    /\ credited[c] <= k * PaymentAmount
    /\ \A n \in 1..Cardinality(Request) :
           Pending(<<c, n>>) <=> k < n /\ n <= stored[c]

Counted ==
    "channel" \notin losses =>
        \A c \in Ledger : \E k \in 0..stored[c] : CreditedTo(c, k)

\* A payment is what one voucher adds to its channel.
SinglePayments ==
    "channel" \notin losses => \A v \in Voucher : received[v] \in {NoPayment, PaymentAmount}

SpentOn(c) == {n \in 1..Cardinality(Request) : spent[<<c, n>>] > 0}

\* What was let through on a channel is covered by its spent vouchers.
Covered ==
    "channel" \notin losses =>
        \A c \in Ledger : served[c] <= Cardinality(SpentOn(c)) * PaymentAmount

\* the loop has got the voucher of r, and r is one of those it has still to wake
StillToWake(r) ==
    /\ loop.pc = "notify"
    /\ r \in ToSet(loop.todo)
    /\ loop.voucher = requests[r].voucher

\* A request that sleeps, or was woken for the voucher of someone else, although its
\* payment is there, is still to be woken for its own.
Awake ==
    loop.pc # "ended" =>
        \A r \in Request :
            /\ \/ requests[r].pc = "wait"
               \/ requests[r].pc = "woken" /\ requests[r].payer # Client[r]
            /\ PaymentOf(r) # NoPayment
            => StillToWake(r)

PaymentsInv ==
    /\ Types
    /\ Named
    /\ Made
    /\ Listeners
    /\ InOrder
    /\ OneLife
    /\ Counted
    /\ SinglePayments
    /\ Covered
    /\ Awake

-------------------------------------------------------------------------------
(* Sequences, vouchers and amounts.                                         *)

LEMMA ToSetEmpty == DOMAIN <<>> = {} /\ ToSet(<<>>) = {}
<1>1. <<>> \in Seq({}) /\ Len(<<>>) = 0
  BY EmptySeq
<1>2. DOMAIN <<>> = 1..0
  BY <1>1, LenProperties
<1> QED
  BY <1>2 DEF ToSet

\* What an appended element adds to the elements of a sequence.
LEMMA ToSetAppend ==
    ASSUME NEW S, NEW s \in Seq(S), NEW e \in S
    PROVE  /\ Append(s, e) \in Seq(S)
           /\ ToSet(Append(s, e)) = ToSet(s) \cup {e}
           /\ IsInjective(s) /\ e \notin ToSet(s) => IsInjective(Append(s, e))
<1> DEFINE t == Append(s, e)
<1>1. /\ t \in Seq(S)
      /\ Len(t) = Len(s) + 1
      /\ \A i \in 1..Len(s) : t[i] = s[i]
      /\ t[Len(s) + 1] = e
  BY AppendProperties
<1>2. Len(s) \in Nat /\ DOMAIN s = 1..Len(s) /\ DOMAIN t = 1..(Len(s) + 1)
  BY <1>1, LenProperties
<1> HIDE DEF t
<1>3. ToSet(t) = ToSet(s) \cup {e}
  BY <1>1, <1>2 DEF ToSet
<1>4. IsInjective(s) /\ e \notin ToSet(s) => IsInjective(t)
  BY <1>1, <1>2 DEF ToSet, IsInjective
<1> QED
  BY <1>1, <1>3, <1>4 DEF t

\* The first element of a sequence and the others.
LEMMA ToSetTail ==
    ASSUME NEW S, NEW s \in Seq(S), s # <<>>
    PROVE  /\ Head(s) \in S
           /\ Head(s) = s[1]
           /\ 1 \in DOMAIN s
           /\ Tail(s) \in Seq(S)
           /\ ToSet(s) = {Head(s)} \cup ToSet(Tail(s))
           /\ \A i \in DOMAIN Tail(s) : i + 1 \in DOMAIN s /\ Tail(s)[i] = s[i + 1]
<1>1. /\ Head(s) \in S
      /\ Tail(s) \in Seq(S)
      /\ Len(Tail(s)) = Len(s) - 1
      /\ \A i \in 1..Len(Tail(s)) : Tail(s)[i] = s[i + 1]
  BY HeadTailProperties
<1>2. Len(s) \in Nat \ {0} /\ DOMAIN s = 1..Len(s) /\ DOMAIN Tail(s) = 1..(Len(s) - 1)
  BY <1>1, LenProperties, EmptySeq
<1>3. Head(s) = s[1]
  OBVIOUS
<1>4. ASSUME NEW i \in 1..Len(s), i # 1
      PROVE  i - 1 \in 1..(Len(s) - 1) /\ s[i] = Tail(s)[i - 1]
  <2>1. i - 1 \in 1..(Len(s) - 1) /\ (i - 1) + 1 = i
    BY <1>2, <1>4
  <2> QED
    BY <2>1, <1>1
<1>5. ToSet(s) \subseteq {Head(s)} \cup ToSet(Tail(s))
  <2>1. ASSUME NEW i \in 1..Len(s)
        PROVE  s[i] \in {Head(s)} \cup ToSet(Tail(s))
    BY <1>2, <1>3, <1>4 DEF ToSet
  <2> QED
    BY <1>2, <2>1 DEF ToSet
<1>6. {Head(s)} \cup ToSet(Tail(s)) \subseteq ToSet(s)
  BY <1>1, <1>2, <1>3 DEF ToSet
<1> QED
  BY <1>1, <1>2, <1>3, <1>5, <1>6

\* A sequence without repetitions loses exactly the element that is removed.
LEMMA ToSetRemove ==
    ASSUME NEW S, NEW s \in Seq(S), IsInjective(s), NEW i \in DOMAIN s
    PROVE  /\ RemoveAt(s, i) \in Seq(S)
           /\ IsInjective(RemoveAt(s, i))
           /\ ToSet(RemoveAt(s, i)) = ToSet(s) \ {s[i]}
<1> DEFINE a == SubSeq(s, 1, i - 1)
           b == SubSeq(s, i + 1, Len(s))
           t == RemoveAt(s, i)
<1>1. /\ Len(s) \in Nat
      /\ DOMAIN s = 1..Len(s)
      /\ \A j \in 1..Len(s) : s[j] \in S
  BY LenProperties, ElementOfSeq
<1>2. i \in 1..Len(s)
  BY <1>1
<1>3. a \in Seq(S) /\ Len(a) = i - 1 /\ \A j \in 1..(i - 1) : a[j] = s[j]
  <2>1. \A j \in 1..(i - 1) : s[j] \in S
    BY <1>1, <1>2
  <2>2. /\ a \in Seq(S)
        /\ Len(a) = IF 1 <= i - 1 THEN (i - 1) - 1 + 1 ELSE 0
        /\ \A j \in 1..((i - 1) - 1 + 1) : a[j] = s[1 + j - 1]
    BY <2>1, <1>2, SubSeqProperties
  <2>3. \A j \in 1..(i - 1) : 1 + j - 1 = j /\ j \in 1..((i - 1) - 1 + 1)
    BY <1>2
  <2> QED
    BY <2>2, <2>3, <1>2
<1>4. b \in Seq(S) /\ Len(b) = Len(s) - i /\ \A j \in 1..(Len(s) - i) : b[j] = s[i + j]
  <2>1. \A j \in (i + 1)..Len(s) : s[j] \in S
    BY <1>1, <1>2
  <2>2. /\ b \in Seq(S)
        /\ Len(b) = IF i + 1 <= Len(s) THEN Len(s) - (i + 1) + 1 ELSE 0
        /\ \A j \in 1..(Len(s) - (i + 1) + 1) : b[j] = s[i + 1 + j - 1]
    BY <2>1, <1>1, <1>2, SubSeqProperties
  <2>3. \A j \in 1..(Len(s) - i) : i + 1 + j - 1 = i + j /\ j \in 1..(Len(s) - (i + 1) + 1)
    BY <1>1, <1>2
  <2> QED
    BY <2>2, <2>3, <1>1, <1>2
<1>5. t \in Seq(S) /\ Len(t) = Len(s) - 1
      /\ \A j \in 1..(Len(s) - 1) : t[j] = IF j < i THEN s[j] ELSE s[j + 1]
  <2>1. /\ a \o b \in Seq(S)
        /\ Len(a \o b) = Len(a) + Len(b)
        /\ \A j \in 1..(Len(a) + Len(b)) :
               (a \o b)[j] = IF j <= Len(a) THEN a[j] ELSE b[j - Len(a)]
    BY <1>3, <1>4, ConcatProperties
  <2>2. t = a \o b
    BY DEF RemoveAt
  <2>3. Len(a) + Len(b) = Len(s) - 1
    <3>1. Len(a) = i - 1 /\ Len(b) = Len(s) - i
      BY <1>3, <1>4
    <3> QED
      BY <3>1, <1>1, <1>2
  <2> HIDE DEF a, b, t
  <2>4. ASSUME NEW j \in 1..(Len(s) - 1)
        PROVE  t[j] = IF j < i THEN s[j] ELSE s[j + 1]
    <3>1. CASE j < i
      <4>1. j \in 1..(i - 1) /\ j <= Len(a) /\ a[j] = s[j]
        BY <3>1, <1>1, <1>2, <1>3
      <4> QED
        BY <4>1, <3>1, <2>1, <2>2, <2>3
    <3>2. CASE ~(j < i)
      <4>1. j - (i - 1) \in 1..(Len(s) - i) /\ i + (j - (i - 1)) = j + 1
        BY <3>2, <1>1, <1>2
      <4>2. ~(j <= Len(a)) /\ Len(a) = i - 1
        BY <3>2, <1>1, <1>2, <1>3
      <4>3. t[j] = b[j - (i - 1)]
        BY <4>2, <2>1, <2>2, <2>3
      <4> QED
        BY <4>1, <4>3, <3>2, <1>4
    <3> QED
      BY <3>1, <3>2
  <2> QED
    BY <2>1, <2>2, <2>3, <2>4
<1> HIDE DEF t
<1>6. DOMAIN t = 1..(Len(s) - 1)
  BY <1>5, LenProperties
<1>7. IsInjective(t)
  BY <1>1, <1>2, <1>5, <1>6 DEF IsInjective
<1>8. ToSet(t) \subseteq ToSet(s) \ {s[i]}
  BY <1>1, <1>2, <1>5, <1>6 DEF ToSet, IsInjective
<1>9. ASSUME NEW j \in 1..Len(s), j # i
      PROVE  s[j] \in ToSet(t)
  <2>1. CASE j < i
    BY <2>1, <1>1, <1>2, <1>5, <1>6 DEF ToSet
  <2>2. CASE j > i
    <3>1. j - 1 \in 1..(Len(s) - 1) /\ t[j - 1] = s[j]
      BY <2>2, <1>1, <1>2, <1>5
    <3> QED
      BY <3>1, <1>6 DEF ToSet
  <2> QED
    BY <1>9, <2>1, <2>2, <1>1, <1>2
<1> QED
  BY <1>1, <1>5, <1>7, <1>8, <1>9 DEF ToSet, t

\* The amounts of successive vouchers.
LEMMA Amounts ==
    ASSUME NEW k \in Nat
    PROVE  /\ k * PaymentAmount \in Nat
           /\ (k + 1) * PaymentAmount = k * PaymentAmount + PaymentAmount
           /\ \A n \in Nat : k <= n => k * PaymentAmount <= n * PaymentAmount
<1>1. PaymentAmount \in Nat
  BY PaymentsAssumption
<1>2. ASSUME NEW n \in Nat, k <= n
      PROVE  k * PaymentAmount <= n * PaymentAmount
  <2>1. PICK d \in Nat : n = k + d
    BY <1>2
  <2>2. n * PaymentAmount = k * PaymentAmount + d * PaymentAmount
    BY <1>1, <2>1
  <2>3. d * PaymentAmount \in Nat /\ k * PaymentAmount \in Nat
    BY <1>1
  <2> QED
    BY <2>2, <2>3
<1> QED
  BY <1>1, <1>2

\* A voucher is a pair of a channel and a number.
LEMMA VoucherParts ==
    /\ Cardinality(Request) \in Nat
    /\ \A v \in Voucher :
           v[1] \in Ledger /\ v[2] \in 1..Cardinality(Request) /\ v = <<v[1], v[2]>>
    /\ \A c \in Ledger, n \in 1..Cardinality(Request) : <<c, n>> \in Voucher
    /\ \A v \in Voucher : AmountOf(v) \in Nat /\ PayerOf(v) \in Account
<1>1. Cardinality(Request) \in Nat
  BY PaymentsAssumption, FS_CardinalityType
<1>2. \A v \in Voucher :
          v[1] \in Ledger /\ v[2] \in 1..Cardinality(Request) /\ v = <<v[1], v[2]>>
  BY DEF Voucher
<1>3. \A c \in Ledger, n \in 1..Cardinality(Request) : <<c, n>> \in Voucher
  BY DEF Voucher
<1>4. ASSUME NEW v \in Voucher
      PROVE  AmountOf(v) \in Nat /\ PayerOf(v) \in Account
  <2>1. v[1] \in Ledger /\ v[2] \in Nat
    BY <1>1, <1>2
  <2> QED
    BY <2>1, Amounts, PaymentsAssumption DEF AmountOf, PayerOf
<1> QED
  BY <1>1, <1>2, <1>3, <1>4

LEMMA SentBound ==
    ASSUME NEW c
    PROVE  /\ IsFiniteSet(SentOn(c))
           /\ Cardinality(SentOn(c)) \in Nat
           /\ Cardinality(SentOn(c)) <= Cardinality(Request)
<1>1. SentOn(c) \subseteq Request
  BY DEF SentOn
<1> QED
  BY <1>1, PaymentsAssumption, FS_Subset, FS_CardinalityType

\* The voucher of a new request is one more, within the number of requests.
LEMMA NextMade ==
    ASSUME PaymentsInv, NEW r \in Request, SendRequest(r), Through[r] # NoVoucher
    PROVE  /\ made[Through[r]] + 1 <= Cardinality(SentOn(Through[r]))'
           /\ <<Through[r], made[Through[r]] + 1>> \in Voucher
<1> DEFINE c == Through[r]
<1>1. c \in Ledger
  BY PaymentsAssumption
<1>2. made[c] \in Nat /\ made[c] <= Cardinality(SentOn(c))
  BY <1>1 DEF PaymentsInv, Types, Made
<1>3. SentOn(c)' = SentOn(c) \cup {r}
  <2>1. requests \in [Request -> RequestState]
    BY DEF PaymentsInv, Types
  <2>2. \A q \in Request : requests'[q].pc = IF q = r THEN "sent" ELSE requests[q].pc
    <3>1. requests' = [requests EXCEPT ![r].pc = "sent",
                                       ![r].voucher = <<c, made[c] + 1>>]
      BY DEF SendRequest
    <3> QED
      BY <2>1, <3>1 DEF RequestState
  <2> QED
    BY <2>2 DEF SentOn
<1>4. r \notin SentOn(c)
  BY DEF SendRequest, SentOn
<1>5. Cardinality(SentOn(c)') = Cardinality(SentOn(c)) + 1
  BY <1>3, <1>4, SentBound, FS_AddElement
<1>6. Cardinality(SentOn(c)') <= Cardinality(Request)
  <2>1. SentOn(c)' \subseteq Request
    BY DEF SentOn
  <2> QED
    BY <2>1, PaymentsAssumption, FS_Subset
<1>7. Cardinality(SentOn(c)) \in Nat
  BY SentBound
<1> HIDE DEF c
<1>8. made[c] + 1 \in 1..Cardinality(Request)
  BY <1>2, <1>5, <1>6, <1>7, VoucherParts
<1>9. <<c, made[c] + 1>> \in Voucher
  BY <1>1, <1>8, VoucherParts
<1> QED
  BY <1>2, <1>5, <1>7, <1>9 DEF c

\* The next voucher the node stores was made.
LEMMA NextStored ==
    ASSUME PaymentsInv, NEW c \in Ledger, ReceiveVoucher(c)
    PROVE  <<c, stored[c] + 1>> \in Voucher
<1>1. /\ stored[c] \in Nat
      /\ made[c] \in Nat
      /\ stored[c] < made[c]
      /\ made[c] <= Cardinality(SentOn(c))
  BY DEF PaymentsInv, Types, Made, ReceiveVoucher
<1>2. stored[c] + 1 \in 1..Cardinality(Request)
  BY <1>1, SentBound, VoucherParts
<1> QED
  BY <1>2, VoucherParts

LEMMA LoopStates ==
    /\ Selecting \in LoopState
    /\ [Selecting EXCEPT !.pc = "ended"] \in LoopState
    /\ NewRequest \in RequestState
<1>1. <<>> \in Seq(Request)
  BY EmptySeq
<1>2. Selecting \in LoopState
  BY <1>1 DEF Selecting, LoopState
<1>3. [Selecting EXCEPT !.pc = "ended"] \in LoopState
  BY <1>2 DEF LoopState
<1>4. NewRequest \in RequestState
  BY DEF NewRequest, RequestState
<1> QED
  BY <1>2, <1>3, <1>4

\* The changes the steps make to the state of a request.
LEMMA RequestUpdate ==
    ASSUME NEW q \in RequestState
    PROVE  /\ [q EXCEPT !.pc = "sent"] \in RequestState
           /\ \A v \in Voucher : [q EXCEPT !.pc = "sent", !.voucher = v] \in RequestState
           /\ [q EXCEPT !.next = @ + 1] \in RequestState
           /\ \A pc \in {"done", "closing"} :
              \A x \in {"paid", "served", "quota", "insufficient", "not received"} :
                  [q EXCEPT !.pc = pc, !.result = x] \in RequestState
           /\ [q EXCEPT !.pc = "wait", !.payer = NoVoucher] \in RequestState
           /\ \A a \in Account : [q EXCEPT !.pc = "woken", !.payer = a] \in RequestState
           /\ [q EXCEPT !.pc = "check", !.next = @ + 1, !.result = "none",
                        !.payer = NoVoucher] \in RequestState
           /\ [q EXCEPT !.pc = "done", !.payer = NoVoucher] \in RequestState
<1>1. q.next + 1 \in Nat \ {0}
  <2>1. q.next \in Nat \ {0}
    BY DEF RequestState
  <2> QED
    BY <2>1
<1>2. [q EXCEPT !.pc = "sent"] \in RequestState
  BY DEF RequestState
<1>3. \A v \in Voucher : [q EXCEPT !.pc = "sent", !.voucher = v] \in RequestState
  BY DEF RequestState
<1>4. [q EXCEPT !.next = @ + 1] \in RequestState
  BY <1>1 DEF RequestState
<1>5. \A pc \in {"done", "closing"} :
      \A x \in {"paid", "served", "quota", "insufficient", "not received"} :
          [q EXCEPT !.pc = pc, !.result = x] \in RequestState
  BY DEF RequestState
<1>6. [q EXCEPT !.pc = "wait", !.payer = NoVoucher] \in RequestState
  BY DEF RequestState
<1>7. \A a \in Account : [q EXCEPT !.pc = "woken", !.payer = a] \in RequestState
  BY DEF RequestState
<1>8. [q EXCEPT !.pc = "check", !.next = @ + 1, !.result = "none", !.payer = NoVoucher]
          \in RequestState
  BY <1>1 DEF RequestState
<1>9. [q EXCEPT !.pc = "done", !.payer = NoVoucher] \in RequestState
  BY DEF RequestState
<1> QED
  BY <1>2, <1>3, <1>4, <1>5, <1>6, <1>7, <1>8, <1>9

LEMMA RequestUpdates ==
    ASSUME NEW f \in [Request -> RequestState], NEW r \in Request
    PROVE  /\ [f EXCEPT ![r].pc = "sent"] \in [Request -> RequestState]
           /\ \A v \in Voucher :
                  [f EXCEPT ![r].pc = "sent", ![r].voucher = v] \in [Request -> RequestState]
           /\ [f EXCEPT ![r].next = @ + 1] \in [Request -> RequestState]
           /\ \A pc \in {"done", "closing"} :
              \A x \in {"paid", "served", "quota", "insufficient", "not received"} :
                  [f EXCEPT ![r].pc = pc, ![r].result = x] \in [Request -> RequestState]
           /\ [f EXCEPT ![r].pc = "wait", ![r].payer = NoVoucher] \in [Request -> RequestState]
           /\ \A a \in Account :
                  [f EXCEPT ![r].pc = "woken", ![r].payer = a] \in [Request -> RequestState]
           /\ [f EXCEPT ![r].pc = "check", ![r].next = @ + 1, ![r].result = "none",
                        ![r].payer = NoVoucher] \in [Request -> RequestState]
           /\ [f EXCEPT ![r].pc = "done", ![r].payer = NoVoucher] \in [Request -> RequestState]
<1>1. f[r] \in RequestState
  OBVIOUS
<1>2. \A p \in RequestState : [f EXCEPT ![r] = p] \in [Request -> RequestState]
  OBVIOUS
<1>3. [f EXCEPT ![r].pc = "sent"] \in [Request -> RequestState]
  BY <1>1, <1>2, RequestUpdate
<1>4. \A v \in Voucher :
          [f EXCEPT ![r].pc = "sent", ![r].voucher = v] \in [Request -> RequestState]
  BY <1>1, <1>2, RequestUpdate
<1>5. [f EXCEPT ![r].next = @ + 1] \in [Request -> RequestState]
  BY <1>1, <1>2, RequestUpdate
<1>6. \A pc \in {"done", "closing"} :
      \A x \in {"paid", "served", "quota", "insufficient", "not received"} :
          [f EXCEPT ![r].pc = pc, ![r].result = x] \in [Request -> RequestState]
  BY <1>1, <1>2, RequestUpdate
<1>7. [f EXCEPT ![r].pc = "wait", ![r].payer = NoVoucher] \in [Request -> RequestState]
  BY <1>1, <1>2, RequestUpdate
<1>8. \A a \in Account :
          [f EXCEPT ![r].pc = "woken", ![r].payer = a] \in [Request -> RequestState]
  BY <1>1, <1>2, RequestUpdate
<1>9. [f EXCEPT ![r].pc = "check", ![r].next = @ + 1, ![r].result = "none",
                ![r].payer = NoVoucher] \in [Request -> RequestState]
  BY <1>1, <1>2, RequestUpdate
<1>10. [f EXCEPT ![r].pc = "done", ![r].payer = NoVoucher] \in [Request -> RequestState]
  BY <1>1, <1>2, RequestUpdate
<1> QED
  BY <1>3, <1>4, <1>5, <1>6, <1>7, <1>8, <1>9, <1>10

\* A request for which a selection is left has a cost for it.
LEMMA CostTyped ==
    ASSUME Types, NEW r \in Request, requests[r].next <= Len(Selections[r])
    PROVE  Cost(r) \in Nat \ {0}
<1>1. Selections[r] \in Seq(Nat \ {0})
  BY PaymentsAssumption
<1>2. requests[r].next \in 1..Len(Selections[r])
  <2>1. requests[r].next \in Nat \ {0}
    BY DEF Types, RequestState
  <2>2. Len(Selections[r]) \in Nat
    BY <1>1, LenProperties
  <2> QED
    BY <2>1, <2>2
<1> QED
  BY <1>1, <1>2, ElementOfSeq DEF Cost

\* The array without the listener of a request that has stopped to wait.
LEMMA ListenerRemoved ==
    ASSUME PaymentsInv, NEW r \in Request, RemoveListener(r)
    PROVE  /\ listeners' \in Seq(Request)
           /\ IsInjective(listeners')
           /\ ToSet(listeners') = ToSet(listeners) \ {r}
<1> DEFINE i == CHOOSE i \in DOMAIN listeners : listeners[i] = r
<1>1. listeners \in Seq(Request) /\ IsInjective(listeners) /\ ToSet(listeners) = Listening
  BY DEF PaymentsInv, Types, Listeners
<1>2. r \in ToSet(listeners)
  BY <1>1 DEF RemoveListener, Listening
<1>3. i \in DOMAIN listeners /\ listeners[i] = r
  BY <1>2 DEF ToSet
<1>4. listeners' = RemoveAt(listeners, i)
  BY DEF RemoveListener, OtherListeners
<1> QED
  BY <1>1, <1>3, <1>4, ToSetRemove

-------------------------------------------------------------------------------
(* Types.                                                                   *)

\* What acceptance changes.
LEMMA AcceptTyped ==
    ASSUME Types, NEW r \in Request, requests[r].voucher \in Voucher,
           requests[r].next <= Len(Selections[r]),
           NEW passed \in [Request -> RequestState],
           NEW insufficient \in [Request -> RequestState],
           Accept(r, passed, insufficient)
    PROVE  /\ received' \in [Voucher -> Int \cup {NoPayment}]
           /\ spent' \in [Voucher -> Nat]
           /\ served' \in [Ledger -> Nat]
           /\ requests' \in [Request -> RequestState]
<1>1. Cost(r) \in Nat
  BY CostTyped
<1>2. requests[r].voucher[1] \in Ledger
  BY VoucherParts
<1>3. /\ received \in [Voucher -> Int \cup {NoPayment}]
      /\ spent \in [Voucher -> Nat]
      /\ served \in [Ledger -> Nat]
  BY DEF Types
<1>4. CASE Suffices(r)
  <2> DEFINE v == requests[r].voucher
             n == Cost(r)
  <2>1. /\ received' = [received EXCEPT ![v] = NoPayment]
        /\ spent' = [spent EXCEPT ![v] = @ + 1]
        /\ served' = [served EXCEPT ![v[1]] = @ + n]
        /\ requests' = passed
    BY <1>4 DEF Accept, TakePayment
  <2> HIDE DEF v, n
  <2>2. n \in Nat /\ v[1] \in Ledger
    BY <1>1, <1>2 DEF v, n
  <2>3. received' \in [Voucher -> Int \cup {NoPayment}]
    BY <1>3, <2>1
  <2>4. spent' \in [Voucher -> Nat]
    <3>1. v \in Voucher /\ spent[v] + 1 \in Nat
      BY <1>3 DEF v
    <3> QED
      BY <1>3, <2>1, <3>1
  <2>5. served' \in [Ledger -> Nat]
    BY <1>3, <2>1, <2>2
  <2> QED
    BY <2>1, <2>3, <2>4, <2>5
<1>5. CASE ~Suffices(r)
  BY <1>3, <1>5 DEF Accept
<1> QED
  BY <1>4, <1>5

LEMMA TypesStep == PaymentsInv /\ [Next]_vars => Types'
<1> SUFFICES ASSUME PaymentsInv, [Next]_vars
             PROVE  Types'
  OBVIOUS
<1>0. Types /\ requests \in [Request -> RequestState]
  BY DEF PaymentsInv, Types
<1> USE DEF serverVars, history
<1>1. ASSUME NEW r \in Request, SendRequest(r)
      PROVE  Types'
  <2>1. requests' \in [Request -> RequestState]
    <3>1. Through[r] # NoVoucher => <<Through[r], made[Through[r]] + 1>> \in Voucher
      BY <1>1, NextMade
    <3> QED
      <4>1. CASE Through[r] = NoVoucher
        <5>1. requests' = [requests EXCEPT ![r].pc = "sent"]
          BY <1>1, <4>1 DEF SendRequest
        <5> QED
          BY <1>0, <5>1, RequestUpdates
      <4>2. CASE Through[r] # NoVoucher
        <5> DEFINE v == <<Through[r], made[Through[r]] + 1>>
        <5>1. requests' = [requests EXCEPT ![r].pc = "sent", ![r].voucher = v]
          BY <1>1, <4>2 DEF SendRequest
        <5>2. v \in Voucher
          BY <3>1, <4>2
        <5> HIDE DEF v
        <5> QED
          BY <1>0, <5>1, <5>2, RequestUpdates
      <4> QED
        BY <4>1, <4>2
  <2>2. made' \in [Ledger -> Nat]
    BY <1>0, <1>1 DEF Types, SendRequest
  <2> QED
    BY <1>0, <1>1, <2>1, <2>2 DEF Types, SendRequest
<1>2. ASSUME NEW r \in Request, RetryRequest(r)
      PROVE  Types'
  <2>1. requests' \in [Request -> RequestState]
    BY <1>0, <1>2, LoopStates DEF RetryRequest, RequestState
  <2> QED
    BY <1>0, <1>2, <2>1 DEF Types, RetryRequest
<1>3. ASSUME NEW c \in Ledger, ReceiveVoucher(c)
      PROVE  Types'
  <2>1. inbox' \in Seq(Voucher)
    BY <1>0, <1>3, NextStored, ToSetAppend DEF Types, ReceiveVoucher
  <2>2. stored' \in [Ledger -> Nat]
    BY <1>0, <1>3 DEF Types, ReceiveVoucher
  <2> QED
    BY <1>0, <1>3, <2>1, <2>2 DEF Types, ReceiveVoucher
<1>4. ASSUME NEW r \in Request, AdmitRequest(r)
      PROVE  Types'
  <2>1. requests' \in [Request -> RequestState]
    BY <1>0, <1>4 DEF AdmitRequest, RequestState
  <2> QED
    BY <1>0, <1>4, <2>1 DEF Types, AdmitRequest
<1>5. ASSUME NEW r \in Request, ServeRequest(r)
      PROVE  Types'
  <2>1. requests' \in [Request -> RequestState]
    BY <1>0, <1>5, RequestUpdates DEF ServeRequest, Answer
  <2> QED
    BY <1>0, <1>5, <2>1 DEF Types, ServeRequest
<1>6. ASSUME NEW r \in Request, UseFreeQuota(r)
      PROVE  Types'
  <2>1. requests' \in [Request -> RequestState]
    <3>1. CASE free[Client[r]] > 0
      <4>1. requests' = [requests EXCEPT ![r].next = @ + 1]
        BY <1>6, <3>1 DEF UseFreeQuota
      <4> QED
        BY <1>0, <4>1, RequestUpdates
    <3>2. Answer(r, "quota") \in [Request -> RequestState]
      BY <1>0, RequestUpdates DEF Answer
    <3>3. CASE ~(free[Client[r]] > 0)
      BY <1>6, <3>2, <3>3 DEF UseFreeQuota
    <3> QED
      BY <3>1, <3>3
  <2>2. free' \in [Account -> 0..FreeLimit]
    <3>1. Client[r] \in Account /\ FreeLimit \in Nat /\ free \in [Account -> 0..FreeLimit]
      BY <1>0, PaymentsAssumption DEF Types
    <3> QED
      BY <1>6, <3>1 DEF UseFreeQuota, CountQuota
  <2> QED
    BY <1>0, <1>6, <2>1, <2>2 DEF Types, UseFreeQuota
<1>7. ASSUME NEW r \in Request, FindPayment(r)
      PROVE  Types'
  <2>1. /\ [requests EXCEPT ![r].next = @ + 1] \in [Request -> RequestState]
        /\ Answer(r, "insufficient") \in [Request -> RequestState]
        /\ requests[r].voucher \in Voucher
    <3>1. requests[r].voucher \in Voucher
      BY <1>0, <1>7 DEF FindPayment, RequestState
    <3> QED
      BY <1>0, <3>1, RequestUpdates DEF Answer
  <2>2. requests[r].next <= Len(Selections[r])
    BY <1>7 DEF FindPayment, HasSelection
  <2> QED
    BY <1>0, <1>7, <2>1, <2>2, AcceptTyped DEF Types, FindPayment
<1>8. ASSUME NEW r \in Request, Listen(r)
      PROVE  Types'
  <2>1. requests' \in [Request -> RequestState]
    BY <1>0, <1>8 DEF Listen, RequestState
  <2>2. listeners' \in Seq(Request)
    BY <1>0, <1>8, ToSetAppend DEF Types, Listen
  <2>3. loop' \in LoopState /\ loop'.pc = loop.pc /\ loop'.voucher = loop.voucher
    BY <1>0, <1>8, ToSetAppend DEF Types, Listen, LoopState
  <2> QED
    BY <1>0, <1>8, <2>1, <2>2, <2>3 DEF Types, Listen
<1>9. ASSUME NEW r \in Request, Wake(r)
      PROVE  Types'
  <2>1. /\ [requests EXCEPT ![r].pc = "closing", ![r].result = "paid"]
               \in [Request -> RequestState]
        /\ [requests EXCEPT ![r].pc = "closing", ![r].result = "insufficient"]
               \in [Request -> RequestState]
        /\ [requests EXCEPT ![r].pc = "wait", ![r].payer = NoVoucher]
               \in [Request -> RequestState]
    BY <1>0, RequestUpdates
  <2>2. requests[r].voucher \in Voucher /\ requests[r].next <= Len(Selections[r])
    BY <1>0, <1>9 DEF PaymentsInv, Named, Types, Wake, RequestState
  <2>3. /\ received' \in [Voucher -> Int \cup {NoPayment}]
        /\ spent' \in [Voucher -> Nat]
        /\ served' \in [Ledger -> Nat]
        /\ requests' \in [Request -> RequestState]
    BY <1>0, <1>9, <2>1, <2>2, AcceptTyped DEF Types, Wake
  <2> QED
    BY <1>0, <1>9, <2>3 DEF Types, Wake
<1>10. ASSUME NEW r \in Request, TimeOut(r)
       PROVE  Types'
  <2>1. requests' \in [Request -> RequestState]
    BY <1>0, <1>10, RequestUpdates DEF TimeOut
  <2> QED
    BY <1>0, <1>10, <2>1 DEF Types, TimeOut
<1>11. ASSUME NEW r \in Request, RemoveListener(r)
       PROVE  Types'
  <2>1. requests' \in [Request -> RequestState]
    BY <1>0, <1>11, RequestUpdates DEF RemoveListener
  <2>2. loop' \in LoopState /\ loop'.pc = loop.pc /\ loop'.voucher = loop.voucher
    BY <1>0, <1>11 DEF Types, RemoveListener, LoopState
  <2>3. listeners' \in Seq(Request)
    BY <1>11, ListenerRemoved
  <2> QED
    BY <1>0, <1>11, <2>1, <2>2, <2>3 DEF Types, RemoveListener
<1>12. CASE TakeVoucher
  <2>1. Head(inbox) \in Voucher /\ Tail(inbox) \in Seq(Voucher)
    BY <1>0, <1>12, ToSetTail DEF Types, TakeVoucher
  <2>2. loop' \in LoopState /\ loop'.voucher \in Voucher
    BY <1>0, <1>12, <2>1 DEF Types, TakeVoucher, LoopState
  <2> QED
    BY <1>0, <1>12, <2>1, <2>2 DEF Types, TakeVoucher
<1>13. CASE CreditVoucher
  <2>1. loop.voucher \in Voucher
    BY <1>0, <1>13 DEF Types, CreditVoucher
  <2>2. /\ loop.voucher[1] \in Ledger
        /\ AmountOf(loop.voucher) \in Nat
        /\ Added(loop.voucher) \in Int
    BY <1>0, <2>1, VoucherParts DEF Types, Added, Credit
  <2>3. loop' \in LoopState /\ loop'.voucher = loop.voucher
    BY <1>0, <1>13 DEF Types, CreditVoucher, LoopState, Waiting
  <2>4. /\ paidSoFar' \in [Ledger -> Nat \cup {NoPayment}]
        /\ received' \in [Voucher -> Int \cup {NoPayment}]
        /\ credited' \in [Ledger -> Int]
    BY <1>0, <1>13, <2>1, <2>2 DEF Types, CreditVoucher
  <2> QED
    BY <1>0, <1>13, <2>1, <2>3, <2>4 DEF Types, CreditVoucher
<1>14. ASSUME NEW r \in Request, Notify(r)
       PROVE  Types'
  <2>1. requests' \in [Request -> RequestState]
    <3>1. PayerOf(loop.voucher) \in Account
      BY <1>0, <1>14, VoucherParts DEF Types, Notify
    <3> QED
      <4> DEFINE a == PayerOf(loop.voucher)
      <4>1. requests' = [requests EXCEPT ![r].pc = "woken", ![r].payer = a]
        BY <1>14 DEF Notify
      <4> HIDE DEF a
      <4>2. a \in Account
        BY <3>1 DEF a
      <4> QED
        BY <1>0, <4>1, <4>2, RequestUpdates
  <2>2. Tail(loop.todo) \in Seq(Request)
    BY <1>0, <1>14, ToSetTail DEF Types, LoopState, Notify
  <2>3. loop' \in LoopState /\ loop'.pc = loop.pc /\ loop'.voucher = loop.voucher
    BY <1>0, <1>14, <2>2 DEF Types, Notify, LoopState
  <2> QED
    BY <1>0, <1>14, <2>1, <2>3 DEF Types, Notify
<1>15. ASSUME NEW r \in Request, NotifyClosed(r)
       PROVE  Types'
  <2>1. Tail(loop.todo) \in Seq(Request)
    BY <1>0, <1>15, ToSetTail DEF Types, LoopState, NotifyClosed
  <2>2. [loop EXCEPT !.todo = Tail(@)] \in LoopState
    BY <1>0, <2>1 DEF Types, LoopState
  <2>3. loop' \in LoopState /\ (loop'.pc \in {"credit", "notify"} => loop'.voucher \in Voucher)
    BY <1>0, <1>15, <2>2, LoopStates DEF Types, NotifyClosed, LoopState, Selecting
  <2> QED
    BY <1>0, <1>15, <2>3 DEF Types, NotifyClosed
<1>16. CASE AllNotified
  BY <1>0, <1>16, LoopStates DEF Types, AllNotified, Selecting
<1>17. CASE ForgetPayment
  BY <1>0, <1>17 DEF Types, ForgetPayment, Lose
<1>18. CASE ForgetAccount
  BY <1>0, <1>18 DEF Types, ForgetAccount, Lose
<1>19. CASE ForgetChannel
  BY <1>0, <1>19 DEF Types, ForgetChannel, Lose
<1>20. CASE Restart
  <2>1. requests' \in [Request -> RequestState]
    BY <1>0, <1>20 DEF Restart, RequestState
  <2>2. paidSoFar' \in [Ledger -> Nat \cup {NoPayment}]
    <3>1. \A c \in Ledger : AmountOf(<<c, stored[c]>>) \in Nat
      BY <1>0, Amounts DEF Types, AmountOf
    <3> QED
      BY <3>1, <1>20 DEF Restart, LoadPaymentChannels
  <2>3. inbox' \in Seq(Voucher) /\ listeners' \in Seq(Request)
    BY <1>20, EmptySeq DEF Restart
  <2>4. loop' \in LoopState /\ loop'.pc = "select"
    BY <1>20, LoopStates DEF Restart, Selecting
  <2> QED
    <3>1. free' \in [Account -> 0..FreeLimit]
      <4>1. FreeLimit \in 0..FreeLimit
        BY PaymentsAssumption
      <4> QED
        BY <1>20, <4>1 DEF Restart
    <3>2. received' \in [Voucher -> Int \cup {NoPayment}] /\ losses' \subseteq Losses
      BY <1>0, <1>20 DEF Types, Restart, Lose
    <3> QED
      BY <1>0, <1>20, <2>1, <2>2, <2>3, <2>4, <3>1, <3>2 DEF Types, Restart
<1>21. CASE UNCHANGED vars
  BY <1>0, <1>21 DEF Types, vars
<1> QED
  BY <1>1, <1>2, <1>3, <1>4, <1>5, <1>6, <1>7, <1>8, <1>9, <1>10, <1>11, <1>12, <1>13,
     <1>14, <1>15, <1>16, <1>17, <1>18, <1>19, <1>20, <1>21
     DEF Next, RequestStep, LoopStep

-------------------------------------------------------------------------------
(* The requests.                                                            *)

\* The steps of a request at the server, and those that other parts take for it.
StepOf(r) ==
    SendRequest(r) \/ RetryRequest(r) \/ RequestStep(r) \/ TimeOut(r) \/ Notify(r)

LEMMA OthersUnchanged ==
    ASSUME requests \in [Request -> RequestState], NEW r \in Request, StepOf(r)
    PROVE  \A q \in Request : q # r => requests'[q] = requests[q]
<1>1. CASE SendRequest(r) \/ RetryRequest(r) \/ AdmitRequest(r) \/ ServeRequest(r)
  BY <1>1 DEF SendRequest, RetryRequest, AdmitRequest, ServeRequest, Answer
<1>2. CASE UseFreeQuota(r) \/ FindPayment(r) \/ Listen(r)
  BY <1>2 DEF UseFreeQuota, FindPayment, Accept, Listen, Answer
<1>3. CASE Wake(r) \/ TimeOut(r) \/ RemoveListener(r) \/ Notify(r)
  BY <1>3 DEF Wake, Accept, TimeOut, RemoveListener, Notify
<1> QED
  BY <1>1, <1>2, <1>3 DEF StepOf, RequestStep

\* A change of some fields leaves the others as they are.
LEMMA FieldsChanged ==
    ASSUME requests \in [Request -> RequestState], NEW r \in Request, NEW pc, NEW x
    PROVE  /\ [requests EXCEPT ![r].pc = pc][r] = [requests[r] EXCEPT !.pc = pc]
           /\ [requests EXCEPT ![r].next = x][r] = [requests[r] EXCEPT !.next = x]
           /\ [requests EXCEPT ![r].pc = pc, ![r].voucher = x][r]
                  = [requests[r] EXCEPT !.pc = pc, !.voucher = x]
           /\ [requests EXCEPT ![r].pc = pc, ![r].result = x][r]
                  = [requests[r] EXCEPT !.pc = pc, !.result = x]
           /\ [requests EXCEPT ![r].pc = pc, ![r].payer = x][r]
                  = [requests[r] EXCEPT !.pc = pc, !.payer = x]
OBVIOUS

LEMMA RecordFields ==
    ASSUME NEW q \in RequestState, NEW pc, NEW x
    PROVE  /\ [q EXCEPT !.pc = pc].pc = pc
           /\ [q EXCEPT !.pc = pc].voucher = q.voucher
           /\ [q EXCEPT !.pc = pc].next = q.next
           /\ [q EXCEPT !.pc = pc].payer = q.payer
           /\ [q EXCEPT !.next = x].pc = q.pc
           /\ [q EXCEPT !.next = x].voucher = q.voucher
           /\ [q EXCEPT !.pc = pc, !.voucher = x].pc = pc
           /\ [q EXCEPT !.pc = pc, !.voucher = x].voucher = x
           /\ [q EXCEPT !.pc = pc, !.result = x].pc = pc
           /\ [q EXCEPT !.pc = pc, !.result = x].voucher = q.voucher
           /\ [q EXCEPT !.pc = pc, !.payer = x].pc = pc
           /\ [q EXCEPT !.pc = pc, !.payer = x].voucher = q.voucher
           /\ [q EXCEPT !.pc = pc, !.payer = x].next = q.next
           /\ [q EXCEPT !.pc = pc, !.payer = x].payer = x
BY DEF RequestState

\* What each step does to the place, the voucher, the selection and the payer of
\* the request it is about.
LEMMA RequestSteps ==
    ASSUME requests \in [Request -> RequestState], NEW r \in Request
    PROVE  /\ SendRequest(r) =>
                  /\ requests[r].pc = "new" /\ requests'[r].pc = "sent"
                  /\ requests'[r].voucher = IF Through[r] = NoVoucher
                                            THEN requests[r].voucher
                                            ELSE <<Through[r], made[Through[r]] + 1>>
           /\ RetryRequest(r) =>
                  /\ requests[r].pc = "done" /\ requests'[r].pc = "sent"
                  /\ requests'[r].voucher = requests[r].voucher
           /\ AdmitRequest(r) =>
                  /\ requests[r].pc = "sent" /\ requests'[r].pc = "check"
                  /\ requests'[r].voucher = requests[r].voucher
           /\ ServeRequest(r) \/ UseFreeQuota(r) \/ FindPayment(r) =>
                  /\ requests[r].pc = "check" /\ requests'[r].pc \in {"check", "done"}
                  /\ requests'[r].voucher = requests[r].voucher
           /\ Listen(r) =>
                  /\ requests[r].pc = "check" /\ requests'[r].pc = "wait"
                  /\ requests'[r].voucher = requests[r].voucher
                  /\ requests'[r].next = requests[r].next
           /\ Wake(r) =>
                  /\ requests[r].pc = "woken" /\ requests'[r].pc \in {"wait", "closing"}
                  /\ requests'[r].voucher = requests[r].voucher
                  /\ requests'[r].pc = "wait" => requests'[r].next = requests[r].next
           /\ TimeOut(r) =>
                  /\ requests[r].pc = "wait" /\ requests'[r].pc = "closing"
                  /\ requests'[r].voucher = requests[r].voucher
           /\ RemoveListener(r) =>
                  /\ requests[r].pc = "closing" /\ requests'[r].pc \in {"check", "done"}
                  /\ requests'[r].voucher = requests[r].voucher
           /\ Notify(r) =>
                  /\ requests[r].pc = "wait" /\ requests'[r].pc = "woken"
                  /\ requests'[r].voucher = requests[r].voucher
                  /\ requests'[r].next = requests[r].next
                  /\ requests'[r].payer = PayerOf(loop.voucher)
<1>0. requests[r] \in RequestState
  OBVIOUS
<1>1. SendRequest(r) =>
          /\ requests[r].pc = "new" /\ requests'[r].pc = "sent"
          /\ requests'[r].voucher = IF Through[r] = NoVoucher
                                    THEN requests[r].voucher
                                    ELSE <<Through[r], made[Through[r]] + 1>>
  <2> SUFFICES ASSUME SendRequest(r)
               PROVE  /\ requests'[r].pc = "sent"
                      /\ requests'[r].voucher = IF Through[r] = NoVoucher
                                                THEN requests[r].voucher
                                                ELSE <<Through[r], made[Through[r]] + 1>>
    BY DEF SendRequest
  <2> DEFINE v == <<Through[r], made[Through[r]] + 1>>
  <2>1. CASE Through[r] = NoVoucher
    <3>1. requests' = [requests EXCEPT ![r].pc = "sent"]
      BY <2>1 DEF SendRequest
    <3> QED
      BY <1>0, <2>1, <3>1, FieldsChanged, RecordFields
  <2>2. CASE Through[r] # NoVoucher
    <3>1. requests' = [requests EXCEPT ![r].pc = "sent", ![r].voucher = v]
      BY <2>2 DEF SendRequest
    <3> HIDE DEF v
    <3>2. requests'[r] = [requests[r] EXCEPT !.pc = "sent", !.voucher = v]
      BY <3>1, FieldsChanged
    <3>3. requests'[r].pc = "sent" /\ requests'[r].voucher = v
      BY <1>0, <3>2, RecordFields
    <3> QED
      BY <2>2, <3>3 DEF v
  <2> QED
    BY <2>1, <2>2
<1>2. RetryRequest(r) =>
          /\ requests[r].pc = "done" /\ requests'[r].pc = "sent"
          /\ requests'[r].voucher = requests[r].voucher
  BY <1>0 DEF RetryRequest, NewRequest
<1>3. AdmitRequest(r) =>
          /\ requests[r].pc = "sent" /\ requests'[r].pc = "check"
          /\ requests'[r].voucher = requests[r].voucher
  BY <1>0, FieldsChanged, RecordFields DEF AdmitRequest
<1>4. ASSUME ServeRequest(r) \/ UseFreeQuota(r) \/ FindPayment(r)
      PROVE  /\ requests[r].pc = "check" /\ requests'[r].pc \in {"check", "done"}
             /\ requests'[r].voucher = requests[r].voucher
  <2>1. requests[r].pc = "check"
    BY <1>4 DEF ServeRequest, UseFreeQuota, FindPayment, HasSelection
  <2>2. \/ requests' = [requests EXCEPT ![r].next = requests[r].next + 1]
        \/ \E x : requests' = [requests EXCEPT ![r].pc = "done", ![r].result = x]
    BY <1>4 DEF ServeRequest, UseFreeQuota, FindPayment, Accept, Answer
  <2>3. CASE requests' = [requests EXCEPT ![r].next = requests[r].next + 1]
    BY <1>0, <2>1, <2>3, FieldsChanged, RecordFields
  <2>4. ASSUME NEW x, requests' = [requests EXCEPT ![r].pc = "done", ![r].result = x]
        PROVE  requests'[r].pc = "done" /\ requests'[r].voucher = requests[r].voucher
    <3>1. requests'[r] = [requests[r] EXCEPT !.pc = "done", !.result = x]
      BY <2>4, FieldsChanged
    <3> QED
      BY <1>0, <3>1, RecordFields
  <2> QED
    BY <2>1, <2>2, <2>3, <2>4
<1>5. Listen(r) =>
          /\ requests[r].pc = "check" /\ requests'[r].pc = "wait"
          /\ requests'[r].voucher = requests[r].voucher
          /\ requests'[r].next = requests[r].next
  BY <1>0, FieldsChanged, RecordFields DEF Listen, HasSelection
<1>6. ASSUME Wake(r)
      PROVE  /\ requests[r].pc = "woken" /\ requests'[r].pc \in {"wait", "closing"}
             /\ requests'[r].voucher = requests[r].voucher
             /\ requests'[r].pc = "wait" => requests'[r].next = requests[r].next
  <2>1. \/ requests' = [requests EXCEPT ![r].pc = "wait", ![r].payer = NoVoucher]
        \/ \E x : requests' = [requests EXCEPT ![r].pc = "closing", ![r].result = x]
    BY <1>6 DEF Wake, Accept
  <2>2. CASE requests' = [requests EXCEPT ![r].pc = "wait", ![r].payer = NoVoucher]
    <3>1. requests'[r] = [requests[r] EXCEPT !.pc = "wait", !.payer = NoVoucher]
      BY <2>2, FieldsChanged
    <3> QED
      BY <1>0, <1>6, <3>1, RecordFields DEF Wake
  <2>3. ASSUME NEW x, requests' = [requests EXCEPT ![r].pc = "closing", ![r].result = x]
        PROVE  requests'[r].pc = "closing" /\ requests'[r].voucher = requests[r].voucher
    <3>1. requests'[r] = [requests[r] EXCEPT !.pc = "closing", !.result = x]
      BY <2>3, FieldsChanged
    <3> QED
      BY <1>0, <3>1, RecordFields
  <2> QED
    BY <1>6, <2>1, <2>2, <2>3 DEF Wake
<1>7. ASSUME TimeOut(r)
      PROVE  /\ requests[r].pc = "wait" /\ requests'[r].pc = "closing"
             /\ requests'[r].voucher = requests[r].voucher
  <2>1. requests'[r] = [requests[r] EXCEPT !.pc = "closing", !.result = "not received"]
    BY <1>7, FieldsChanged DEF TimeOut
  <2>2. /\ requests'[r].pc = "closing"
        /\ requests'[r].voucher = requests[r].voucher
    BY <1>0, <2>1 DEF RequestState
  <2> QED
    BY <1>7, <2>2 DEF TimeOut
<1>8. ASSUME RemoveListener(r)
      PROVE  /\ requests[r].pc = "closing" /\ requests'[r].pc \in {"check", "done"}
             /\ requests'[r].voucher = requests[r].voucher
  <2>1. CASE requests[r].result = "paid"
    <3>1. requests'[r] = [requests[r] EXCEPT !.pc = "check", !.next = @ + 1,
                                             !.result = "none", !.payer = NoVoucher]
      BY <1>8, <2>1 DEF RemoveListener
    <3> QED
      BY <1>0, <1>8, <3>1 DEF RemoveListener, RequestState
  <2>2. CASE requests[r].result # "paid"
    <3>1. requests'[r] = [requests[r] EXCEPT !.pc = "done", !.payer = NoVoucher]
      BY <1>8, <2>2, FieldsChanged DEF RemoveListener
    <3> QED
      BY <1>0, <1>8, <3>1 DEF RemoveListener, RequestState
  <2> QED
    BY <2>1, <2>2
<1>9. ASSUME Notify(r)
      PROVE  /\ requests[r].pc = "wait" /\ requests'[r].pc = "woken"
             /\ requests'[r].voucher = requests[r].voucher
             /\ requests'[r].next = requests[r].next
             /\ requests'[r].payer = PayerOf(loop.voucher)
  <2> DEFINE a == PayerOf(loop.voucher)
  <2>1. requests' = [requests EXCEPT ![r].pc = "woken", ![r].payer = a]
    BY <1>9 DEF Notify
  <2> HIDE DEF a
  <2>2. requests'[r] = [requests[r] EXCEPT !.pc = "woken", !.payer = a]
    BY <2>1, FieldsChanged
  <2>3. /\ requests'[r].pc = "woken"
        /\ requests'[r].voucher = requests[r].voucher
        /\ requests'[r].next = requests[r].next
        /\ requests'[r].payer = a
    BY <1>0, <2>2, RecordFields
  <2> QED
    BY <1>9, <2>3 DEF Notify, a
<1> QED
  BY <1>1, <1>2, <1>3, <1>4, <1>5, <1>6, <1>7, <1>8, <1>9

\* The other steps change no request, but for a restart.
LEMMA OtherSteps ==
    ASSUME \/ \E c \in Ledger : ReceiveVoucher(c)
           \/ TakeVoucher \/ CreditVoucher \/ AllNotified
           \/ \E r \in Request : NotifyClosed(r)
           \/ ForgetPayment \/ ForgetAccount \/ ForgetChannel
           \/ UNCHANGED vars
    PROVE  requests' = requests /\ listeners' = listeners
BY DEF ReceiveVoucher, TakeVoucher, CreditVoucher, AllNotified, NotifyClosed, ForgetPayment,
       ForgetAccount, ForgetChannel, vars, serverVars

\* The requests a restart finds at work are done afterwards.
LEMMA RestartStep ==
    ASSUME requests \in [Request -> RequestState], Restart, NEW q \in Request
    PROVE  /\ requests'[q].voucher = requests[q].voucher
           /\ IF requests[q].pc \in {"new", "sent", "done"}
              THEN requests'[q].pc = requests[q].pc
              ELSE requests'[q].pc = "done"
<1>1. requests[q] \in RequestState
  OBVIOUS
<1>2. CASE q \in Active
  <2>1. requests'[q] = [requests[q] EXCEPT !.pc = "done", !.result = "not received",
                                           !.payer = NoVoucher]
    BY <1>2 DEF Restart
  <2> QED
    BY <1>1, <1>2, <2>1 DEF Active, RequestState
<1>3. CASE q \notin Active
  <2>1. requests'[q] = requests[q]
    BY <1>3 DEF Restart
  <2> QED
    BY <1>3, <2>1 DEF Active
<1> QED
  BY <1>2, <1>3

\* The three ways a step may go.
LEMMA Steps ==
    ASSUME [Next]_vars
    PROVE  \/ \E r \in Request : StepOf(r)
           \/ Restart
           \/ \E c \in Ledger : ReceiveVoucher(c)
           \/ TakeVoucher \/ CreditVoucher \/ AllNotified
           \/ \E r \in Request : NotifyClosed(r)
           \/ ForgetPayment \/ ForgetAccount \/ ForgetChannel
           \/ UNCHANGED vars
BY DEF Next, LoopStep, StepOf

\* What was lost is not forgotten.
LEMMA LossesGrow ==
    ASSUME [Next]_vars
    PROVE  losses \subseteq losses'
BY Steps DEF StepOf, RequestStep, SendRequest, RetryRequest, AdmitRequest, ServeRequest,
   UseFreeQuota, FindPayment, Listen, Wake, RemoveListener, TimeOut, Notify, Restart,
   ReceiveVoucher, TakeVoucher, CreditVoucher, AllNotified, NotifyClosed, ForgetPayment,
   ForgetAccount, ForgetChannel, Lose, vars

LEMMA NamedStep == PaymentsInv /\ [Next]_vars => Named'
<1> SUFFICES ASSUME PaymentsInv, [Next]_vars, NEW q \in Request
             PROVE  /\ requests'[q].voucher # NoVoucher => requests'[q].voucher[1] = Through[q]
                    /\ requests'[q].pc \in {"wait", "woken"} =>
                           /\ requests'[q].voucher # NoVoucher
                           /\ requests'[q].next <= Len(Selections[q])
  BY DEF Named
<1>1. /\ requests \in [Request -> RequestState]
      /\ requests[q].voucher # NoVoucher => requests[q].voucher[1] = Through[q]
      /\ requests[q].pc \in {"wait", "woken"} =>
             /\ requests[q].voucher # NoVoucher
             /\ requests[q].next <= Len(Selections[q])
  BY DEF PaymentsInv, Types, Named
<1>2. CASE requests'[q] = requests[q]
  BY <1>1, <1>2
<1>3. CASE StepOf(q)
  <2>1. CASE SendRequest(q)
    <3>1. /\ requests'[q].pc = "sent"
          /\ requests'[q].voucher = IF Through[q] = NoVoucher
                                    THEN requests[q].voucher
                                    ELSE <<Through[q], made[Through[q]] + 1>>
      BY <1>1, <2>1, RequestSteps
    <3> QED
      BY <1>1, <3>1
  <2>2. CASE RetryRequest(q) \/ AdmitRequest(q) \/ ServeRequest(q) \/ UseFreeQuota(q)
             \/ FindPayment(q) \/ TimeOut(q) \/ RemoveListener(q)
    <3>1. /\ requests'[q].voucher = requests[q].voucher
          /\ requests'[q].pc \notin {"wait", "woken"}
      BY <1>1, <2>2, RequestSteps
    <3> QED
      BY <1>1, <3>1
  <2>3. CASE Listen(q)
    <3>1. requests[q].next <= Len(Selections[q]) /\ requests[q].voucher # NoVoucher
      BY <2>3 DEF Listen, HasSelection
    <3> QED
      BY <1>1, <2>3, <3>1, RequestSteps
  <2>4. CASE Wake(q) \/ Notify(q)
    <3>1. /\ requests[q].pc \in {"wait", "woken"}
          /\ requests'[q].voucher = requests[q].voucher
          /\ requests'[q].pc \in {"wait", "woken"} => requests'[q].next = requests[q].next
      BY <1>1, <2>4, RequestSteps
    <3> QED
      BY <1>1, <3>1
  <2> QED
    BY <1>3, <2>1, <2>2, <2>3, <2>4 DEF StepOf, RequestStep
<1>4. CASE Restart
  BY <1>1, <1>4, RestartStep
<1> QED
  BY <1>1, <1>2, <1>3, <1>4, Steps, OtherSteps, OthersUnchanged

\* No step makes a request new again, and only SendRequest makes vouchers.
LEMMA SentGrows ==
    ASSUME PaymentsInv, [Next]_vars, NEW c
    PROVE  SentOn(c) \subseteq SentOn(c)' /\ Cardinality(SentOn(c)) <= Cardinality(SentOn(c))'
<1>1. requests \in [Request -> RequestState]
  BY DEF PaymentsInv, Types
<1>2. ASSUME NEW q \in Request, requests[q].pc # "new"
      PROVE  requests'[q].pc # "new"
  <2>1. CASE StepOf(q)
    BY <1>1, <2>1, RequestSteps DEF StepOf, RequestStep
  <2>2. CASE Restart
    BY <1>1, <1>2, <2>2, RestartStep
  <2> QED
    BY <1>1, <1>2, <2>1, <2>2, Steps, OtherSteps, OthersUnchanged
<1>3. SentOn(c) \subseteq SentOn(c)'
  BY <1>2 DEF SentOn
<1>4. IsFiniteSet(SentOn(c)')
  <2>1. SentOn(c)' \subseteq Request
    BY DEF SentOn
  <2> QED
    BY <2>1, PaymentsAssumption, FS_Subset
<1>5. Cardinality(SentOn(c)) <= Cardinality(SentOn(c)')
  BY <1>3, <1>4, FS_Subset
<1> QED
  BY <1>3, <1>5

LEMMA MadeStep == PaymentsInv /\ [Next]_vars => Made'
<1> SUFFICES ASSUME PaymentsInv, [Next]_vars, NEW c \in Ledger
             PROVE  stored'[c] <= made'[c] /\ made'[c] <= Cardinality(SentOn(c))'
  BY DEF Made
<1>1. /\ stored \in [Ledger -> Nat]
      /\ made \in [Ledger -> Nat]
      /\ stored[c] <= made[c]
      /\ made[c] <= Cardinality(SentOn(c))
  BY DEF PaymentsInv, Types, Made
<1>2. /\ Cardinality(SentOn(c)) \in Nat
      /\ Cardinality(SentOn(c))' \in Nat
      /\ Cardinality(SentOn(c)) <= Cardinality(SentOn(c))'
  <2>1. Cardinality(SentOn(c))' \in Nat
    <3>1. SentOn(c)' \subseteq Request
      BY DEF SentOn
    <3> QED
      BY <3>1, PaymentsAssumption, FS_Subset, FS_CardinalityType
  <2> QED
    BY <2>1, SentBound, SentGrows
<1>3. ASSUME NEW r \in Request, SendRequest(r)
      PROVE  stored'[c] <= made'[c] /\ made'[c] <= Cardinality(SentOn(c))'
  <2>1. CASE Through[r] = c
    <3>1. Through[r] # NoVoucher
      BY <2>1, PaymentsAssumption
    <3>2. made[c] + 1 <= Cardinality(SentOn(c))'
      BY <1>3, <2>1, <3>1, NextMade
    <3>3. made'[c] = made[c] + 1 /\ stored' = stored
      BY <1>1, <1>3, <2>1, <3>1 DEF SendRequest
    <3> QED
      BY <1>1, <3>2, <3>3
  <2>2. CASE Through[r] # c
    <3>1. made'[c] = made[c] /\ stored' = stored
      BY <1>1, <1>3, <2>2 DEF SendRequest
    <3> QED
      BY <1>1, <1>2, <3>1
  <2> QED
    BY <2>1, <2>2
<1>4. ASSUME NEW d \in Ledger, ReceiveVoucher(d)
      PROVE  stored'[c] <= made'[c] /\ made'[c] <= Cardinality(SentOn(c))'
  <2>1. made' = made /\ stored'[c] <= made[c]
    BY <1>1, <1>4 DEF ReceiveVoucher
  <2> QED
    BY <1>1, <1>2, <2>1
<1>5. CASE made' = made /\ stored' = stored
  BY <1>1, <1>2, <1>5
<1>6. ASSUME NEW r \in Request, RetryRequest(r) \/ RequestStep(r) \/ TimeOut(r)
      PROVE  made' = made /\ stored' = stored
  BY <1>6 DEF RetryRequest, RequestStep, AdmitRequest, ServeRequest, UseFreeQuota, FindPayment,
              Listen, Wake, RemoveListener, TimeOut
<1>7. CASE LoopStep \/ ForgetPayment \/ ForgetAccount \/ ForgetChannel \/ Restart
  BY <1>5, <1>7 DEF LoopStep, TakeVoucher, CreditVoucher, Notify, NotifyClosed, AllNotified,
                    ForgetPayment, ForgetAccount, ForgetChannel, Restart
<1>8. CASE UNCHANGED vars
  BY <1>5, <1>8 DEF vars
<1> QED
  BY <1>3, <1>4, <1>5, <1>6, <1>7, <1>8 DEF Next

LEMMA ListenersStep == PaymentsInv /\ [Next]_vars => Listeners'
<1> SUFFICES ASSUME PaymentsInv, [Next]_vars
             PROVE  Listeners'
  OBVIOUS
<1>1. /\ requests \in [Request -> RequestState]
      /\ listeners \in Seq(Request)
      /\ IsInjective(listeners)
      /\ ToSet(listeners) = Listening
  BY DEF PaymentsInv, Types, Listeners
<1>2. CASE listeners' = listeners /\ Listening' = Listening
  BY <1>1, <1>2 DEF Listeners
<1>3. ASSUME NEW r \in Request, StepOf(r)
      PROVE  Listeners'
  <2>1. \A q \in Request : q # r => requests'[q] = requests[q]
    BY <1>1, <1>3, OthersUnchanged
  <2>2. CASE Listen(r)
    <3>1. requests[r].pc = "check" /\ requests'[r].pc = "wait"
      BY <1>1, <2>2, RequestSteps
    <3>2. r \notin Listening /\ Listening' = Listening \cup {r}
      BY <2>1, <3>1 DEF Listening
    <3>3. listeners' = Append(listeners, r)
      BY <2>2 DEF Listen
    <3>4. ToSet(listeners') = Listening' /\ IsInjective(listeners')
      BY <1>1, <3>2, <3>3, ToSetAppend
    <3> QED
      BY <3>4 DEF Listeners
  <2>3. CASE RemoveListener(r)
    <3>1. requests'[r].pc \in {"check", "done"}
      BY <1>1, <2>3, RequestSteps
    <3>2. Listening' = Listening \ {r}
      BY <2>1, <3>1 DEF Listening
    <3> QED
      BY <1>1, <2>3, <3>2, ListenerRemoved DEF Listeners
  <2>4. CASE Wake(r) \/ TimeOut(r) \/ Notify(r)
    <3>1. /\ requests[r].pc \in {"wait", "woken", "closing"}
          /\ requests'[r].pc \in {"wait", "woken", "closing"}
      BY <1>1, <2>4, RequestSteps
    <3>2. Listening' = Listening
      BY <2>1, <3>1 DEF Listening
    <3>3. listeners' = listeners
      BY <2>4 DEF Wake, TimeOut, Notify, serverVars
    <3> QED
      BY <1>2, <3>2, <3>3
  <2>5. CASE SendRequest(r) \/ RetryRequest(r) \/ AdmitRequest(r) \/ ServeRequest(r)
             \/ UseFreeQuota(r) \/ FindPayment(r)
    <3>1. /\ requests[r].pc \notin {"wait", "woken", "closing"}
          /\ requests'[r].pc \notin {"wait", "woken", "closing"}
      BY <1>1, <2>5, RequestSteps
    <3>2. Listening' = Listening
      BY <2>1, <3>1 DEF Listening
    <3>3. listeners' = listeners
      BY <2>5 DEF SendRequest, RetryRequest, AdmitRequest, ServeRequest, UseFreeQuota,
                  FindPayment, serverVars
    <3> QED
      BY <1>2, <3>2, <3>3
  <2> QED
    BY <1>3, <2>2, <2>3, <2>4, <2>5 DEF StepOf, RequestStep
<1>4. CASE Restart
  <2>1. \A q \in Request : requests'[q].pc \notin {"wait", "woken", "closing"}
    BY <1>1, <1>4, RestartStep
  <2>2. Listening' = {}
    BY <2>1 DEF Listening
  <2>3. listeners' = <<>>
    BY <1>4 DEF Restart
  <2> QED
    BY <2>2, <2>3 DEF Listeners, ToSet, IsInjective
<1>5. CASE requests' = requests /\ listeners' = listeners
  BY <1>2, <1>5 DEF Listening
<1> QED
  BY <1>3, <1>4, <1>5, Steps, OtherSteps

-------------------------------------------------------------------------------
(* The vouchers and what they pay for.                                      *)

\* A request has taken the payment of its voucher.
Spend(r) ==
    /\ requests[r].voucher \in Voucher
    /\ PaymentOf(r) # NoPayment
    /\ Cost(r) \in Nat
    /\ Suffices(r)
    /\ received' = [received EXCEPT ![requests[r].voucher] = NoPayment]
    /\ spent' = [spent EXCEPT ![requests[r].voucher] = @ + 1]
    /\ served' = [served EXCEPT ![requests[r].voucher[1]] = @ + Cost(r)]
    /\ UNCHANGED <<inbox, stored, paidSoFar, loop, credited, losses>>

\* The cache of payments has lost some of them.
Forget ==
    /\ \A v \in Voucher : received'[v] \in {received[v], NoPayment}
    /\ losses \subseteq losses'
    /\ "channel" \notin losses' => paidSoFar' = paidSoFar
    /\ UNCHANGED <<inbox, stored, loop, credited, spent, served>>

\* Nothing has happened to the vouchers.
Quiet ==
    /\ UNCHANGED <<inbox, stored, paidSoFar, received, credited, spent, served, losses>>
    /\ loop'.pc = "credit" <=> loop.pc = "credit"
    /\ loop.pc = "credit" => loop'.voucher = loop.voucher

\* A step that goes on is accepted, or leaves the vouchers alone.
LEMMA AcceptSteps ==
    ASSUME PaymentsInv, NEW r \in Request, FindPayment(r) \/ Wake(r)
    PROVE  Spend(r) \/ Quiet
<1>1. /\ requests[r].voucher \in Voucher
      /\ requests[r].next <= Len(Selections[r])
  <2>1. /\ requests[r] \in RequestState
        /\ requests[r].pc = "woken" => /\ requests[r].voucher # NoVoucher
                                       /\ requests[r].next <= Len(Selections[r])
    BY DEF PaymentsInv, Types, Named
  <2>2. requests[r].voucher \in Voucher \cup {NoVoucher}
    BY <2>1 DEF RequestState
  <2> QED
    BY <2>1, <2>2 DEF FindPayment, Wake, HasSelection
<1>2. Cost(r) \in Nat
  BY <1>1, CostTyped DEF PaymentsInv
<1>3. UNCHANGED <<inbox, stored, paidSoFar, loop, credited, losses>>
  BY DEF FindPayment, Wake
<1>4. CASE UNCHANGED <<received, spent, served>>
  BY <1>3, <1>4 DEF Quiet
<1>5. \/ UNCHANGED <<received, spent, served>>
      \/ /\ PaymentOf(r) # NoPayment
         /\ Suffices(r)
         /\ received' = [received EXCEPT ![requests[r].voucher] = NoPayment]
         /\ spent' = [spent EXCEPT ![requests[r].voucher] = @ + 1]
         /\ served' = [served EXCEPT ![requests[r].voucher[1]] = @ + Cost(r)]
  BY DEF FindPayment, Wake, Accept, TakePayment
<1> QED
  BY <1>1, <1>2, <1>3, <1>4, <1>5 DEF Spend

LEMMA VoucherSteps ==
    ASSUME PaymentsInv, [Next]_vars
    PROVE  \/ \E c \in Ledger : ReceiveVoucher(c)
           \/ TakeVoucher
           \/ CreditVoucher
           \/ Restart
           \/ \E r \in Request : Spend(r)
           \/ Forget
           \/ Quiet
<1>1. /\ loop \in LoopState
      /\ received \in [Voucher -> Int \cup {NoPayment}]
  BY DEF PaymentsInv, Types
<1> USE DEF serverVars, history
<1>2. ASSUME NEW r \in Request,
             SendRequest(r) \/ RetryRequest(r) \/ AdmitRequest(r) \/ ServeRequest(r)
             \/ UseFreeQuota(r) \/ TimeOut(r)
      PROVE  Quiet
  BY <1>2 DEF SendRequest, RetryRequest, AdmitRequest, ServeRequest, UseFreeQuota, TimeOut, Quiet
<1>3. ASSUME NEW r \in Request, FindPayment(r) \/ Wake(r)
      PROVE  Spend(r) \/ Quiet
  BY <1>3, AcceptSteps
<1>4. ASSUME NEW r \in Request, Listen(r) \/ RemoveListener(r) \/ Notify(r)
      PROVE  Quiet
  <2>1. loop'.pc = loop.pc /\ loop'.voucher = loop.voucher
    BY <1>1, <1>4 DEF Listen, RemoveListener, Notify, LoopState
  <2> QED
    BY <1>4, <2>1 DEF Listen, RemoveListener, Notify, Quiet
<1>5. ASSUME NEW r \in Request, NotifyClosed(r)
      PROVE  Quiet
  <2>1. loop.pc = "notify" /\ loop'.pc # "credit"
    BY <1>1, <1>5 DEF NotifyClosed, Selecting, LoopState
  <2> QED
    BY <1>5, <2>1 DEF NotifyClosed, Quiet
<1>6. CASE AllNotified
  BY <1>6 DEF AllNotified, Selecting, Quiet
<1>7. CASE ForgetPayment
  BY <1>1, <1>7 DEF ForgetPayment, Lose, Forget
<1>8. CASE ForgetAccount
  BY <1>1, <1>8 DEF ForgetAccount, Lose, Forget
<1>9. CASE ForgetChannel
  BY <1>1, <1>9 DEF ForgetChannel, Lose, Forget
<1>10. CASE UNCHANGED vars
  BY <1>10 DEF vars, Quiet
<1> QED
  BY <1>2, <1>3, <1>4, <1>5, <1>6, <1>7, <1>8, <1>9, <1>10 DEF Next, RequestStep, LoopStep

\* How the steps change what is pending.
LEMMA PendingSteps ==
    ASSUME PaymentsInv, NEW v
    PROVE  /\ Quiet => (Pending(v)' <=> Pending(v))
           /\ Forget => (Pending(v)' <=> Pending(v))
           /\ \A r \in Request : Spend(r) => (Pending(v)' <=> Pending(v))
           /\ \A c \in Ledger :
                  ReceiveVoucher(c) => (Pending(v)' <=> Pending(v) \/ v = <<c, stored[c] + 1>>)
           /\ TakeVoucher => (Pending(v)' <=> Pending(v))
           /\ CreditVoucher => (Pending(v)' <=> Pending(v) /\ v # loop.voucher)
           /\ Restart => ~Pending(v)'
<1>1. /\ inbox \in Seq(Voucher)
      /\ loop \in LoopState
      /\ loop.pc = "credit" => loop.voucher \notin ToSet(inbox)
  <2>1. inbox \in Seq(Voucher) /\ loop \in LoopState
    BY DEF PaymentsInv, Types
  <2>2. loop.pc = "credit" =>
            /\ loop.voucher \in Voucher
            /\ \A i \in DOMAIN inbox :
                   inbox[i][1] = loop.voucher[1] => loop.voucher[2] < inbox[i][2]
    BY DEF PaymentsInv, Types, InOrder
  <2>3. \A u \in Voucher : u[2] \in Nat
    BY VoucherParts
  <2> QED
    BY <2>1, <2>2, <2>3 DEF ToSet
<1>2. Quiet => (Pending(v)' <=> Pending(v))
  BY DEF Quiet, Pending
<1>3. /\ Forget => (Pending(v)' <=> Pending(v))
      /\ \A r \in Request : Spend(r) => (Pending(v)' <=> Pending(v))
  BY DEF Forget, Spend, Pending
<1>4. ASSUME NEW c \in Ledger, ReceiveVoucher(c)
      PROVE  Pending(v)' <=> Pending(v) \/ v = <<c, stored[c] + 1>>
  <2> DEFINE u == <<c, stored[c] + 1>>
  <2>1. inbox' = Append(inbox, u) /\ loop' = loop
    BY <1>4 DEF ReceiveVoucher, serverVars
  <2>2. u \in Voucher
    BY <1>4, NextStored
  <2> HIDE DEF u
  <2>3. ToSet(inbox') = ToSet(inbox) \cup {u}
    BY <1>1, <2>1, <2>2, ToSetAppend
  <2> QED
    BY <2>1, <2>3 DEF Pending, u
<1>5. ASSUME TakeVoucher
      PROVE  Pending(v)' <=> Pending(v)
  <2>1. loop.pc = "select" /\ loop'.pc = "credit" /\ loop'.voucher = Head(inbox)
    BY <1>1, <1>5 DEF TakeVoucher, LoopState
  <2>2. ToSet(inbox) = {Head(inbox)} \cup ToSet(inbox')
    BY <1>1, <1>5, ToSetTail DEF TakeVoucher
  <2> QED
    BY <2>1, <2>2 DEF Pending
<1>6. ASSUME CreditVoucher
      PROVE  Pending(v)' <=> Pending(v) /\ v # loop.voucher
  <2>1. loop.pc = "credit" /\ loop'.pc = "notify" /\ inbox' = inbox
    BY <1>1, <1>6 DEF CreditVoucher, LoopState
  <2> QED
    BY <1>1, <2>1 DEF Pending
<1>7. ASSUME Restart
      PROVE  ~Pending(v)'
  <2>1. loop'.pc = "select"
    BY <1>7 DEF Restart, Selecting
  <2>2. inbox' = <<>> /\ ToSet(<<>>) = {}
    BY <1>7, ToSetEmpty DEF Restart
  <2> QED
    BY <2>1, <2>2 DEF Pending
<1> QED
  BY <1>2, <1>3, <1>4, <1>5, <1>6, <1>7

LEMMA InOrderStep == PaymentsInv /\ [Next]_vars => InOrder'
<1> SUFFICES ASSUME PaymentsInv, [Next]_vars
             PROVE  InOrder'
  OBVIOUS
<1>1. /\ inbox \in Seq(Voucher)
      /\ loop \in LoopState
      /\ stored \in [Ledger -> Nat]
      /\ InOrder
  BY DEF PaymentsInv, Types
<1>2. \A u \in Voucher : u[1] \in Ledger /\ u[2] \in Nat
  BY VoucherParts
<1>3. /\ Len(inbox) \in Nat
      /\ DOMAIN inbox = 1..Len(inbox)
      /\ \A i \in DOMAIN inbox : inbox[i] \in Voucher /\ inbox[i] \in ToSet(inbox)
  BY <1>1, LenProperties, ElementOfSeq DEF ToSet
<1>4. ASSUME NEW c \in Ledger, ReceiveVoucher(c)
      PROVE  InOrder'
  <2> DEFINE u == <<c, stored[c] + 1>>
  <2>1. /\ inbox' = Append(inbox, u)
        /\ loop' = loop
        /\ stored' = [stored EXCEPT ![c] = @ + 1]
    BY <1>4 DEF ReceiveVoucher, serverVars
  <2>2. u \in Voucher /\ u[1] = c /\ u[2] = stored[c] + 1
    BY <1>4, NextStored
  <2> HIDE DEF u
  <2>3. /\ inbox' \in Seq(Voucher)
        /\ Len(inbox') = Len(inbox) + 1
        /\ \A i \in 1..Len(inbox) : inbox'[i] = inbox[i]
        /\ inbox'[Len(inbox) + 1] = u
    BY <1>1, <2>1, <2>2, AppendProperties
  <2>4. DOMAIN inbox' = 1..(Len(inbox) + 1)
    BY <2>3, LenProperties
  <2>5. \A i \in DOMAIN inbox : inbox[i][1] = c => inbox[i][2] < u[2]
    <3> SUFFICES ASSUME NEW i \in DOMAIN inbox, inbox[i][1] = c
                 PROVE  inbox[i][2] < u[2]
      OBVIOUS
    <3>1. inbox[i][2] <= stored[c] /\ inbox[i][2] \in Nat /\ stored[c] \in Nat
      BY <1>1, <1>2, <1>3 DEF InOrder, Pending
    <3> QED
      BY <2>2, <3>1
  <2>6. loop.pc = "credit" /\ loop.voucher[1] = c => loop.voucher[2] < u[2]
    <3> SUFFICES ASSUME loop.pc = "credit", loop.voucher[1] = c
                 PROVE  loop.voucher[2] < u[2]
      OBVIOUS
    <3>1. loop.voucher \in Voucher
      BY DEF PaymentsInv, Types
    <3>2. loop.voucher[2] <= stored[c] /\ loop.voucher[2] \in Nat /\ stored[c] \in Nat
      BY <1>1, <1>2, <3>1 DEF InOrder, Pending
    <3> QED
      BY <2>2, <3>2
  <2>7. \A i, j \in DOMAIN inbox' :
            i < j /\ inbox'[i][1] = inbox'[j][1] => inbox'[i][2] < inbox'[j][2]
    <3> SUFFICES ASSUME NEW i \in DOMAIN inbox', NEW j \in DOMAIN inbox',
                        i < j, inbox'[i][1] = inbox'[j][1]
                 PROVE  inbox'[i][2] < inbox'[j][2]
      OBVIOUS
    <3>1. i \in DOMAIN inbox /\ inbox'[i] = inbox[i]
      BY <1>3, <2>3, <2>4
    <3>2. CASE j = Len(inbox) + 1
      BY <2>2, <2>3, <2>5, <3>1, <3>2
    <3>3. CASE j # Len(inbox) + 1
      <4>1. j \in DOMAIN inbox /\ inbox'[j] = inbox[j]
        BY <1>3, <2>3, <2>4, <3>3
      <4> QED
        BY <1>1, <3>1, <4>1 DEF InOrder
    <3> QED
      BY <3>2, <3>3
  <2>8. loop'.pc = "credit" =>
            \A i \in DOMAIN inbox' :
                inbox'[i][1] = loop'.voucher[1] => loop'.voucher[2] < inbox'[i][2]
    <3> SUFFICES ASSUME loop.pc = "credit", NEW i \in DOMAIN inbox',
                        inbox'[i][1] = loop.voucher[1]
                 PROVE  loop.voucher[2] < inbox'[i][2]
      BY <2>1
    <3>1. CASE i = Len(inbox) + 1
      BY <2>2, <2>3, <2>6, <3>1
    <3>2. CASE i # Len(inbox) + 1
      <4>1. i \in DOMAIN inbox /\ inbox'[i] = inbox[i]
        BY <1>3, <2>3, <2>4, <3>2
      <4> QED
        BY <1>1, <4>1 DEF InOrder
    <3> QED
      BY <3>1, <3>2
  <2>9. \A v \in Voucher : Pending(v)' => v[2] <= stored'[v[1]]
    <3> SUFFICES ASSUME NEW v \in Voucher, Pending(v)'
                 PROVE  v[2] <= stored'[v[1]]
      OBVIOUS
    <3>1. Pending(v) \/ v = u
      BY <1>4, PendingSteps DEF u
    <3>2. v[1] \in Ledger /\ v[2] \in Nat /\ stored[v[1]] \in Nat
      BY <1>1, <1>2
    <3>3. CASE Pending(v)
      <4>1. v[2] <= stored[v[1]]
        BY <1>1, <3>3 DEF InOrder
      <4> QED
        BY <1>1, <2>1, <3>2, <4>1
    <3>4. CASE v = u
      BY <1>1, <2>1, <2>2, <3>4
    <3> QED
      BY <3>1, <3>3, <3>4
  <2> QED
    BY <2>7, <2>8, <2>9 DEF InOrder
<1>5. CASE TakeVoucher
  <2>1. /\ loop.pc = "select" /\ loop'.pc = "credit"
        /\ loop'.voucher = Head(inbox)
        /\ inbox' = Tail(inbox)
        /\ inbox # <<>>
        /\ stored' = stored
    BY <1>1, <1>5 DEF TakeVoucher, LoopState
  <2>2. /\ Head(inbox) = inbox[1]
        /\ 1 \in DOMAIN inbox
        /\ inbox' \in Seq(Voucher)
        /\ \A i \in DOMAIN inbox' : i + 1 \in DOMAIN inbox /\ inbox'[i] = inbox[i + 1]
    BY <1>1, <2>1, ToSetTail
  <2>3. DOMAIN inbox' \subseteq Nat \ {0}
    BY <2>2, LenProperties
  <2>4. \A i, j \in DOMAIN inbox' :
            i < j /\ inbox'[i][1] = inbox'[j][1] => inbox'[i][2] < inbox'[j][2]
    <3> SUFFICES ASSUME NEW i \in DOMAIN inbox', NEW j \in DOMAIN inbox',
                        i < j, inbox'[i][1] = inbox'[j][1]
                 PROVE  inbox'[i][2] < inbox'[j][2]
      OBVIOUS
    <3>1. i + 1 \in DOMAIN inbox /\ j + 1 \in DOMAIN inbox /\ i + 1 < j + 1
      BY <2>2, <2>3
    <3> QED
      BY <1>1, <2>2, <3>1 DEF InOrder
  <2>5. \A i \in DOMAIN inbox' :
            inbox'[i][1] = inbox[1][1] => inbox[1][2] < inbox'[i][2]
    <3> SUFFICES ASSUME NEW i \in DOMAIN inbox', inbox'[i][1] = inbox[1][1]
                 PROVE  inbox[1][2] < inbox'[i][2]
      OBVIOUS
    <3>1. i + 1 \in DOMAIN inbox /\ 1 < i + 1
      BY <2>2, <2>3
    <3> QED
      BY <1>1, <2>2, <3>1 DEF InOrder
  <2>6. \A v \in Voucher : Pending(v)' => v[2] <= stored'[v[1]]
    BY <1>1, <1>5, <2>1, PendingSteps DEF InOrder
  <2> QED
    BY <2>1, <2>2, <2>4, <2>5, <2>6 DEF InOrder
<1>6. CASE CreditVoucher
  <2>1. loop'.pc # "credit" /\ inbox' = inbox /\ stored' = stored
    BY <1>1, <1>6 DEF CreditVoucher, LoopState
  <2>2. \A v \in Voucher : Pending(v)' => Pending(v)
    BY <1>6, PendingSteps
  <2> QED
    BY <1>1, <2>1, <2>2 DEF InOrder
<1>7. CASE Restart
  <2>1. inbox' = <<>> /\ DOMAIN inbox' = {} /\ loop'.pc # "credit"
    BY <1>7, ToSetEmpty DEF Restart, Selecting
  <2>2. \A v \in Voucher : ~Pending(v)'
    BY <1>7, PendingSteps
  <2> QED
    BY <2>1, <2>2 DEF InOrder
<1>8. CASE (\E r \in Request : Spend(r)) \/ Forget \/ Quiet
  <2>1. /\ inbox' = inbox /\ stored' = stored
        /\ loop'.pc = "credit" <=> loop.pc = "credit"
        /\ loop.pc = "credit" => loop'.voucher = loop.voucher
    BY <1>8 DEF Spend, Forget, Quiet
  <2>2. \A v \in Voucher : Pending(v)' <=> Pending(v)
    BY <1>8, PendingSteps
  <2>3. loop'.pc = "credit" =>
            \A i \in DOMAIN inbox :
                inbox[i][1] = loop'.voucher[1] => loop'.voucher[2] < inbox[i][2]
    BY <1>1, <2>1 DEF InOrder
  <2> QED
    BY <1>1, <2>1, <2>2, <2>3 DEF InOrder
<1> QED
  BY <1>4, <1>5, <1>6, <1>7, <1>8, VoucherSteps

LEMMA OneLifeStep == PaymentsInv /\ [Next]_vars => OneLife'
<1> SUFFICES ASSUME PaymentsInv, [Next]_vars, NEW v \in Voucher
             PROVE  /\ spent'[v] > 0 \/ received'[v] # NoPayment =>
                           ~Pending(v)' /\ v[2] <= stored'[v[1]]
                    /\ spent'[v] > 0 => received'[v] = NoPayment
                    /\ spent'[v] <= 1
  BY DEF OneLife
<1>1. /\ spent[v] > 0 \/ received[v] # NoPayment => ~Pending(v) /\ v[2] <= stored[v[1]]
      /\ spent[v] > 0 => received[v] = NoPayment
      /\ spent[v] <= 1
  BY DEF PaymentsInv, OneLife
<1>2. /\ v[1] \in Ledger
      /\ v[2] \in Nat
      /\ stored \in [Ledger -> Nat]
      /\ spent \in [Voucher -> Nat]
      /\ received \in [Voucher -> Int \cup {NoPayment}]
  BY VoucherParts DEF PaymentsInv, Types
<1>3. ASSUME NEW c \in Ledger, ReceiveVoucher(c)
      PROVE  /\ spent'[v] > 0 \/ received'[v] # NoPayment =>
                    ~Pending(v)' /\ v[2] <= stored'[v[1]]
             /\ spent'[v] > 0 => received'[v] = NoPayment
             /\ spent'[v] <= 1
  <2>1. /\ spent' = spent /\ received' = received
        /\ stored' = [stored EXCEPT ![c] = @ + 1]
    BY <1>3 DEF ReceiveVoucher, serverVars, history
  <2>2. Pending(v)' <=> Pending(v) \/ v = <<c, stored[c] + 1>>
    BY <1>3, PendingSteps
  <2>3. v[2] <= stored[v[1]] => v[2] <= stored'[v[1]] /\ v # <<c, stored[c] + 1>>
    BY <1>2, <2>1
  <2> QED
    BY <1>1, <2>1, <2>2, <2>3
<1>4. CASE TakeVoucher
  <2>1. spent' = spent /\ received' = received /\ stored' = stored
    BY <1>4 DEF TakeVoucher, history
  <2> QED
    BY <1>1, <1>4, <2>1, PendingSteps
<1>5. CASE CreditVoucher
  <2>1. /\ spent' = spent /\ stored' = stored
        /\ v # loop.voucher => received'[v] = received[v]
        /\ loop.pc = "credit"
    BY <1>2, <1>5 DEF CreditVoucher
  <2>2. CASE v = loop.voucher
    <3>1. Pending(v)
      BY <2>1, <2>2 DEF Pending
    <3>2. ~Pending(v)' /\ v[2] <= stored[v[1]]
      BY <1>5, <2>2, <3>1, PendingSteps DEF PaymentsInv, InOrder
    <3>3. ~(spent[v] > 0)
      BY <1>1, <3>1
    <3> QED
      BY <1>2, <2>1, <3>2, <3>3
  <2>3. CASE v # loop.voucher
    BY <1>1, <1>5, <2>1, <2>3, PendingSteps
  <2> QED
    BY <2>2, <2>3
<1>6. CASE Restart
  <2>1. /\ spent' = spent /\ stored' = stored
        /\ received'[v] = NoPayment
        /\ ~Pending(v)'
    BY <1>6, PendingSteps DEF Restart, history
  <2> QED
    BY <1>1, <2>1
<1>7. ASSUME NEW r \in Request, Spend(r)
      PROVE  /\ spent'[v] > 0 \/ received'[v] # NoPayment =>
                    ~Pending(v)' /\ v[2] <= stored'[v[1]]
             /\ spent'[v] > 0 => received'[v] = NoPayment
             /\ spent'[v] <= 1
  <2>1. stored' = stored /\ (Pending(v)' <=> Pending(v))
    BY <1>7, PendingSteps DEF Spend
  <2>2. CASE v = requests[r].voucher
    <3>1. received[v] # NoPayment
      BY <1>7, <2>2 DEF Spend, PaymentOf
    <3>2. received'[v] = NoPayment /\ spent'[v] = spent[v] + 1
      BY <1>2, <1>7, <2>2 DEF Spend
    <3>3. spent[v] = 0
      BY <1>1, <1>2, <3>1
    <3> QED
      BY <1>1, <2>1, <3>1, <3>2, <3>3
  <2>3. CASE v # requests[r].voucher
    <3>1. received'[v] = received[v] /\ spent'[v] = spent[v]
      BY <1>2, <1>7, <2>3 DEF Spend
    <3> QED
      BY <1>1, <2>1, <3>1
  <2> QED
    BY <2>2, <2>3
<1>8. CASE Forget
  <2>1. /\ spent' = spent /\ stored' = stored
        /\ received'[v] \in {received[v], NoPayment}
        /\ Pending(v)' <=> Pending(v)
    BY <1>8, PendingSteps DEF Forget
  <2> QED
    BY <1>1, <2>1
<1>9. CASE Quiet
  <2>1. /\ spent' = spent /\ stored' = stored /\ received' = received
        /\ Pending(v)' <=> Pending(v)
    BY <1>9, PendingSteps DEF Quiet
  <2> QED
    BY <1>1, <2>1
<1> QED
  BY <1>3, <1>4, <1>5, <1>6, <1>7, <1>8, <1>9, VoucherSteps

\* The voucher the loop credits is the next one of its channel.
LEMMA NextCredited ==
    ASSUME PaymentsInv, CreditVoucher, "channel" \notin losses,
           NEW k \in 0..stored[loop.voucher[1]], CreditedTo(loop.voucher[1], k)
    PROVE  loop.voucher = <<loop.voucher[1], k + 1>> /\ k + 1 <= stored[loop.voucher[1]]
<1> DEFINE v == loop.voucher
           c == v[1]
           u == <<c, k + 1>>
<1>1. /\ loop.pc = "credit"
      /\ v \in Voucher
      /\ Pending(v)
  BY DEF PaymentsInv, Types, CreditVoucher, Pending
<1>2. /\ c \in Ledger
      /\ v[2] \in 1..Cardinality(Request)
      /\ v = <<c, v[2]>>
      /\ Cardinality(Request) \in Nat
      /\ stored[c] \in Nat
  BY <1>1, VoucherParts DEF PaymentsInv, Types
<1>3. k < v[2] /\ v[2] <= stored[c]
  BY <1>1, <1>2 DEF CreditedTo
<1>4. k + 1 \in 1..Cardinality(Request) /\ k + 1 <= stored[c] /\ k < k + 1
  BY <1>2, <1>3
<1>5. Pending(u)
  BY <1>4 DEF CreditedTo
<1>6. ASSUME u \in ToSet(inbox)
      PROVE  FALSE
  <2>1. PICK i \in DOMAIN inbox : inbox[i] = u
    BY <1>6 DEF ToSet
  <2>2. v[2] < inbox[i][2]
    BY <1>1, <2>1 DEF PaymentsInv, InOrder
  <2> QED
    BY <1>2, <1>3, <2>1, <2>2
<1>7. u = v
  BY <1>5, <1>6 DEF Pending
<1> QED
  BY <1>4, <1>7

\* What it adds to the channel is the amount of one voucher.
LEMMA CreditAdds ==
    ASSUME PaymentsInv, CreditVoucher, "channel" \notin losses
    PROVE  \E k \in 0..stored[loop.voucher[1]] :
               /\ k + 1 <= stored[loop.voucher[1]]
               /\ loop.voucher = <<loop.voucher[1], k + 1>>
               /\ CreditedTo(loop.voucher[1], k)
               /\ Added(loop.voucher) = PaymentAmount
               /\ AmountOf(loop.voucher) = (k + 1) * PaymentAmount
<1> DEFINE v == loop.voucher
           c == v[1]
<1>1. c \in Ledger
  BY VoucherParts DEF PaymentsInv, Types, CreditVoucher
<1>2. PICK k \in 0..stored[c] : CreditedTo(c, k)
  BY <1>1 DEF PaymentsInv, Counted
<1>3. v = <<c, k + 1>> /\ k + 1 <= stored[c]
  BY <1>2, NextCredited
<1>4. stored[c] \in Nat /\ k \in Nat
  BY <1>1, <1>2 DEF PaymentsInv, Types
<1>5. v[2] = k + 1
  BY <1>3
<1>6. AmountOf(v) = (k + 1) * PaymentAmount
  BY <1>5 DEF AmountOf
<1>7. Credit(c) = k * PaymentAmount
  <2>1. paidSoFar[c] = k * PaymentAmount
    BY <1>2 DEF CreditedTo
  <2>2. paidSoFar[c] # NoPayment
    BY <1>4, <2>1, Amounts, PaymentsAssumption
  <2> QED
    BY <2>1, <2>2 DEF Credit
<1>8. Added(v) = PaymentAmount
  <2>1. Added(v) = (k + 1) * PaymentAmount - k * PaymentAmount
    BY <1>6, <1>7 DEF Added
  <2>2. (k + 1) * PaymentAmount = k * PaymentAmount + PaymentAmount /\ k * PaymentAmount \in Nat
    BY <1>4, Amounts
  <2> QED
    BY <2>1, <2>2, PaymentsAssumption
<1> QED
  BY <1>2, <1>3, <1>6, <1>8

LEMMA CountedStep == PaymentsInv /\ [Next]_vars => Counted'
<1> SUFFICES ASSUME PaymentsInv, [Next]_vars, "channel" \notin losses', NEW c \in Ledger
             PROVE  \E k \in 0..stored'[c] : CreditedTo(c, k)'
  BY DEF Counted
<1>0. /\ stored \in [Ledger -> Nat]
      /\ paidSoFar \in [Ledger -> Nat \cup {NoPayment}]
      /\ credited \in [Ledger -> Int]
      /\ loop \in LoopState
  BY DEF PaymentsInv, Types
<1>1. losses \subseteq losses'
  BY LossesGrow
<1>2. "channel" \notin losses
  BY <1>1
<1>3. PICK k \in 0..stored[c] : CreditedTo(c, k)
  BY <1>2 DEF PaymentsInv, Counted
<1>4. k \in Nat /\ stored[c] \in Nat /\ k <= stored[c] /\ Cardinality(Request) \in Nat
  BY <1>0, <1>3, VoucherParts
<1>5. /\ paidSoFar[c] = k * PaymentAmount
      /\ credited[c] <= k * PaymentAmount
      /\ \A n \in 1..Cardinality(Request) : Pending(<<c, n>>) <=> k < n /\ n <= stored[c]
  BY <1>3 DEF CreditedTo
<1>6. ASSUME NEW d \in Ledger, ReceiveVoucher(d)
      PROVE  \E m \in 0..stored'[c] : CreditedTo(c, m)'
  <2>1. /\ paidSoFar' = paidSoFar /\ credited' = credited
        /\ stored' = [stored EXCEPT ![d] = @ + 1]
    BY <1>6 DEF ReceiveVoucher, serverVars, history
  <2>2. ASSUME NEW n \in 1..Cardinality(Request)
        PROVE  Pending(<<c, n>>)' <=> k < n /\ n <= stored'[c]
    <3>1. Pending(<<c, n>>)' <=> Pending(<<c, n>>) \/ (c = d /\ n = stored[c] + 1)
      BY <1>6, PendingSteps
    <3> QED
      BY <1>0, <1>4, <1>5, <2>1, <3>1
  <2>3. k \in 0..stored'[c]
    BY <1>0, <1>4, <2>1
  <2> QED
    BY <1>5, <2>1, <2>2, <2>3 DEF CreditedTo
<1>7. CASE CreditVoucher /\ c = loop.voucher[1]
  <2>1. PICK m \in 0..stored[c] :
            /\ m + 1 <= stored[c]
            /\ loop.voucher = <<c, m + 1>>
            /\ CreditedTo(c, m)
            /\ Added(loop.voucher) = PaymentAmount
            /\ AmountOf(loop.voucher) = (m + 1) * PaymentAmount
    BY <1>2, <1>7, CreditAdds
  <2>2. m \in Nat /\ (m + 1) * PaymentAmount = m * PaymentAmount + PaymentAmount
        /\ m * PaymentAmount \in Nat /\ PaymentAmount \in Nat
    BY <1>4, <2>1, Amounts, PaymentsAssumption
  <2>3. /\ stored' = stored
        /\ paidSoFar'[c] = (m + 1) * PaymentAmount
        /\ credited'[c] = credited[c] + PaymentAmount
    BY <1>0, <1>7, <2>1 DEF CreditVoucher
  <2>4. credited'[c] <= (m + 1) * PaymentAmount
    BY <1>0, <2>1, <2>2, <2>3 DEF CreditedTo
  <2>5. ASSUME NEW n \in 1..Cardinality(Request)
        PROVE  Pending(<<c, n>>)' <=> m + 1 < n /\ n <= stored'[c]
    <3>1. Pending(<<c, n>>)' <=> Pending(<<c, n>>) /\ n # m + 1
      BY <1>7, <2>1, PendingSteps
    <3>2. Pending(<<c, n>>) <=> m < n /\ n <= stored[c]
      BY <2>1 DEF CreditedTo
    <3> QED
      BY <1>4, <2>2, <2>3, <3>1, <3>2
  <2>6. m + 1 \in 0..stored'[c]
    BY <1>4, <2>1, <2>2, <2>3
  <2> QED
    BY <2>3, <2>4, <2>5, <2>6 DEF CreditedTo
<1>8. CASE Restart
  <2> DEFINE m == stored[c]
  <2>1. /\ stored' = stored
        /\ credited' = credited
        /\ paidSoFar'[c] = m * PaymentAmount
    BY <1>8 DEF Restart, LoadPaymentChannels, AmountOf, history
  <2>2. credited[c] <= m * PaymentAmount
    <3>1. k * PaymentAmount <= m * PaymentAmount /\ k * PaymentAmount \in Nat
          /\ m * PaymentAmount \in Nat /\ credited[c] \in Int
      BY <1>0, <1>4, Amounts
    <3> QED
      BY <1>5, <3>1
  <2>3. ASSUME NEW n \in 1..Cardinality(Request)
        PROVE  Pending(<<c, n>>)' <=> m < n /\ n <= stored'[c]
    <3>1. ~Pending(<<c, n>>)'
      BY <1>8, PendingSteps
    <3> QED
      BY <1>4, <2>1, <3>1
  <2>4. m \in 0..stored'[c]
    BY <1>4, <2>1
  <2> QED
    BY <2>1, <2>2, <2>3, <2>4 DEF CreditedTo
<1>9. CASE /\ paidSoFar'[c] = paidSoFar[c]
           /\ credited'[c] = credited[c]
           /\ stored' = stored
           /\ \A n \in 1..Cardinality(Request) : Pending(<<c, n>>)' <=> Pending(<<c, n>>)
  BY <1>3, <1>5, <1>9 DEF CreditedTo
<1>10. CASE TakeVoucher
  BY <1>9, <1>10, PendingSteps DEF TakeVoucher, history
<1>11. CASE CreditVoucher /\ c # loop.voucher[1]
  <2>1. paidSoFar'[c] = paidSoFar[c] /\ credited'[c] = credited[c] /\ stored' = stored
    BY <1>0, <1>11 DEF CreditVoucher
  <2>2. \A n \in 1..Cardinality(Request) : <<c, n>> # loop.voucher
    BY <1>11
  <2> QED
    BY <1>9, <1>11, <2>1, <2>2, PendingSteps
<1>12. CASE (\E r \in Request : Spend(r)) \/ Forget \/ Quiet
  <2>1. /\ paidSoFar' = paidSoFar /\ credited' = credited /\ stored' = stored
    BY <1>12 DEF Spend, Forget, Quiet
  <2>2. \A n \in 1..Cardinality(Request) : Pending(<<c, n>>)' <=> Pending(<<c, n>>)
    BY <1>12, PendingSteps
  <2> QED
    BY <1>9, <2>1, <2>2
<1> QED
  BY <1>6, <1>7, <1>8, <1>10, <1>11, <1>12, VoucherSteps

LEMMA SingleStep == PaymentsInv /\ [Next]_vars => SinglePayments'
<1> SUFFICES ASSUME PaymentsInv, [Next]_vars, "channel" \notin losses', NEW v \in Voucher
             PROVE  received'[v] \in {NoPayment, PaymentAmount}
  BY DEF SinglePayments
<1>1. "channel" \notin losses
  BY LossesGrow
<1>2. /\ received[v] \in {NoPayment, PaymentAmount}
      /\ received \in [Voucher -> Int \cup {NoPayment}]
  BY <1>1 DEF PaymentsInv, SinglePayments, Types
<1>3. CASE CreditVoucher
  <2>1. Added(loop.voucher) = PaymentAmount
    BY <1>1, <1>3, CreditAdds
  <2> QED
    BY <1>2, <1>3, <2>1 DEF CreditVoucher
<1>4. CASE Restart
  BY <1>4 DEF Restart
<1>5. ASSUME NEW r \in Request, Spend(r)
      PROVE  received'[v] \in {NoPayment, PaymentAmount}
  BY <1>2, <1>5 DEF Spend
<1>6. CASE Forget
  BY <1>2, <1>6 DEF Forget
<1>7. CASE received' = received
  BY <1>2, <1>7
<1>8. ASSUME NEW c \in Ledger, ReceiveVoucher(c)
      PROVE  received' = received
  BY <1>8 DEF ReceiveVoucher, serverVars
<1>9. CASE TakeVoucher \/ Quiet
  BY <1>7, <1>9 DEF TakeVoucher, Quiet
<1> QED
  BY <1>3, <1>4, <1>5, <1>6, <1>7, <1>8, <1>9, VoucherSteps

LEMMA NumbersTo ==
    ASSUME NEW n \in Nat
    PROVE  IsFiniteSet(1..n) /\ Cardinality(1..n) = n
<1>1. IsFiniteSet(1..n) /\ Cardinality(1..n) = IF 1 > n THEN 0 ELSE n - 1 + 1
  BY FS_Interval
<1> QED
  BY <1>1

LEMMA SpentBound ==
    ASSUME NEW c
    PROVE  /\ IsFiniteSet(SpentOn(c))
           /\ Cardinality(SpentOn(c)) \in Nat
<1>1. IsFiniteSet(1..Cardinality(Request)) /\ SpentOn(c) \subseteq 1..Cardinality(Request)
  BY VoucherParts, FS_Interval DEF SpentOn
<1> QED
  BY <1>1, FS_Subset, FS_CardinalityType

LEMMA CoveredStep == PaymentsInv /\ [Next]_vars => Covered'
<1> SUFFICES ASSUME PaymentsInv, [Next]_vars, "channel" \notin losses', NEW c \in Ledger
             PROVE  served'[c] <= Cardinality(SpentOn(c)') * PaymentAmount
  BY DEF Covered
<1>1. "channel" \notin losses
  BY LossesGrow
<1>2. /\ served[c] <= Cardinality(SpentOn(c)) * PaymentAmount
      /\ served \in [Ledger -> Nat]
      /\ spent \in [Voucher -> Nat]
  BY <1>1 DEF PaymentsInv, Covered, Types
<1>3. CASE served' = served /\ spent' = spent
  BY <1>2, <1>3 DEF SpentOn
<1>4. ASSUME NEW r \in Request, Spend(r)
      PROVE  served'[c] <= Cardinality(SpentOn(c)') * PaymentAmount
  <2> DEFINE v == requests[r].voucher
  <2>1. /\ v \in Voucher
        /\ v[1] \in Ledger
        /\ v[2] \in 1..Cardinality(Request)
        /\ v = <<v[1], v[2]>>
    BY <1>4, VoucherParts DEF Spend
  <2>2. served' = [served EXCEPT ![v[1]] = @ + Cost(r)] /\ spent' = [spent EXCEPT ![v] = @ + 1]
    BY <1>4 DEF Spend
  <2>3. CASE v[1] = c
    <3>1. received[v] = PaymentAmount /\ spent[v] = 0
      BY <1>1, <1>2, <1>4, <2>1 DEF Spend, PaymentOf, PaymentsInv, SinglePayments, OneLife
    <3>2. Cost(r) <= PaymentAmount /\ Cost(r) \in Nat
      BY <1>4, <3>1 DEF Spend, Suffices, PaymentOf
    <3>3. SpentOn(c)' = SpentOn(c) \cup {v[2]} /\ v[2] \notin SpentOn(c)
      <4> HIDE DEF v
      <4>1. \A n \in 1..Cardinality(Request) : <<c, n>> \in Voucher
        BY VoucherParts
      <4>2. \A n \in 1..Cardinality(Request) : <<c, n>> = v <=> n = v[2]
        BY <2>1, <2>3
      <4>3. \A n \in 1..Cardinality(Request) :
                spent'[<<c, n>>] = IF n = v[2] THEN 1 ELSE spent[<<c, n>>]
        BY <1>2, <2>1, <2>2, <3>1, <4>1, <4>2
      <4>4. spent[<<c, v[2]>>] = 0
        BY <2>1, <2>3, <3>1
      <4> QED
        BY <2>1, <4>3, <4>4 DEF SpentOn
    <3>4. Cardinality(SpentOn(c)') = Cardinality(SpentOn(c)) + 1
      BY <3>3, SpentBound, FS_AddElement
    <3>5. Cardinality(SpentOn(c)') * PaymentAmount
              = Cardinality(SpentOn(c)) * PaymentAmount + PaymentAmount
      BY <3>4, SpentBound, Amounts
    <3>6. served'[c] = served[c] + Cost(r)
      BY <1>2, <2>2, <2>3
    <3>7. /\ Cardinality(SpentOn(c)) * PaymentAmount \in Nat
          /\ PaymentAmount \in Nat
          /\ served[c] \in Nat
      BY <1>2, SpentBound, Amounts, PaymentsAssumption
    <3> QED
      BY <1>2, <3>2, <3>5, <3>6, <3>7
  <2>4. CASE v[1] # c
    <3>1. served'[c] = served[c]
      BY <1>2, <2>2, <2>4
    <3>2. SpentOn(c)' = SpentOn(c)
      <4>1. \A n \in 1..Cardinality(Request) : <<c, n>> # v /\ <<c, n>> \in Voucher
        BY <2>4, VoucherParts
      <4>2. \A n \in 1..Cardinality(Request) : spent'[<<c, n>>] = spent[<<c, n>>]
        BY <1>2, <2>2, <4>1
      <4> QED
        BY <4>2 DEF SpentOn
    <3> QED
      BY <1>2, <3>1, <3>2
  <2> QED
    BY <2>3, <2>4
<1>5. ASSUME NEW d \in Ledger, ReceiveVoucher(d)
      PROVE  served' = served /\ spent' = spent
  BY <1>5 DEF ReceiveVoucher, history
<1>6. CASE TakeVoucher \/ CreditVoucher \/ Restart \/ Forget \/ Quiet
  BY <1>3, <1>6 DEF TakeVoucher, CreditVoucher, Restart, Forget, Quiet, history
<1> QED
  BY <1>3, <1>4, <1>5, <1>6, VoucherSteps

-------------------------------------------------------------------------------
(* Wake-ups.                                                                *)

\* The steps of requests add no payment, and leave the loop where it is: they only
\* add a listener to those it goes through, or take the first of them.
LEMMA StepsKeepLoop ==
    ASSUME PaymentsInv, NEW r \in Request, StepOf(r), NEW q \in Request
    PROVE  /\ \A v \in Voucher : received'[v] \in {received[v], NoPayment}
           /\ loop'.pc = loop.pc
           /\ loop'.voucher = loop.voucher
           /\ q \in ToSet(loop.todo) /\ q # r => q \in ToSet(loop'.todo)
           /\ ~Notify(r) /\ q \in ToSet(loop.todo) => q \in ToSet(loop'.todo)
<1>1. /\ loop \in LoopState
      /\ loop.todo \in Seq(Request)
      /\ received \in [Voucher -> Int \cup {NoPayment}]
  BY DEF PaymentsInv, Types, LoopState
<1>2. CASE loop' = loop
  <2>1. \A v \in Voucher : received'[v] \in {received[v], NoPayment}
    BY <1>1, <1>2 DEF StepOf, RequestStep, SendRequest, RetryRequest, AdmitRequest, ServeRequest,
         UseFreeQuota, FindPayment, Listen, Wake, RemoveListener, TimeOut, Notify, Accept,
         TakePayment, serverVars
  <2> QED
    BY <1>2, <2>1
<1>3. CASE Listen(r)
  <2>1. ToSet(Append(loop.todo, r)) = ToSet(loop.todo) \cup {r}
    BY <1>1, ToSetAppend
  <2>2. /\ received' = received
        /\ loop' = IF loop.live THEN [loop EXCEPT !.todo = Append(@, r)] ELSE loop
    BY <1>3 DEF Listen
  <2> QED
    BY <1>1, <2>1, <2>2 DEF LoopState
<1>4. CASE RemoveListener(r)
  BY <1>1, <1>4 DEF RemoveListener, LoopState
<1>5. CASE Notify(r)
  <2>1. ToSet(loop.todo) = {r} \cup ToSet(Tail(loop.todo))
    BY <1>1, <1>5, ToSetTail DEF Notify
  <2>2. received' = received /\ loop' = [loop EXCEPT !.todo = Tail(@)]
    BY <1>5 DEF Notify
  <2> QED
    BY <1>1, <1>5, <2>1, <2>2 DEF LoopState
<1>6. CASE SendRequest(r) \/ RetryRequest(r) \/ AdmitRequest(r) \/ ServeRequest(r)
           \/ UseFreeQuota(r) \/ FindPayment(r) \/ Wake(r) \/ TimeOut(r)
  BY <1>2, <1>6 DEF SendRequest, RetryRequest, AdmitRequest, ServeRequest,
                    UseFreeQuota, FindPayment, Wake, TimeOut, serverVars
<1> QED
  BY <1>3, <1>4, <1>5, <1>6 DEF StepOf, RequestStep

Asleep(q) == requests[q].pc = "wait" \/ (requests[q].pc = "woken" /\ requests[q].payer # Client[q])

LEMMA AwakeStep == PaymentsInv /\ [Next]_vars => Awake'
<1> SUFFICES ASSUME PaymentsInv, [Next]_vars, NEW q \in Request,
                    loop'.pc # "ended", Asleep(q)', PaymentOf(q)' # NoPayment
             PROVE  StillToWake(q)'
  BY DEF Awake, Asleep
<1>1. /\ requests \in [Request -> RequestState]
      /\ requests[q] \in RequestState
      /\ loop \in LoopState
      /\ loop.todo \in Seq(Request)
      /\ received \in [Voucher -> Int \cup {NoPayment}]
  BY DEF PaymentsInv, Types, LoopState
<1>2. loop.pc # "ended" /\ Asleep(q) /\ PaymentOf(q) # NoPayment => StillToWake(q)
  BY DEF PaymentsInv, Awake, Asleep
<1>3. Asleep(q) => requests[q].voucher \in Voucher
  BY <1>1 DEF PaymentsInv, Named, Asleep, RequestState
<1>4. ASSUME NEW r \in Request, StepOf(r)
      PROVE  StillToWake(q)'
  <2>0. /\ \A v \in Voucher : received'[v] \in {received[v], NoPayment}
        /\ loop'.pc = loop.pc
        /\ loop'.voucher = loop.voucher
        /\ q \in ToSet(loop.todo) /\ q # r => q \in ToSet(loop'.todo)
        /\ ~Notify(r) /\ q \in ToSet(loop.todo) => q \in ToSet(loop'.todo)
    BY <1>4, StepsKeepLoop
  <2>1. CASE q # r
    <3>1. requests'[q] = requests[q]
      BY <1>1, <1>4, <2>1, OthersUnchanged
    <3>2. Asleep(q) /\ PaymentOf(q) # NoPayment
      BY <1>3, <2>0, <3>1 DEF Asleep, PaymentOf
    <3> QED
      BY <1>2, <2>0, <2>1, <3>1, <3>2 DEF StillToWake
  <2>2. CASE q = r /\ Listen(r)
    <3>1. requests'[r].voucher = requests[r].voucher
      BY <1>1, <2>2, RequestSteps
    <3>2. PaymentOf(r) = NoPayment /\ received' = received
      BY <2>2 DEF Listen
    <3> QED
      BY <2>2, <3>1, <3>2 DEF PaymentOf
  <2>3. CASE q = r /\ Wake(r)
    <3>1. requests[r].pc = "woken" /\ requests'[r].voucher = requests[r].voucher
          /\ requests'[r].pc \in {"wait", "closing"}
      BY <1>1, <2>3, RequestSteps
    <3>2. requests'[r].pc = "wait"
      BY <2>3, <3>1 DEF Asleep
    <3>3. requests[r].voucher \in Voucher
      BY <1>1, <3>1 DEF PaymentsInv, Named, RequestState
    <3>4. PaymentOf(r) # NoPayment
      BY <2>0, <2>3, <3>1, <3>3 DEF PaymentOf
    <3>5. requests[r].payer # Client[r]
      <4> SUFFICES ASSUME requests[r].payer = Client[r]
                   PROVE  FALSE
        OBVIOUS
      <4>1. Accept(r, [requests EXCEPT ![r].pc = "closing", ![r].result = "paid"],
                      [requests EXCEPT ![r].pc = "closing", ![r].result = "insufficient"])
        BY <2>3, <3>4 DEF Wake
      <4>2. \/ requests' = [requests EXCEPT ![r].pc = "closing", ![r].result = "paid"]
            \/ requests' = [requests EXCEPT ![r].pc = "closing", ![r].result = "insufficient"]
        BY <4>1 DEF Accept
      <4>3. requests'[r].pc = "closing"
        BY <1>1, <4>2 DEF RequestState
      <4> QED
        BY <3>2, <4>3
    <3>6. StillToWake(r)
      BY <1>2, <2>0, <2>3, <3>1, <3>4, <3>5 DEF Asleep
    <3>7. ~Notify(r)
      BY <3>1 DEF Notify
    <3> QED
      BY <2>0, <2>3, <3>1, <3>6, <3>7 DEF StillToWake
  <2>4. CASE q = r /\ Notify(r)
    <3>1. /\ requests[r].pc = "wait"
          /\ requests'[r].pc = "woken"
          /\ requests'[r].voucher = requests[r].voucher
          /\ requests'[r].payer = PayerOf(loop.voucher)
      BY <1>1, <2>4, RequestSteps
    <3>2. PaymentOf(r) # NoPayment /\ requests[r].voucher \in Voucher
      BY <1>3, <2>0, <2>4, <3>1 DEF PaymentOf, Asleep
    <3>3. loop.voucher = requests[r].voucher
      BY <1>2, <2>0, <2>4, <3>1, <3>2 DEF StillToWake, Asleep
    <3>4. requests[r].voucher[1] = Through[r] /\ Through[r] # NoVoucher
      <4>1. requests[r].voucher # NoVoucher /\ requests[r].voucher[1] = Through[r]
        BY <3>1 DEF PaymentsInv, Named
      <4>2. Through[r] \in Ledger
        BY <3>2, <4>1, VoucherParts
      <4> QED
        BY <4>1, <4>2, PaymentsAssumption
    <3>5. requests'[r].payer = Client[r]
      BY <3>1, <3>3, <3>4, PaymentsAssumption DEF PayerOf
    <3> QED
      BY <2>4, <3>1, <3>5 DEF Asleep
  <2>5. CASE q = r /\ (SendRequest(r) \/ RetryRequest(r) \/ AdmitRequest(r) \/ ServeRequest(r)
                       \/ UseFreeQuota(r) \/ FindPayment(r) \/ TimeOut(r) \/ RemoveListener(r))
    <3>1. requests'[r].pc \notin {"wait", "woken"}
      BY <1>1, <2>5, RequestSteps
    <3> QED
      BY <2>5, <3>1 DEF Asleep
  <2> QED
    BY <1>4, <2>1, <2>2, <2>3, <2>4, <2>5 DEF StepOf, RequestStep
<1>5. CASE Restart
  <2>1. requests'[q].pc \notin {"wait", "woken"}
    BY <1>1, <1>5, RestartStep
  <2> QED
    BY <2>1 DEF Asleep
<1>6. CASE requests' = requests /\ loop' = loop
           /\ \A v \in Voucher : received'[v] \in {received[v], NoPayment}
  <2>1. Asleep(q) /\ PaymentOf(q) # NoPayment
    BY <1>3, <1>6 DEF Asleep, PaymentOf
  <2> QED
    BY <1>2, <1>6, <2>1 DEF StillToWake
<1>7. ASSUME NEW c \in Ledger, ReceiveVoucher(c)
      PROVE  StillToWake(q)'
  BY <1>1, <1>6, <1>7 DEF ReceiveVoucher, serverVars
<1>8. CASE ForgetPayment \/ ForgetAccount \/ ForgetChannel
  BY <1>1, <1>6, <1>8 DEF ForgetPayment, ForgetAccount, ForgetChannel
<1>9. CASE UNCHANGED vars
  BY <1>1, <1>6, <1>9 DEF vars, serverVars
<1>10. CASE TakeVoucher
  <2>1. loop.pc = "select" /\ requests' = requests /\ received' = received
    BY <1>10 DEF TakeVoucher
  <2> QED
    BY <1>2, <2>1 DEF StillToWake, Asleep, PaymentOf
<1>11. CASE CreditVoucher
  <2>1. /\ loop.pc = "credit" /\ requests' = requests
        /\ received' = [received EXCEPT ![loop.voucher] = Added(loop.voucher)]
        /\ loop' = [loop EXCEPT !.pc = "notify", !.todo = listeners, !.live = TRUE]
    BY <1>11 DEF CreditVoucher, Waiting
  <2>2. /\ loop'.pc = "notify" /\ loop'.todo = listeners /\ loop'.voucher = loop.voucher
    BY <1>1, <2>1 DEF LoopState
  <2>3. Asleep(q) /\ ~StillToWake(q)
    BY <2>1 DEF Asleep, StillToWake
  <2>4. received[requests[q].voucher] = NoPayment
    BY <1>2, <2>1, <2>3 DEF PaymentOf
  <2>5. loop.voucher = requests[q].voucher
    BY <1>1, <2>1, <2>4 DEF PaymentOf
  <2>6. q \in ToSet(listeners)
    BY <2>3 DEF PaymentsInv, Listeners, Listening, Asleep
  <2> QED
    BY <2>1, <2>2, <2>5, <2>6 DEF StillToWake
<1>12. CASE AllNotified
  <2>1. /\ loop.pc = "notify" /\ loop.todo = <<>>
        /\ requests' = requests /\ received' = received
    BY <1>12 DEF AllNotified
  <2>2. StillToWake(q)
    BY <1>2, <2>1 DEF Asleep, PaymentOf
  <2> QED
    BY <2>1, <2>2, ToSetEmpty DEF StillToWake
<1>13. ASSUME NEW r \in Request, NotifyClosed(r)
       PROVE  StillToWake(q)'
  <2>1. /\ loop.pc = "notify" /\ loop.todo # <<>> /\ r = Head(loop.todo)
        /\ requests[r].pc \notin {"wait", "woken"}
        /\ requests' = requests /\ received' = received
    BY <1>13 DEF NotifyClosed
  <2>2. loop' = [loop EXCEPT !.todo = Tail(@)]
    BY <1>13 DEF NotifyClosed, Selecting
  <2>3. loop'.pc = "notify" /\ loop'.voucher = loop.voucher /\ loop'.todo = Tail(loop.todo)
    BY <1>1, <2>1, <2>2 DEF LoopState
  <2>4. StillToWake(q) /\ q # r
    BY <1>2, <2>1 DEF Asleep, PaymentOf
  <2>5. ToSet(loop.todo) = {r} \cup ToSet(Tail(loop.todo))
    BY <1>1, <2>1, ToSetTail
  <2> QED
    BY <2>1, <2>3, <2>4, <2>5 DEF StillToWake
<1> QED
  BY <1>4, <1>5, <1>7, <1>8, <1>9, <1>10, <1>11, <1>12, <1>13, Steps

-------------------------------------------------------------------------------
(* The invariant and what it gives.                                         *)

LEMMA InitHolds == Init => PaymentsInv
<1> SUFFICES ASSUME Init
             PROVE  PaymentsInv
  OBVIOUS
<1>1. Types
  <2>1. FreeLimit \in 0..FreeLimit
    BY PaymentsAssumption
  <2>2. /\ made \in [Ledger -> Nat] /\ stored \in [Ledger -> Nat]
        /\ paidSoFar \in [Ledger -> Nat \cup {NoPayment}]
        /\ received \in [Voucher -> Int \cup {NoPayment}]
        /\ free \in [Account -> 0..FreeLimit]
        /\ credited \in [Ledger -> Int] /\ spent \in [Voucher -> Nat]
        /\ served \in [Ledger -> Nat]
        /\ losses \subseteq Losses
    BY <2>1 DEF Init
  <2>3. inbox \in Seq(Voucher) /\ listeners \in Seq(Request)
    BY EmptySeq DEF Init
  <2>4. loop \in LoopState /\ loop.pc = "select" /\ requests \in [Request -> RequestState]
    BY LoopStates DEF Init, Selecting
  <2> QED
    BY <2>2, <2>3, <2>4 DEF Types
<1>2. /\ \A r \in Request : requests[r].pc = "new" /\ requests[r].voucher = NoVoucher
      /\ loop.pc = "select" /\ inbox = <<>> /\ listeners = <<>>
  BY DEF Init, NewRequest, Selecting
<1>3. Named
  BY <1>2 DEF Named
<1>4. Made
  BY SentBound DEF Init, Made
<1>5. Listeners
  BY <1>2, ToSetEmpty DEF Listeners, Listening, IsInjective
<1>6. \A v : ~Pending(v)
  BY <1>2, ToSetEmpty DEF Pending
<1>7. InOrder
  BY <1>2, <1>6, ToSetEmpty DEF InOrder
<1>8. OneLife
  BY <1>6 DEF Init, OneLife
<1>9. Counted
  <2>1. 0 * PaymentAmount = 0
    BY PaymentsAssumption
  <2>2. \A c \in Ledger : stored[c] = 0 /\ paidSoFar[c] = 0 /\ credited[c] = 0
    BY DEF Init
  <2>3. \A c \in Ledger : CreditedTo(c, 0)
    BY <1>6, <2>1, <2>2 DEF CreditedTo
  <2> QED
    BY <2>2, <2>3 DEF Counted
<1>10. SinglePayments
  BY DEF Init, SinglePayments
<1>11. Covered
  BY SpentBound, Amounts DEF Init, Covered
<1>12. Awake
  BY <1>2 DEF Awake
<1> QED
  BY <1>1, <1>3, <1>4, <1>5, <1>7, <1>8, <1>9, <1>10, <1>11, <1>12 DEF PaymentsInv

LEMMA PaymentsInvariant == Spec => []PaymentsInv
<1>1. PaymentsInv /\ [Next]_vars => PaymentsInv'
  BY TypesStep, NamedStep, MadeStep, ListenersStep, InOrderStep, OneLifeStep, CountedStep,
     SingleStep, CoveredStep, AwakeStep DEF PaymentsInv
<1> QED
  BY InitHolds, <1>1, PTL DEF Spec

\* A voucher pays for one selection at most, however often requests name it,
\* retries included, whatever the caches lose and however often the server restarts
\* (acceptReceivedPayment deletes what it accepts).
THEOREM VoucherSpentOnce == Spec => []SpentOnce
<1>1. PaymentsInv => SpentOnce
  BY DEF PaymentsInv, OneLife, SpentOnce
<1> QED
  BY <1>1, PaymentsInvariant, PTL

\* As long as no entry of paidSoFarOnChannel has expired, what requests were let
\* through for on a channel, and what was credited on it, stay within the amount of
\* the last voucher its payer has signed.
THEOREM RequestsPaidInFull == Spec => []PaidInFull
<1>1. ASSUME PaymentsInv
      PROVE  PaidInFull
  <2> SUFFICES ASSUME "channel" \notin losses, NEW c \in Ledger
               PROVE  served[c] <= Signed(c) /\ credited[c] <= Signed(c)
    BY DEF PaidInFull, ServedIsPaid, CreditedIsPaid
  <2>1. /\ stored[c] \in Nat
        /\ served[c] \in Nat
        /\ credited[c] \in Int
        /\ spent \in [Voucher -> Nat]
    BY <1>1 DEF PaymentsInv, Types
  <2>2. Signed(c) = stored[c] * PaymentAmount /\ Signed(c) \in Nat
    BY <2>1, Amounts DEF Signed, AmountOf
  <2>3. served[c] <= Signed(c)
    <3>1. SpentOn(c) \subseteq 1..stored[c]
      <4> SUFFICES ASSUME NEW n \in SpentOn(c)
                   PROVE  n \in 1..stored[c]
        OBVIOUS
      <4>1. n \in 1..Cardinality(Request) /\ <<c, n>> \in Voucher /\ spent[<<c, n>>] > 0
        BY VoucherParts DEF SpentOn
      <4>2. n <= stored[c]
        BY <1>1, <4>1 DEF PaymentsInv, OneLife
      <4> QED
        BY <2>1, <4>1, <4>2, VoucherParts
    <3>2. Cardinality(SpentOn(c)) <= stored[c] /\ Cardinality(SpentOn(c)) \in Nat
      <4>1. IsFiniteSet(1..stored[c]) /\ Cardinality(1..stored[c]) = stored[c]
        BY <2>1, NumbersTo
      <4> QED
        BY <3>1, <4>1, SpentBound, FS_Subset
    <3>3. Cardinality(SpentOn(c)) * PaymentAmount <= stored[c] * PaymentAmount
          /\ Cardinality(SpentOn(c)) * PaymentAmount \in Nat
      BY <2>1, <3>2, Amounts
    <3>4. served[c] <= Cardinality(SpentOn(c)) * PaymentAmount
      BY <1>1 DEF PaymentsInv, Covered
    <3> QED
      BY <2>1, <2>2, <3>3, <3>4
  <2>4. credited[c] <= Signed(c)
    <3>1. PICK k \in 0..stored[c] : CreditedTo(c, k)
      BY <1>1 DEF PaymentsInv, Counted
    <3>2. k * PaymentAmount <= stored[c] * PaymentAmount /\ k * PaymentAmount \in Nat
      BY <2>1, Amounts
    <3> QED
      BY <2>1, <2>2, <3>1, <3>2 DEF CreditedTo
  <2> QED
    BY <2>3, <2>4
<1> QED
  BY <1>1, PaymentsInvariant, PTL

\* Each waiting request has one listener, and when its payment is there while the
\* loop runs, the loop has still to come to it: no interleaving of listeners added
\* and removed with the loop that goes through them loses a wake-up.
THEOREM NoWakeupIsLost == Spec => []NoLostWakeup
<1>1. ASSUME PaymentsInv
      PROVE  NoLostWakeup
  <2>1. ToSet(inbox) \subseteq Voucher
    <3>1. inbox \in Seq(Voucher)
      BY <1>1 DEF PaymentsInv, Types
    <3> QED
      BY <3>1, LenProperties, ElementOfSeq DEF ToSet
  <2>2. /\ made \in [Ledger -> Nat]
        /\ \A c \in Ledger : stored[c] <= made[c]
        /\ paidSoFar \in [Ledger -> Nat \cup {NoPayment}]
        /\ received \in [Voucher -> Int \cup {NoPayment}]
        /\ free \in [Account -> 0..FreeLimit]
        /\ losses \subseteq Losses
    BY <1>1 DEF PaymentsInv, Types, Made
  <2>3. loop.pc \in {"select", "credit", "notify", "ended"}
    BY <1>1 DEF PaymentsInv, Types, LoopState
  <2>4. TypeOK
    BY <1>1, <2>1, <2>2, <2>3 DEF PaymentsInv, Listeners, Listening, TypeOK
  <2> QED
    BY <1>1, <2>4 DEF PaymentsInv, Awake, StillToWake, NoLostWakeup
<1> QED
  BY <1>1, PaymentsInvariant, PTL

===============================================================================
