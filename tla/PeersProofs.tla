------------------------------ MODULE PeersProofs ------------------------------
(***************************************************************************)
(* Theorems about Peers, for every set of peers and relays, every limit and *)
(* bound, and any number of lost connections and of peers that go down.     *)
(***************************************************************************)
EXTENDS Peers, FiniteSetTheorems, SequenceTheorems, TLAPS

Connection(p) ==
    [id : Connections, chat : BOOLEAN, closing : BOOLEAN, address : Addresses(p)]

\* what TypeOK does not say: the state of each peer is that of the peers of Peer
Maps ==
    /\ conns = [p \in Peer |-> conns[p]]
    /\ checks = [p \in Peer |-> checks[p]]
    /\ dialled = [p \in Peer |-> dialled[p]]

\* the places of connections that this side has not decided to close
Kept(s) == {i \in DOMAIN s : ~s[i].closing}

\* the peers of which this side keeps one connection, whatever its address
Managed == Relay \cup Larger

ConnectedRelays == {p \in Relay : Connected(p)}

\* A relay that is connected counts: the counter may be above the relays, for good,
\* after a second connection to one of them, and is never below.
RelaysCounted == Cardinality(ConnectedRelays) <= numRelayConnections

\* Of the connections to a managed peer one is kept.
OneKept == \A p \in Managed : \A i, j \in Kept(conns[p]) : i = j

\* The relays whose connection is held against the limit.
LimitedRelays ==
    {p \in Relay : \E i \in Kept(conns[p]) : conns[p][i].address = "direct"}

RelaysLimited == Cardinality(LimitedRelays) <= MaxRelayConnections

\* The stream of a managed peer is on the connection that is kept.
StreamKept ==
    \A p \in Managed : \A i \in Kept(conns[p]) :
        conns[p][i].chat => streams[p] = conns[p][i].id

Limits == RelaysCounted /\ OneKept /\ RelaysLimited /\ StreamKept

PeerInv == TypeOK /\ Maps /\ (role = "peer" => Limits)

-------------------------------------------------------------------------------
(* The connections of one peer.                                             *)

\* what t keeps are connections that s keeps
Narrows(t, s) ==
    \E m \in [Kept(t) -> Kept(s)] :
        /\ \A i, j \in Kept(t) : m[i] = m[j] => i = j
        /\ \A i \in Kept(t) : t[i] = s[m[i]]

LEMMA MinOfTwo ==
    ASSUME NEW a \in Int, NEW b \in Int
    PROVE  Min({a, b}) = IF a <= b THEN a ELSE b
<1> DEFINE m == IF a <= b THEN a ELSE b
<1>1. m \in {a, b} /\ \A y \in {a, b} : m =< y
  OBVIOUS
<1>2. \A x \in {a, b} : (\A y \in {a, b} : x =< y) => x = m
  OBVIOUS
<1> QED
  BY <1>1, <1>2 DEF Min

LEMMA ClosingNarrows ==
    ASSUME NEW p \in Peer, conns[p] \in Seq(Connection(p))
    PROVE  /\ AllClosing(p) \in Seq(Connection(p))
           /\ Len(AllClosing(p)) = Len(conns[p])
           /\ Kept(AllClosing(p)) = {}
<1> DEFINE s == conns[p]  t == AllClosing(p)
<1>1. s \in [1..Len(s) -> Connection(p)] /\ Len(s) \in Nat /\ DOMAIN s = 1..Len(s)
  BY LenProperties
<1>2. \A i \in 1..Len(s) : [s[i] EXCEPT !.closing = TRUE] \in Connection(p)
  BY <1>1 DEF Connection
<1>3. t = [i \in 1..Len(s) |-> [s[i] EXCEPT !.closing = TRUE]]
  BY <1>1 DEF AllClosing
<1>4. t \in Seq(Connection(p)) /\ Len(t) = Len(s)
  <2>1. t \in [1..Len(s) -> Connection(p)]
    BY <1>2, <1>3
  <2> QED
    BY <2>1, <1>1
<1>5. \A i \in 1..Len(s) : t[i].closing
  BY <1>1, <1>3 DEF Connection
<1>6. DOMAIN t = 1..Len(s)
  BY <1>3
<1>7. Kept(t) = {}
  <2> HIDE DEF t, s
  <2> QED
    BY <1>5, <1>6 DEF Kept
<1> QED
  BY <1>4, <1>7

\* what keeps nothing narrows everything
LEMMA NothingKept ==
    ASSUME NEW s, NEW t, Kept(t) = {}
    PROVE  Narrows(t, s)
<1> DEFINE m == [i \in {} |-> i]
<1>1. m \in [Kept(t) -> Kept(s)]
  OBVIOUS
<1> HIDE DEF m
<1> QED
  BY <1>1 DEF Narrows

LEMMA OneClosingNarrows ==
    ASSUME NEW p \in Peer, NEW s \in Seq(Connection(p)), NEW k \in 1..Len(s)
    PROVE  /\ [s EXCEPT ![k] = [s[k] EXCEPT !.closing = TRUE]] \in Seq(Connection(p))
           /\ Len([s EXCEPT ![k] = [s[k] EXCEPT !.closing = TRUE]]) = Len(s)
           /\ Narrows([s EXCEPT ![k] = [s[k] EXCEPT !.closing = TRUE]], s)
<1> DEFINE e == [s[k] EXCEPT !.closing = TRUE]
           t == [s EXCEPT ![k] = e]
<1>1. s[k] \in Connection(p)
  BY ElementOfSeq
<1>2. e \in Connection(p) /\ e.closing
  BY <1>1 DEF Connection
<1> HIDE DEF e
<1>3. /\ t \in Seq(Connection(p)) /\ Len(t) = Len(s)
      /\ \A j \in 1..Len(s) : t[j] = IF j = k THEN e ELSE s[j]
  BY <1>2, ExceptSeq
<1>4. Narrows(t, s)
  <2> DEFINE m == [i \in Kept(t) |-> i]
  <2>1. DOMAIN t = 1..Len(s) /\ DOMAIN s = 1..Len(s)
    BY LenProperties
  <2> HIDE DEF t
  <2>2. \A i \in Kept(t) : i \in Kept(s) /\ t[i] = s[i]
    BY <1>2, <1>3, <2>1 DEF Kept
  <2>3. m \in [Kept(t) -> Kept(s)]
    BY <2>2
  <2> QED
    BY <2>2, <2>3 DEF Narrows
<1> QED
  BY <1>3, <1>4 DEF e

LEMMA RemovalNarrows ==
    ASSUME NEW p \in Peer, NEW s \in Seq(Connection(p)), NEW k \in 1..Len(s)
    PROVE  /\ RemoveAt(s, k) \in Seq(Connection(p))
           /\ Len(RemoveAt(s, k)) = Len(s) - 1
           /\ Narrows(RemoveAt(s, k), s)
<1> DEFINE a == SubSeq(s, 1, k - 1)  b == SubSeq(s, k + 1, Len(s))  t == RemoveAt(s, k)
<1>0. Len(s) \in Nat /\ \A i \in 1..Len(s) : s[i] \in Connection(p)
  BY ElementOfSeq, LenProperties
<1>1. Len(s) \in Nat /\ DOMAIN s = 1..Len(s)
  BY LenProperties
<1>2. /\ a \in Seq(Connection(p)) /\ Len(a) = k - 1
      /\ \A i \in 1..(k - 1) : a[i] = s[i]
  BY <1>0
<1>3. /\ b \in Seq(Connection(p)) /\ Len(b) = Len(s) - k
      /\ \A i \in 1..(Len(s) - k) : b[i] = s[k + i]
  BY <1>0
<1>4. t = a \o b
  BY DEF RemoveAt
<1> DEFINE n(i) == IF i < k THEN i ELSE i + 1
<1> HIDE DEF a, b, t
<1>5. /\ t \in Seq(Connection(p)) /\ Len(t) = Len(s) - 1
      /\ \A i \in 1..(Len(s) - 1) : t[i] = IF i <= k - 1 THEN a[i] ELSE b[i - (k - 1)]
  <2>1. /\ a \o b \in Seq(Connection(p)) /\ Len(a \o b) = Len(a) + Len(b)
        /\ \A i \in 1..(Len(a) + Len(b)) :
              (a \o b)[i] = IF i <= Len(a) THEN a[i] ELSE b[i - Len(a)]
    BY <1>2, <1>3, ConcatProperties
  <2>2. Len(a) + Len(b) = Len(s) - 1
    BY <1>1, <1>2, <1>3
  <2> QED
    BY <1>2, <1>4, <2>1, <2>2
<1>6. \A i \in 1..(Len(s) - 1) : t[i] = s[n(i)]
  <2> SUFFICES ASSUME NEW i \in 1..(Len(s) - 1) PROVE t[i] = s[n(i)]
    OBVIOUS
  <2>1. CASE i < k
    <3>1. i \in 1..(k - 1)
      BY <1>1, <2>1
    <3> QED
      BY <1>1, <1>2, <1>5, <2>1, <3>1
  <2>2. CASE ~(i < k)
    <3>1. i - (k - 1) \in 1..(Len(s) - k) /\ k + (i - (k - 1)) = i + 1
      BY <1>1, <2>2
    <3>2. ~(i <= k - 1)
      BY <1>1, <2>2
    <3>3. t[i] = b[i - (k - 1)]
      BY <1>5, <3>2
    <3> QED
      BY <1>3, <2>2, <3>1, <3>3
  <2> QED
    BY <2>1, <2>2
<1>7. DOMAIN t = 1..(Len(s) - 1)
  BY <1>5, LenProperties
<1>8. Narrows(t, s)
  <2> DEFINE m == [i \in Kept(t) |-> n(i)]
  <2>1. \A i \in Kept(t) : i \in 1..(Len(s) - 1) /\ n(i) \in 1..Len(s)
    BY <1>1, <1>7 DEF Kept
  <2>2. \A i \in Kept(t) : t[i] = s[n(i)] /\ n(i) \in Kept(s)
    BY <1>1, <1>6, <2>1 DEF Kept
  <2>3. \A i, j \in Kept(t) : n(i) = n(j) => i = j
    BY <1>1, <2>1
  <2> HIDE DEF n
  <2>4. m \in [Kept(t) -> Kept(s)]
    BY <2>2
  <2> QED
    BY <2>2, <2>3, <2>4 DEF Narrows
<1> QED
  BY <1>5, <1>8 DEF t

\* a connection that is closed at once narrows; any other is kept, last in the list
LEMMA Appended ==
    ASSUME NEW p \in Peer, NEW s \in Seq(Connection(p)), NEW new \in Connection(p)
    PROVE  /\ Append(s, new) \in Seq(Connection(p))
           /\ Append(s, new) # <<>>
           /\ new.closing => Narrows(Append(s, new), s)
           /\ ~new.closing => Kept(Append(s, new)) = Kept(s) \cup {Len(s) + 1}
           /\ \A i \in Kept(s) : Append(s, new)[i] = s[i]
           /\ Append(s, new)[Len(s) + 1] = new
<1> DEFINE t == Append(s, new)
<1>1. /\ t \in Seq(Connection(p)) /\ t # <<>> /\ Len(t) = Len(s) + 1
      /\ \A i \in 1..Len(s) : t[i] = s[i]
      /\ t[Len(s) + 1] = new
  BY AppendProperties
<1>2. DOMAIN s = 1..Len(s) /\ Len(s) \in Nat
  BY LenProperties
<1>3. DOMAIN t = 1..(Len(s) + 1)
  BY <1>1, LenProperties
<1> HIDE DEF t
<1>4. \A i \in Kept(s) : t[i] = s[i]
  BY <1>1, <1>2 DEF Kept
<1>5. ASSUME new.closing PROVE Narrows(t, s)
  <2> DEFINE m == [i \in Kept(t) |-> i]
  <2>1. \A i \in Kept(t) : i \in Kept(s) /\ t[i] = s[i]
    BY <1>1, <1>2, <1>3, <1>5 DEF Kept
  <2>2. m \in [Kept(t) -> Kept(s)]
    BY <2>1
  <2> QED
    BY <2>1, <2>2 DEF Narrows
<1>6. ASSUME ~new.closing PROVE Kept(t) = Kept(s) \cup {Len(s) + 1}
  BY <1>1, <1>2, <1>3, <1>6 DEF Kept
<1> QED
  BY <1>1, <1>4, <1>5, <1>6 DEF t

-------------------------------------------------------------------------------
(* A step that changes the connections of one peer.                         *)

LEMMA SubsetsOfRelay ==
    ASSUME NEW S \in SUBSET Relay
    PROVE  IsFiniteSet(S) /\ Cardinality(S) \in Nat
BY PeersAssumption, FS_Subset, FS_CardinalityType

LEMMA ConnectionsTyped ==
    ASSUME TypeOK
    PROVE  /\ \A p \in Peer : conns[p] \in Seq(Connection(p))
           /\ \A p \in Peer : DOMAIN conns[p] = 1..Len(conns[p]) /\ Len(conns[p]) \in Nat
           /\ numRelayConnections \in Nat
           /\ MaxRelayConnections \in Nat
<1>1. \A p \in Peer : conns[p] \in Seq(Connection(p))
  BY DEF TypeOK, Connection
<1>2. \A p \in Peer : DOMAIN conns[p] = 1..Len(conns[p]) /\ Len(conns[p]) \in Nat
  BY <1>1, LenProperties
<1> QED
  BY <1>1, <1>2, PeersAssumption DEF TypeOK

\* a relay has direct addresses, the other peers have none
LEMMA AddressOf ==
    ASSUME NEW p \in Peer, NEW a \in Addresses(p)
    PROVE  /\ isRelayPeerMultiaddr(a) <=> p \in Relay
           /\ isPrimaryRelay(a) <=> a = "primary"
           /\ a = "primary" => p = Primary
           /\ p \in Relay => a \in {"primary", "direct"}
BY PeersAssumption DEF Addresses, isRelayPeerMultiaddr, isPrimaryRelay

LEMMA Replaced ==
    ASSUME Maps, NEW p \in Peer, NEW t, conns' = [conns EXCEPT ![p] = t]
    PROVE  /\ conns'[p] = t
           /\ \A q \in Peer : q # p => conns'[q] = conns[q]
           /\ conns' = [q \in Peer |-> conns'[q]]
<1> DEFINE D == Peer
<1>1. conns \in [D -> {conns[q] : q \in D}]
  BY DEF Maps
<1> QED
  BY <1>1

LEMMA StillTyped ==
    ASSUME TypeOK, Maps, NEW p \in Peer, NEW t \in Seq(Connection(p)),
           conns' = [conns EXCEPT ![p] = t]
    PROVE  /\ \A q \in Peer : conns'[q] \in Seq(Connection(q))
           /\ \A q \in Peer : conns'[q] \in
                  Seq([id : Connections, chat : BOOLEAN, closing : BOOLEAN,
                       address : Addresses(q)])
           /\ conns' = [q \in Peer |-> conns'[q]]
<1>1. \A q \in Peer : conns'[q] \in Seq(Connection(q))
  BY Replaced, ConnectionsTyped
<1> QED
  BY <1>1, Replaced DEF Connection

\* how a new list of connections to p counts
Counts(p, t) ==
    \/ numRelayConnections' = numRelayConnections /\ (p \in Relay /\ t # <<>> => Connected(p))
    \/ numRelayConnections' = numRelayConnections + 1
    \/ /\ numRelayConnections' = numRelayConnections - 1
       /\ p \in Relay /\ Connected(p) /\ t = <<>>

LEMMA CountKept ==
    ASSUME TypeOK, Maps, RelaysCounted, NEW p \in Peer, NEW t,
           conns' = [conns EXCEPT ![p] = t], Counts(p, t)
    PROVE  RelaysCounted' /\ numRelayConnections' \in Nat
<1> DEFINE R == ConnectedRelays
<1>1. R \in SUBSET Relay /\ ConnectedRelays' \in SUBSET Relay
  BY DEF ConnectedRelays
<1>2. /\ IsFiniteSet(R) /\ Cardinality(R) \in Nat
      /\ IsFiniteSet(ConnectedRelays') /\ Cardinality(ConnectedRelays') \in Nat
  BY <1>1, SubsetsOfRelay
<1>3. Cardinality(R) <= numRelayConnections /\ numRelayConnections \in Nat
  BY ConnectionsTyped DEF RelaysCounted
<1>4. Relay \subseteq Peer
  BY PeersAssumption
<1>5. \A q \in Relay : q # p => (q \in ConnectedRelays' <=> q \in R)
  BY <1>4, Replaced DEF ConnectedRelays, Connected
<1>6. p \in ConnectedRelays' <=> p \in Relay /\ t # <<>>
  BY Replaced DEF ConnectedRelays, Connected
<1>7. p \in R <=> p \in Relay /\ Connected(p)
  BY DEF ConnectedRelays
<1> HIDE DEF R
<1>8. CASE numRelayConnections' = numRelayConnections /\ (p \in Relay /\ t # <<>> => Connected(p))
  <2>1. ConnectedRelays' \in SUBSET R
    BY <1>1, <1>5, <1>6, <1>7, <1>8
  <2>2. Cardinality(ConnectedRelays') <= Cardinality(R)
    BY <1>2, <2>1, FS_Subset
  <2> QED
    BY <1>2, <1>3, <1>8, <2>2 DEF RelaysCounted
<1>9. CASE numRelayConnections' = numRelayConnections + 1
  <2>1. ConnectedRelays' \in SUBSET (R \cup {p})
    BY <1>1, <1>5
  <2>5. IsFiniteSet(R)
    BY <1>2
  <2>6. /\ IsFiniteSet(R \cup {p})
        /\ Cardinality(R \cup {p}) =
               IF p \in R THEN Cardinality(R) ELSE Cardinality(R) + 1
    BY <2>5, FS_AddElement, Zenon
  <2>2. IsFiniteSet(R \cup {p}) /\ Cardinality(R \cup {p}) <= Cardinality(R) + 1
    BY <1>2, <2>6
  <2>3. Cardinality(R \cup {p}) \in Nat
    BY <2>2, FS_CardinalityType
  <2>4. Cardinality(ConnectedRelays') <= Cardinality(R \cup {p})
    BY <2>1, <2>2, FS_Subset
  <2> QED
    BY <1>2, <1>3, <1>9, <2>2, <2>3, <2>4 DEF RelaysCounted
<1>10. CASE /\ numRelayConnections' = numRelayConnections - 1
            /\ p \in Relay /\ Connected(p) /\ t = <<>>
  <2>1. ConnectedRelays' = R \ {p} /\ p \in R
    BY <1>1, <1>5, <1>6, <1>7, <1>10
  <2>2. Cardinality(R \ {p}) = Cardinality(R) - 1
    BY <1>2, <2>1, FS_RemoveElement
  <2> QED
    BY <1>2, <1>3, <1>10, <2>1, <2>2 DEF RelaysCounted
<1> QED
  BY <1>8, <1>9, <1>10 DEF Counts

LEMMA LimitNarrows ==
    ASSUME RelaysLimited, LimitedRelays' \in SUBSET LimitedRelays
    PROVE  RelaysLimited'
<1>1. LimitedRelays \in SUBSET Relay /\ LimitedRelays' \in SUBSET Relay
  BY DEF LimitedRelays
<1>2. Cardinality(LimitedRelays') <= Cardinality(LimitedRelays)
  BY <1>1, SubsetsOfRelay, FS_Subset
<1>3. Cardinality(LimitedRelays) \in Nat /\ Cardinality(LimitedRelays') \in Nat
  BY <1>1, SubsetsOfRelay
<1>4. MaxRelayConnections \in Nat
  BY PeersAssumption
<1> QED
  BY <1>2, <1>3, <1>4 DEF RelaysLimited

\* connections end, or are about to, or a new one is closed at once
LEMMA NarrowedKept ==
    ASSUME TypeOK, Maps, Limits, NEW p \in Peer, NEW t,
           conns' = [conns EXCEPT ![p] = t], Narrows(t, conns[p]), Counts(p, t),
           UNCHANGED streams
    PROVE  Limits' /\ numRelayConnections' \in Nat
<1>0. Relay \subseteq Peer /\ Managed \subseteq Peer
  BY PeersAssumption DEF Managed
<1>1. RelaysCounted' /\ numRelayConnections' \in Nat
  BY CountKept DEF Limits
<1>2. conns'[p] = t /\ \A q \in Peer : q # p => conns'[q] = conns[q]
  BY Replaced
<1>3. PICK m \in [Kept(t) -> Kept(conns[p])] :
          /\ \A i, j \in Kept(t) : m[i] = m[j] => i = j
          /\ \A i \in Kept(t) : t[i] = conns[p][m[i]]
  BY DEF Narrows
<1>4. OneKept'
  <2> SUFFICES ASSUME NEW q \in Managed, NEW i \in Kept(conns'[q]), NEW j \in Kept(conns'[q])
               PROVE  i = j
    BY DEF OneKept, Kept
  <2>1. CASE q # p
    BY <1>0, <1>2, <2>1 DEF Limits, OneKept
  <2>2. CASE q = p
    <3>1. i \in Kept(t) /\ j \in Kept(t)
      BY <1>2, <2>2
    <3>2. m[i] \in Kept(conns[p]) /\ m[j] \in Kept(conns[p])
      BY <1>3, <3>1
    <3>3. m[i] = m[j]
      BY <2>2, <3>2 DEF Limits, OneKept
    <3> QED
      BY <1>3, <3>1, <3>3
  <2> QED
    BY <2>1, <2>2
<1>5. StreamKept'
  <2> SUFFICES ASSUME NEW q \in Managed, NEW i \in Kept(conns'[q]), conns'[q][i].chat
               PROVE  streams[q] = conns'[q][i].id
    BY DEF StreamKept, Kept
  <2>1. CASE q # p
    BY <1>0, <1>2, <2>1 DEF Limits, StreamKept
  <2>2. CASE q = p
    <3>1. i \in Kept(t)
      BY <1>2, <2>2
    <3>2. m[i] \in Kept(conns[p]) /\ conns'[q][i] = conns[p][m[i]]
      BY <1>2, <1>3, <2>2, <3>1
    <3> QED
      BY <2>2, <3>2 DEF Limits, StreamKept
  <2> QED
    BY <2>1, <2>2
<1>6. LimitedRelays' \in SUBSET LimitedRelays
  <2> SUFFICES ASSUME NEW q \in Relay, NEW i \in Kept(conns'[q]),
                      conns'[q][i].address = "direct"
               PROVE  q \in LimitedRelays
    BY DEF LimitedRelays, Kept
  <2>1. CASE q # p
    BY <1>0, <1>2, <2>1 DEF LimitedRelays
  <2>2. CASE q = p
    <3>1. i \in Kept(t)
      BY <1>2, <2>2
    <3>2. m[i] \in Kept(conns[p]) /\ conns'[q][i] = conns[p][m[i]]
      BY <1>2, <1>3, <2>2, <3>1
    <3> QED
      BY <2>2, <3>2 DEF LimitedRelays
  <2> QED
    BY <2>1, <2>2
<1>7. RelaysLimited'
  BY <1>6, LimitNarrows DEF Limits
<1> QED
  BY <1>1, <1>4, <1>5, <1>7 DEF Limits

\* a connection is kept, and the ones before it are not: one to a relay other than
\* the primary only if the count, with it, is within the limit
LEMMA ConnectedKept ==
    ASSUME TypeOK, Maps, Limits, NEW p \in Peer, NEW s \in Seq(Connection(p)),
           NEW new \in Connection(p), ~new.closing, ~new.chat, Kept(s) = {},
           conns' = [conns EXCEPT ![p] = Append(s, new)], Counts(p, Append(s, new)),
           new.address = "direct" => numRelayConnections' <= MaxRelayConnections,
           UNCHANGED streams
    PROVE  Limits' /\ numRelayConnections' \in Nat
<1> DEFINE t == Append(s, new)
<1>0. Relay \subseteq Peer /\ Managed \subseteq Peer
  BY PeersAssumption DEF Managed
<1>1. RelaysCounted' /\ numRelayConnections' \in Nat
  BY CountKept DEF Limits
<1>2. conns'[p] = t /\ \A q \in Peer : q # p => conns'[q] = conns[q]
  BY Replaced
<1>3. Kept(t) = {Len(s) + 1} /\ t[Len(s) + 1] = new /\ t # <<>>
  BY Appended
<1> HIDE DEF t
<1>4. OneKept'
  <2> SUFFICES ASSUME NEW q \in Managed, NEW i \in Kept(conns'[q]), NEW j \in Kept(conns'[q])
               PROVE  i = j
    BY DEF OneKept, Kept
  <2>1. CASE q # p
    BY <1>0, <1>2, <2>1 DEF Limits, OneKept
  <2>2. CASE q = p
    <3>1. i \in Kept(t) /\ j \in Kept(t)
      BY <1>2, <2>2
    <3> QED
      BY <1>3, <3>1
  <2> QED
    BY <2>1, <2>2
<1>5. StreamKept'
  <2> SUFFICES ASSUME NEW q \in Managed, NEW i \in Kept(conns'[q]), conns'[q][i].chat
               PROVE  streams[q] = conns'[q][i].id
    BY DEF StreamKept, Kept
  <2>1. CASE q # p
    BY <1>0, <1>2, <2>1 DEF Limits, StreamKept
  <2>2. CASE q = p
    <3>1. i \in Kept(t) /\ conns'[q] = t
      BY <1>2, <2>2
    <3>2. conns'[q][i] = new
      BY <1>3, <3>1
    <3> QED
      BY <3>2
  <2> QED
    BY <2>1, <2>2
<1>6. RelaysLimited'
  <2>1. CASE new.address = "direct"
    <3>1. LimitedRelays' \in SUBSET ConnectedRelays'
      <4> SUFFICES ASSUME NEW q \in Relay, NEW i \in Kept(conns'[q])
                   PROVE  conns'[q] # <<>>
        BY DEF LimitedRelays, ConnectedRelays, Connected, Kept
      <4>1. conns'[q] \in Seq(Connection(q))
        BY <1>0, <1>2, ConnectionsTyped, Appended DEF t
      <4>2. i \in 1..Len(conns'[q])
        BY <4>1, LenProperties DEF Kept
      <4> QED
        BY <4>2, EmptySeq
    <3>2. ConnectedRelays' \in SUBSET Relay /\ LimitedRelays' \in SUBSET Relay
      BY DEF ConnectedRelays, LimitedRelays
    <3>3. Cardinality(LimitedRelays') <= Cardinality(ConnectedRelays')
      BY <3>1, <3>2, SubsetsOfRelay, FS_Subset
    <3>4. Cardinality(LimitedRelays') \in Nat /\ Cardinality(ConnectedRelays') \in Nat
      BY <3>2, SubsetsOfRelay
    <3>5. MaxRelayConnections \in Nat
      BY PeersAssumption
    <3> QED
      BY <1>1, <2>1, <3>3, <3>4, <3>5 DEF RelaysCounted, RelaysLimited
  <2>2. CASE new.address # "direct"
    <3>1. LimitedRelays' \in SUBSET LimitedRelays
      <4> SUFFICES ASSUME NEW q \in Relay, NEW i \in Kept(conns'[q]),
                          conns'[q][i].address = "direct"
                   PROVE  q \in LimitedRelays
        BY DEF LimitedRelays, Kept
      <4>1. q # p
        BY <1>2, <1>3, <2>2
      <4> QED
        BY <1>0, <1>2, <4>1 DEF LimitedRelays
    <3> QED
      BY <3>1, LimitNarrows DEF Limits
  <2> QED
    BY <2>1, <2>2
<1> QED
  BY <1>1, <1>4, <1>5, <1>6 DEF Limits

\* connections of a peer that is not managed
LEMMA UnmanagedKept ==
    ASSUME TypeOK, Maps, Limits, NEW p \in Peer \ Managed, NEW t,
           conns' = [conns EXCEPT ![p] = t],
           UNCHANGED numRelayConnections, \A q \in Managed : streams'[q] = streams[q]
    PROVE  Limits'
<1>1. Managed \subseteq Peer /\ Relay \subseteq Managed
  BY PeersAssumption DEF Managed
<1>2. \A q \in Managed : conns'[q] = conns[q]
  BY <1>1, Replaced
<1>3. ConnectedRelays' = ConnectedRelays
  BY <1>1, <1>2 DEF ConnectedRelays, Connected
<1>4. RelaysCounted'
  BY <1>3 DEF Limits, RelaysCounted
<1>5. LimitedRelays' \in SUBSET LimitedRelays
  BY <1>1, <1>2 DEF LimitedRelays, Kept
<1>6. RelaysLimited'
  BY <1>5, LimitNarrows DEF Limits
<1>7. OneKept'
  BY <1>2 DEF Limits, OneKept, Kept
<1>8. StreamKept'
  BY <1>2 DEF Limits, StreamKept, Kept
<1> QED
  BY <1>4, <1>6, <1>7, <1>8 DEF Limits

LEMMA NothingMoves ==
    ASSUME Limits, UNCHANGED <<conns, numRelayConnections, streams>>
    PROVE  Limits'
<1>1. UNCHANGED <<ConnectedRelays, LimitedRelays>>
  BY DEF ConnectedRelays, LimitedRelays, Connected, Kept
<1>2. OneKept' /\ StreamKept'
  BY DEF Limits, OneKept, StreamKept, Kept
<1> QED
  BY <1>1, <1>2 DEF Limits, RelaysCounted, RelaysLimited

-------------------------------------------------------------------------------
(* The steps keep PeerInv.                                                  *)

HandlerType ==
    [peer : Peer, id : Connections, starts : BOOLEAN,
     at : {"others", "protocols", "stream"}, others : SUBSET Connections]

\* a check that starts, or is there
LEMMA Starts ==
    ASSUME TypeOK, Maps, NEW p \in Peer, Start(p)
    PROVE  /\ checked' \subseteq Peer
           /\ \A q \in Peer : checks'[q] \in Idle..(PingRetries - 1)
           /\ checks' = [q \in Peer |-> checks'[q]]
<1>1. \A q \in Peer : checks[q] \in Idle..(PingRetries - 1)
  BY DEF TypeOK
<1>2. 0 \in Idle..(PingRetries - 1)
  BY PeersAssumption DEF Idle
<1>3. checks' = checks \/ checks' = [checks EXCEPT ![p] = 0]
  BY DEF Start
<1>4. checked' \subseteq Peer
  BY DEF Start, TypeOK
<1>5. checks \in [Peer -> Idle..(PingRetries - 1)]
  BY <1>1 DEF Maps
<1>6. checks' \in [Peer -> Idle..(PingRetries - 1)]
  BY <1>2, <1>3, <1>5
<1> QED
  BY <1>4, <1>6

\* the connection that a dial makes
LEMMA NewTyped ==
    ASSUME TypeOK, Unused # {}, NEW p \in Peer, NEW a \in Addresses(p)
    PROVE  [id |-> CHOOSE id \in Unused : TRUE, address |-> a,
            chat |-> FALSE, closing |-> FALSE] \in Connection(p)
<1>1. (CHOOSE id \in Unused : TRUE) \in Unused
  OBVIOUS
<1>2. (CHOOSE id \in Unused : TRUE) \in Connections
  BY <1>1 DEF Unused
<1> QED
  BY <1>2 DEF Connection

LEMMA OthersTyped ==
    ASSUME TypeOK, NEW p \in Peer
    PROVE  {c.id : c \in Conns(p)} \subseteq Connections
<1>1. conns[p] \in Seq(Connection(p))
  BY ConnectionsTyped
<1>2. \A i \in DOMAIN conns[p] : conns[p][i] \in Connection(p)
  BY <1>1, ElementOfSeq, LenProperties
<1>3. \A c \in Conns(p) : c \in Connection(p)
  BY <1>2 DEF Conns, ToSet
<1>4. \A c \in Conns(p) : c.id \in Connections
  BY <1>3 DEF Connection
<1> QED
  BY <1>4

\* NewConnection, whoever dials
LEMMA Connects ==
    ASSUME PeerInv, NEW p \in Peer, NEW a \in Addresses(p), NewConnection(p, a),
           UNCHANGED <<role, streams>>
    PROVE  /\ role = "peer" => Limits'
           /\ numRelayConnections' \in Nat
           /\ \A q \in Peer : conns'[q] \in
                  Seq([id : Connections, chat : BOOLEAN, closing : BOOLEAN,
                       address : Addresses(q)])
           /\ conns' = [q \in Peer |-> conns'[q]]
           /\ \A h \in handlers' : h \in HandlerType
           /\ checked' \subseteq Peer
           /\ \A q \in Peer : checks'[q] \in Idle..(PingRetries - 1)
           /\ checks' = [q \in Peer |-> checks'[q]]
<1> DEFINE new == [id |-> CHOOSE id \in Unused : TRUE, address |-> a,
                   chat |-> FALSE, closing |-> FALSE]
           isRelay == isRelayPeerMultiaddr(a)
           count == IF isRelay THEN numRelayConnections + 1 ELSE numRelayConnections
           shut == [new EXCEPT !.closing = TRUE]
           s == conns[p]
<1>1. TypeOK /\ Maps /\ (role = "peer" => Limits) /\ role \in {"peer", "relay"}
  BY DEF PeerInv, TypeOK
<1>2. Unused # {}
  BY DEF NewConnection
<1>3. /\ new \in Connection(p) /\ new.id \in Connections /\ new.address = a
      /\ ~new.closing /\ ~new.chat
  <2>1. new \in Connection(p)
    BY <1>1, <1>2, NewTyped
  <2> QED
    BY <2>1 DEF Connection
<1>4. shut \in Connection(p) /\ shut.closing
  <2> HIDE DEF new
  <2> QED
    BY <1>3 DEF Connection
<1>5. s \in Seq(Connection(p)) /\ numRelayConnections \in Nat
  BY <1>1, ConnectionsTyped
<1>6. isRelay <=> p \in Relay
  BY AddressOf
<1>7. \A h \in handlers : h \in HandlerType
  BY <1>1 DEF TypeOK, HandlerType
<1>8. /\ checked \subseteq Peer
      /\ \A q \in Peer : checks[q] \in Idle..(PingRetries - 1)
      /\ checks = [q \in Peer |-> checks[q]]
  BY <1>1 DEF TypeOK, Maps
<1>9. \/ /\ role = "relay" \/ ~Manages(p, a)
         /\ RelayConnects(p, new) /\ UNCHANGED <<numRelayConnections, handlers>>
      \/ /\ role # "relay" /\ Manages(p, a)
         /\ numRelayConnections' = count
         /\ \/ CloseNew(p, new)
            \/ /\ ~(isRelay /\ OverLimit(a, count))
               /\ \/ CloseExisting(p, new) /\ UNCHANGED <<checked, checks>>
                  \/ /\ ~Connected(p)
                     /\ conns' = [conns EXCEPT ![p] = <<new>>]
                     /\ handlers' = handlers \cup {Handler(p, new.id, "protocols", {}, TRUE)}
                     /\ UNCHANGED <<checked, checks>>
  BY DEF NewConnection
<1>10. \A at \in {"others", "protocols"} : \A others \in SUBSET Connections :
          Handler(p, new.id, at, others, TRUE) \in HandlerType
  BY <1>3 DEF Handler, HandlerType
<1>12. \A t : numRelayConnections' = count => Counts(p, t)
  BY <1>6 DEF Counts
<1> HIDE DEF new, shut, count, s, isRelay
<1>13. CASE /\ role = "relay" \/ ~Manages(p, a)
            /\ RelayConnects(p, new) /\ UNCHANGED <<numRelayConnections, handlers>>
  <2>1. conns' = [conns EXCEPT ![p] = Append(s, new)]
    BY <1>13 DEF RelayConnects, s
  <2>2. Append(s, new) \in Seq(Connection(p))
    BY <1>3, <1>5, Appended
  <2>3. ASSUME role = "peer" PROVE Limits'
    <3>1. p \notin Managed
      BY <1>6, <1>13, <2>3 DEF Manages, Managed, isRelay
    <3> QED
      BY <1>1, <1>13, <2>1, <2>3, <3>1, UnmanagedKept
  <2>4. /\ checked' \subseteq Peer
        /\ \A q \in Peer : checks'[q] \in Idle..(PingRetries - 1)
        /\ checks' = [q \in Peer |-> checks'[q]]
    BY <1>1, <1>13, Starts DEF RelayConnects
  <2>5. /\ \A q \in Peer : conns'[q] \in
               Seq([id : Connections, chat : BOOLEAN, closing : BOOLEAN,
                    address : Addresses(q)])
        /\ conns' = [q \in Peer |-> conns'[q]]
    BY <1>1, <2>1, <2>2, StillTyped
  <2> QED
    BY <1>5, <1>7, <1>13, <2>3, <2>4, <2>5
<1>14. CASE role # "relay" /\ numRelayConnections' = count /\ CloseNew(p, new)
  <2>1. conns' = [conns EXCEPT ![p] = Append(s, shut)]
    BY <1>14 DEF CloseNew, s, shut
  <2>2. Append(s, shut) \in Seq(Connection(p)) /\ Narrows(Append(s, shut), conns[p])
    BY <1>4, <1>5, Appended DEF s
  <2>3. Limits' /\ numRelayConnections' \in Nat
    BY <1>1, <1>12, <1>14, <2>1, <2>2, NarrowedKept
  <2>4. /\ \A q \in Peer : conns'[q] \in
               Seq([id : Connections, chat : BOOLEAN, closing : BOOLEAN,
                    address : Addresses(q)])
        /\ conns' = [q \in Peer |-> conns'[q]]
    BY <1>1, <2>1, <2>2, StillTyped
  <2> QED
    BY <1>7, <1>8, <1>14, <2>3, <2>4 DEF CloseNew
<1>15. CASE /\ role # "relay" /\ Manages(p, a) /\ numRelayConnections' = count
            /\ ~(isRelay /\ OverLimit(a, count))
            /\ \/ CloseExisting(p, new) /\ UNCHANGED <<checked, checks>>
               \/ /\ ~Connected(p)
                  /\ conns' = [conns EXCEPT ![p] = <<new>>]
                  /\ handlers' = handlers \cup {Handler(p, new.id, "protocols", {}, TRUE)}
                  /\ UNCHANGED <<checked, checks>>
  <2>1. \E u \in Seq(Connection(p)) :
           Kept(u) = {} /\ conns' = [conns EXCEPT ![p] = Append(u, new)]
    <3>1. CASE CloseExisting(p, new)
      BY <1>5, <3>1, ClosingNarrows DEF CloseExisting, s
    <3>2. CASE conns' = [conns EXCEPT ![p] = <<new>>]
      <4>1. Append(<<>>, new) = <<new>>
        OBVIOUS
      <4>2. <<>> \in Seq(Connection(p)) /\ Len(<<>>) = 0
        BY EmptySeq
      <4>3. Kept(<<>>) = {}
        BY <4>2, LenProperties DEF Kept
      <4> QED
        BY <3>2, <4>1, <4>2, <4>3
    <3> QED
      BY <1>15, <3>1, <3>2
  <2>2. PICK u \in Seq(Connection(p)) :
           Kept(u) = {} /\ conns' = [conns EXCEPT ![p] = Append(u, new)]
    BY <2>1
  <2>3. Append(u, new) \in Seq(Connection(p))
    BY <1>3, Appended
  <2>4. new.address = "direct" => numRelayConnections' <= MaxRelayConnections
    <3> SUFFICES ASSUME a = "direct" PROVE numRelayConnections' <= MaxRelayConnections
      BY <1>3
    <3>1. isRelay /\ ~isPrimaryRelay(a)
      BY DEF isRelay, isRelayPeerMultiaddr, isPrimaryRelay
    <3>2. ~(count > MaxRelayConnections)
      BY <1>15, <3>1 DEF OverLimit
    <3>3. count \in Nat /\ MaxRelayConnections \in Nat
      BY <1>5, PeersAssumption DEF count
    <3> QED
      BY <1>15, <3>2, <3>3
  <2>5. Limits /\ Counts(p, Append(u, new)) /\ UNCHANGED streams
    BY <1>1, <1>12, <1>15
  <2>6. Limits' /\ numRelayConnections' \in Nat
    BY <1>1, <1>3, <2>2, <2>4, <2>5, ConnectedKept
  <2>7. /\ \A q \in Peer : conns'[q] \in
               Seq([id : Connections, chat : BOOLEAN, closing : BOOLEAN,
                    address : Addresses(q)])
        /\ conns' = [q \in Peer |-> conns'[q]]
    BY <1>1, <2>2, <2>3, StillTyped
  <2>8. \A h \in handlers' : h \in HandlerType
    <3>1. CASE CloseExisting(p, new)
      BY <1>1, <1>7, <1>10, <3>1, OthersTyped DEF CloseExisting
    <3>2. CASE handlers' = handlers \cup {Handler(p, new.id, "protocols", {}, TRUE)}
      BY <1>7, <1>10, <3>2
    <3> QED
      BY <1>15, <3>1, <3>2
  <2> QED
    BY <1>8, <1>15, <2>6, <2>7, <2>8
<1> QED
  BY <1>9, <1>13, <1>14, <1>15

LEMMA PingTickKept ==
    ASSUME PeerInv, NEW p \in Peer, PingTick(p) \/ PingAnswered(p)
    PROVE  PeerInv'
<1>1. TypeOK /\ Maps /\ (role = "peer" => Limits)
  BY DEF PeerInv
<1>2. /\ UNCHANGED <<role, known, up, conns, numRelayConnections, handlers, chatKnown,
                     streams, checked, redials, dialled, faults>>
      /\ checks' = [checks EXCEPT ![p] = 0] \/ checks' = [checks EXCEPT ![p] = Idle]
  BY DEF PingTick, PingAnswered
<1>3. checks' \in [Peer -> Idle..(PingRetries - 1)]
  <2>1. checks \in [Peer -> Idle..(PingRetries - 1)]
    BY <1>1 DEF TypeOK, Maps
  <2>2. {0, Idle} \subseteq Idle..(PingRetries - 1)
    BY PeersAssumption DEF Idle
  <2> QED
    BY <1>2, <2>1, <2>2
<1>4. TypeOK' /\ Maps'
  BY <1>1, <1>2, <1>3 DEF TypeOK, Maps
<1>5. role = "peer" => Limits'
  BY <1>1, <1>2, NothingMoves
<1> QED
  BY <1>2, <1>4, <1>5 DEF PeerInv

\* connections of p change, and with them at most whether and how p is pinged
LEMMA ConnectionsMove ==
    ASSUME PeerInv, NEW p \in Peer, NEW t \in Seq(Connection(p)),
           conns' = [conns EXCEPT ![p] = t], role = "peer" => Limits',
           numRelayConnections' \in Nat,
           checked' \subseteq Peer, checks' \in [Peer -> Idle..(PingRetries - 1)],
           streams' \in [Peer -> Connections \cup {NoStream}],
           \A h \in handlers' : h \in HandlerType,
           redials' \in 0..MaxRedials, faults' \in 0..MaxFaults,
           UNCHANGED <<role, known, up, chatKnown, dialled>>
    PROVE  PeerInv'
<1>1. TypeOK /\ Maps
  BY DEF PeerInv
<1>2. /\ \A q \in Peer : conns'[q] \in
             Seq([id : Connections, chat : BOOLEAN, closing : BOOLEAN,
                  address : Addresses(q)])
      /\ conns' = [q \in Peer |-> conns'[q]]
  BY <1>1, StillTyped
<1>3. checks' = [q \in Peer |-> checks'[q]]
  OBVIOUS
<1>4. TypeOK'
  BY <1>1, <1>2 DEF TypeOK, HandlerType
<1>5. Maps'
  BY <1>1, <1>2, <1>3 DEF Maps
<1> QED
  BY <1>4, <1>5 DEF PeerInv

\* the rest of the state, as the steps leave it
LEMMA OthersTypes ==
    ASSUME PeerInv
    PROVE  /\ checked \subseteq Peer /\ checks \in [Peer -> Idle..(PingRetries - 1)]
           /\ streams \in [Peer -> Connections \cup {NoStream}]
           /\ \A h \in handlers : h \in HandlerType
           /\ redials \in 0..MaxRedials /\ faults \in 0..MaxFaults
           /\ numRelayConnections \in Nat /\ role \in {"peer", "relay"}
BY DEF PeerInv, TypeOK, Maps, HandlerType

LEMMA PingFailedKept ==
    ASSUME PeerInv, NEW p \in Peer, PingFailed(p) \/ MuxerClosed(p)
    PROVE  PeerInv'
<1>1. TypeOK /\ Maps /\ (role = "peer" => Limits)
  BY DEF PeerInv
<1>2. /\ UNCHANGED <<role, known, up, numRelayConnections, handlers, chatKnown, streams,
                     redials, dialled, faults>>
  BY DEF PingFailed, MuxerClosed
<1>3. checked' \subseteq Peer
  BY OthersTypes DEF PingFailed, MuxerClosed, PingDisconnect
<1>4. checks' \in [Peer -> Idle..(PingRetries - 1)]
  <2>1. checks \in [Peer -> Idle..(PingRetries - 1)] /\ PingRetries \in Nat \ {0}
    BY OthersTypes, PeersAssumption
  <2>2. \/ UNCHANGED checks
        \/ checks[p] # Idle /\ checks[p] + 1 < PingRetries
           /\ checks' = [checks EXCEPT ![p] = checks[p] + 1]
        \/ checks' = [checks EXCEPT ![p] = Idle]
    BY DEF PingFailed, MuxerClosed
  <2>3. Idle \in Idle..(PingRetries - 1)
    BY <2>1 DEF Idle
  <2>4. ASSUME checks[p] # Idle, checks[p] + 1 < PingRetries
        PROVE  checks[p] + 1 \in Idle..(PingRetries - 1)
    BY <2>1, <2>4 DEF Idle
  <2> QED
    BY <2>1, <2>2, <2>3, <2>4
<1>5. \E t \in Seq(Connection(p)) :
         /\ conns' = [conns EXCEPT ![p] = t]
         /\ Narrows(t, conns[p])
         /\ t # <<>> => Connected(p)
  <2>1. conns[p] \in Seq(Connection(p)) /\ Len(conns[p]) \in Nat
    BY <1>1, ConnectionsTyped
  <2>2. CASE UNCHANGED conns
    <3>1. conns' = [conns EXCEPT ![p] = conns[p]]
      BY <2>2, <1>1 DEF Maps
    <3>2. Narrows(conns[p], conns[p])
      <4> DEFINE m == [i \in Kept(conns[p]) |-> i]
      <4>1. m \in [Kept(conns[p]) -> Kept(conns[p])]
        OBVIOUS
      <4> QED
        BY <4>1 DEF Narrows
    <3> QED
      BY <2>1, <3>1, <3>2 DEF Connected
  <2>3. CASE HangUp(p)
    <3>1. AllClosing(p) # <<>> => Connected(p)
      BY <2>1, ClosingNarrows, EmptySeq DEF Connected
    <3> QED
      BY <2>1, <2>3, <3>1, ClosingNarrows, NothingKept DEF HangUp
  <2>4. CASE MuxerClosed(p)
    <3> DEFINE t == [conns[p] EXCEPT ![1] = [conns[p][1] EXCEPT !.closing = TRUE]]
    <3>1. 1 \in 1..Len(conns[p]) /\ conns[p] # <<>>
      BY <2>1, <2>4, EmptySeq DEF MuxerClosed
    <3>2. t \in Seq(Connection(p)) /\ Narrows(t, conns[p])
      BY <2>1, <3>1, OneClosingNarrows
    <3>3. conns' = [conns EXCEPT ![p] = t]
      BY <2>4 DEF MuxerClosed
    <3> QED
      BY <3>1, <3>2, <3>3 DEF Connected
  <2> QED
    BY <2>2, <2>3, <2>4 DEF PingFailed, PingDisconnect
<1>6. PICK t \in Seq(Connection(p)) :
         /\ conns' = [conns EXCEPT ![p] = t]
         /\ Narrows(t, conns[p])
         /\ t # <<>> => Connected(p)
  BY <1>5
<1>7. Counts(p, t)
  BY <1>2, <1>6 DEF Counts
<1>8. role = "peer" => Limits'
  BY <1>1, <1>2, <1>6, <1>7, NarrowedKept
<1> QED
  BY <1>2, <1>3, <1>4, <1>6, <1>8, ConnectionsMove, OthersTypes

\* a connection ends; the last one of a relay uncounts it
LEMMA ClosedKept ==
    ASSUME PeerInv, NEW p \in Peer, CloseDone(p) \/ ConnectionLost(p)
    PROVE  PeerInv'
<1>1. TypeOK /\ Maps /\ (role = "peer" => Limits)
  BY DEF PeerInv
<1>2. PICK k \in DOMAIN conns[p] : Closed(p, k) /\ faults' \in 0..MaxFaults
  <2>1. faults' \in 0..MaxFaults
    BY OthersTypes, PeersAssumption DEF CloseDone, ConnectionLost
  <2> QED
    BY <2>1 DEF CloseDone, ConnectionLost
<1>3. /\ conns[p] \in Seq(Connection(p)) /\ k \in 1..Len(conns[p])
      /\ Len(conns[p]) \in Nat /\ numRelayConnections \in Nat
  BY <1>1, ConnectionsTyped
<1> DEFINE t == RemoveAt(conns[p], k)  a == conns[p][k].address
<1>4. t \in Seq(Connection(p)) /\ Len(t) = Len(conns[p]) - 1 /\ Narrows(t, conns[p])
  BY <1>3, RemovalNarrows
<1>5. a \in Addresses(p)
  <2>1. conns[p][k] \in Connection(p)
    BY <1>3, ElementOfSeq
  <2> QED
    BY <2>1 DEF Connection
<1>6. /\ conns' = [conns EXCEPT ![p] = t]
      /\ UNCHANGED <<role, known, up, handlers, chatKnown, streams, checks, dialled>>
      /\ \/ Len(conns[p]) = 1 /\ HandleDisconnect(p, a)
         \/ Len(conns[p]) # 1 /\ UNCHANGED <<numRelayConnections, checked, redials>>
  BY <1>2 DEF Closed
<1> HIDE DEF t, a
<1>7. Connected(p) /\ (t = <<>> <=> Len(conns[p]) = 1)
  <2>1. Len(<<>>) = 0
    BY EmptySeq
  <2>2. conns[p] # <<>>
    BY <1>3, <2>1
  <2>3. t = <<>> <=> Len(t) = 0
    BY <1>4, EmptySeq
  <2> QED
    BY <1>3, <1>4, <2>2, <2>3 DEF Connected
<1>8. Counts(p, t) \/ role = "relay"
  <2>1. CASE Len(conns[p]) = 1 /\ HandleDisconnect(p, a)
    BY <1>5, <1>7, <2>1, AddressOf, OthersTypes DEF HandleDisconnect, Uncount, Counts
  <2>2. CASE UNCHANGED numRelayConnections
    BY <1>7, <2>2 DEF Counts
  <2> QED
    BY <1>6, <2>1, <2>2
<1>9. role = "peer" => Limits' /\ numRelayConnections' \in Nat
  BY <1>1, <1>4, <1>6, <1>8, NarrowedKept
<1>10. numRelayConnections' \in Nat
  BY <1>3, <1>6, <1>9, OthersTypes DEF HandleDisconnect
<1>11. checked' \subseteq Peer
  BY <1>6, OthersTypes DEF HandleDisconnect
<1>12. redials' \in 0..MaxRedials
  <2>1. redials \in 0..MaxRedials /\ MaxRedials \in Nat
    BY OthersTypes, PeersAssumption
  <2>2. Min({redials + 1, MaxRedials}) \in 0..MaxRedials
    BY <2>1, MinOfTwo
  <2> QED
    BY <1>6, <2>1, <2>2 DEF HandleDisconnect
<1> QED
  BY <1>2, <1>4, <1>6, <1>9, <1>10, <1>11, <1>12, ConnectionsMove, OthersTypes

\* HandleStream: on a connection that is kept, or with a peer that is not managed
LEMMA StreamsKept ==
    ASSUME PeerInv, NEW p \in Peer, NEW k \in DOMAIN conns[p], HandleStream(p, k),
           k \in Kept(conns[p])
    PROVE  /\ \E t \in Seq(Connection(p)) : conns' = [conns EXCEPT ![p] = t]
           /\ streams' \in [Peer -> Connections \cup {NoStream}]
           /\ role = "peer" /\ UNCHANGED numRelayConnections => Limits'
<1>1. TypeOK /\ Maps /\ (role = "peer" => Limits)
  BY DEF PeerInv
<1>2. /\ conns[p] \in Seq(Connection(p)) /\ k \in 1..Len(conns[p])
      /\ DOMAIN conns[p] = 1..Len(conns[p])
  BY <1>1, ConnectionsTyped
<1>3. conns[p][k] \in Connection(p)
  BY <1>2, ElementOfSeq
<1> DEFINE e == [conns[p][k] EXCEPT !.chat = TRUE]
           t == [conns[p] EXCEPT ![k] = e]
<1>4. /\ e \in Connection(p) /\ e.id = conns[p][k].id /\ e.address = conns[p][k].address
      /\ e.closing = conns[p][k].closing
  BY <1>3 DEF Connection
<1>5. conns' = [conns EXCEPT ![p] = t] /\ streams' = [streams EXCEPT ![p] = conns[p][k].id]
  BY DEF HandleStream
<1> HIDE DEF e
<1>6. /\ t \in Seq(Connection(p)) /\ Len(t) = Len(conns[p])
      /\ \A j \in 1..Len(conns[p]) : t[j] = IF j = k THEN e ELSE conns[p][j]
  BY <1>2, <1>4, ExceptSeq
<1>7. DOMAIN t = DOMAIN conns[p]
  BY <1>2, <1>6, LenProperties
<1> HIDE DEF t
<1>8. Kept(t) = Kept(conns[p])
  BY <1>2, <1>4, <1>6, <1>7 DEF Kept
<1>9. streams' \in [Peer -> Connections \cup {NoStream}]
  BY <1>3, <1>5, OthersTypes DEF Connection
<1>10. conns'[p] = t /\ \A q \in Peer : q # p => conns'[q] = conns[q]
  BY <1>1, <1>5, Replaced
<1>11. ASSUME role = "peer", UNCHANGED numRelayConnections PROVE Limits'
  <2>0. Relay \subseteq Peer /\ Managed \subseteq Peer /\ Limits
    BY <1>1, <1>11, PeersAssumption DEF Managed
  <2>1. RelaysCounted'
    <3>1. t = <<>> <=> conns[p] = <<>>
      BY <1>2, <1>6, EmptySeq
    <3>2. ConnectedRelays' = ConnectedRelays
      BY <1>10, <2>0, <3>1 DEF ConnectedRelays, Connected
    <3> QED
      BY <1>11, <2>0, <3>2 DEF Limits, RelaysCounted
  <2>2. OneKept'
    <3> SUFFICES ASSUME NEW q \in Managed PROVE \A i, j \in Kept(conns'[q]) : i = j
      BY DEF OneKept, Kept
    <3>1. Kept(conns'[q]) = Kept(conns[q])
      BY <1>8, <1>10, <2>0
    <3> QED
      BY <2>0, <3>1 DEF Limits, OneKept
  <2>3. StreamKept'
    <3> SUFFICES ASSUME NEW q \in Managed, NEW i \in Kept(conns'[q]), conns'[q][i].chat
                 PROVE  streams'[q] = conns'[q][i].id
      BY DEF StreamKept, Kept
    <3>1. CASE q # p
      <4>1. streams'[q] = streams[q] /\ conns'[q] = conns[q]
        BY <1>5, <1>10, <2>0, <3>1, OthersTypes
      <4> QED
        BY <2>0, <4>1 DEF Limits, StreamKept
    <3>2. CASE q = p
      <4>1. i \in Kept(conns[p])
        BY <1>8, <1>10, <3>2
      <4>2. i = k
        BY <2>0, <3>2, <4>1 DEF Limits, OneKept
      <4>3. conns'[q][i] = e
        BY <1>2, <1>6, <1>10, <3>2, <4>2
      <4>4. streams'[q] = conns[p][k].id
        BY <1>5, <3>2, OthersTypes
      <4> QED
        BY <1>4, <4>3, <4>4
    <3> QED
      BY <3>1, <3>2
  <2>4. LimitedRelays' \in SUBSET LimitedRelays
    <3> SUFFICES ASSUME NEW q \in Relay, NEW i \in Kept(conns'[q]),
                        conns'[q][i].address = "direct"
                 PROVE  q \in LimitedRelays
      BY DEF LimitedRelays, Kept
    <3>1. CASE q # p
      BY <1>10, <2>0, <3>1 DEF LimitedRelays
    <3>2. CASE q = p
      <4>1. i \in Kept(conns[p]) /\ conns'[q] = t
        BY <1>8, <1>10, <3>2
      <4>2. conns[p][i].address = "direct"
        BY <1>2, <1>4, <1>6, <4>1 DEF Kept
      <4> QED
        BY <3>2, <4>1, <4>2 DEF LimitedRelays
    <3> QED
      BY <3>1, <3>2
  <2>5. RelaysLimited'
    BY <2>0, <2>4, LimitNarrows DEF Limits
  <2> QED
    BY <2>1, <2>2, <2>3, <2>5 DEF Limits
<1> QED
  BY <1>5, <1>6, <1>9, <1>11

LEMMA StreamKeptOpen ==
    ASSUME PeerInv, NEW p \in Peer, NEW k \in DOMAIN conns[p], ~conns[p][k].closing,
           HandleStream(p, k), \A h \in handlers' : h \in HandlerType,
           checked' \subseteq Peer, checks' \in [Peer -> Idle..(PingRetries - 1)],
           UNCHANGED <<role, known, up, numRelayConnections, chatKnown, redials,
                       dialled, faults>>
    PROVE  PeerInv'
<1>1. k \in Kept(conns[p])
  BY DEF Kept
<1>2. /\ \E t \in Seq(Connection(p)) : conns' = [conns EXCEPT ![p] = t]
      /\ streams' \in [Peer -> Connections \cup {NoStream}]
      /\ role = "peer" => Limits'
  BY <1>1, StreamsKept
<1> QED
  BY <1>2, ConnectionsMove, OthersTypes

LEMMA RemoteStreamKept ==
    ASSUME PeerInv, NEW p \in Peer, RemoteStream(p)
    PROVE  PeerInv'
BY StreamKeptOpen, OthersTypes DEF RemoteStream

LEMMA HandlerMoves ==
    ASSUME PeerInv, \A h \in handlers' : h \in HandlerType,
           checked' \subseteq Peer, checks' \in [Peer -> Idle..(PingRetries - 1)],
           chatKnown' \subseteq Chat,
           UNCHANGED <<role, known, up, conns, numRelayConnections, streams, redials,
                       dialled, faults>>
    PROVE  PeerInv'
<1>1. TypeOK' /\ Maps'
  BY DEF PeerInv, TypeOK, Maps, HandlerType
<1>2. role = "peer" => Limits'
  BY NothingMoves DEF PeerInv
<1> QED
  BY <1>1, <1>2 DEF PeerInv

LEMMA HandleKept ==
    ASSUME PeerInv, Handle
    PROVE  PeerInv'
<1>1. PICK h \in handlers : OthersClosed(h) \/ ProtocolsRead(h) \/ StreamCreated(h)
  BY DEF Handle
<1>2. h \in HandlerType /\ h.peer \in Peer /\ \A g \in handlers : g \in HandlerType
  BY OthersTypes DEF HandlerType
<1>3. TypeOK /\ Maps
  BY DEF PeerInv
<1>4. CASE OthersClosed(h)
  <2>1. [h EXCEPT !.at = "protocols", !.others = {}] \in HandlerType
    BY <1>2 DEF HandlerType
  <2> QED
    BY <1>2, <1>3, <1>4, <2>1, HandlerMoves, OthersTypes DEF OthersClosed, TypeOK
<1>5. CASE ProtocolsRead(h)
  <2>1. [h EXCEPT !.at = "stream"] \in HandlerType
    BY <1>2 DEF HandlerType
  <2>2. \A g \in handlers' : g \in HandlerType
    BY <1>2, <1>5, <2>1 DEF ProtocolsRead
  <2>3. checked' \subseteq Peer /\ checks' \in [Peer -> Idle..(PingRetries - 1)]
    <3>1. CASE UNCHANGED <<checked, checks>>
      BY <3>1, OthersTypes
    <3>2. CASE Start(h.peer)
      BY <1>2, <1>3, <3>2, Starts
    <3> QED
      BY <1>5, <3>1, <3>2 DEF ProtocolsRead
  <2> QED
    BY <1>3, <1>5, <2>2, <2>3, HandlerMoves, OthersTypes DEF ProtocolsRead, TypeOK
<1>6. CASE StreamCreated(h)
  <2>1. \A g \in handlers' : g \in HandlerType
    BY <1>2, <1>6 DEF StreamCreated
  <2>2. checked' \subseteq Peer /\ checks' \in [Peer -> Idle..(PingRetries - 1)]
    <3>1. CASE UNCHANGED <<checked, checks>>
      BY <3>1, OthersTypes
    <3>2. CASE Start(h.peer)
      BY <1>2, <1>3, <3>2, Starts
    <3> QED
      BY <1>6, <3>1, <3>2 DEF StreamCreated
  <2>3. UNCHANGED <<role, known, up, numRelayConnections, chatKnown, redials, dialled, faults>>
    BY <1>6 DEF StreamCreated
  <2>4. CASE UNCHANGED <<conns, streams>>
    BY <2>1, <2>2, <2>3, <2>4, HandlerMoves, OthersTypes, <1>3 DEF TypeOK
  <2>5. CASE \E i \in DOMAIN conns[h.peer] :
                ~conns[h.peer][i].closing /\ HandleStream(h.peer, i)
    BY <1>2, <2>1, <2>2, <2>3, <2>5, StreamKeptOpen
  <2> QED
    BY <1>6, <2>4, <2>5 DEF StreamCreated
<1> QED
  BY <1>1, <1>4, <1>5, <1>6

LEMMA ChangeProtocolsKept ==
    ASSUME PeerInv, NEW p \in Peer, ChangeProtocols(p)
    PROVE  PeerInv'
<1>1. TypeOK
  BY DEF PeerInv
<1>2. conns[p] \in Seq(Connection(p)) /\ conns[p] # <<>>
  BY <1>1, ConnectionsTyped DEF ChangeProtocols, Connected
<1>3. Head(conns[p]) \in Connection(p)
  BY <1>2
<1>4. Handler(p, Head(conns[p]).id, "stream", {}, FALSE) \in HandlerType
  BY <1>3 DEF Handler, HandlerType, Connection
<1>5. \A h \in handlers' : h \in HandlerType
  BY <1>4, OthersTypes DEF ChangeProtocols
<1>6. chatKnown' \subseteq Chat
  BY <1>1 DEF ChangeProtocols, TypeOK
<1> QED
  BY <1>5, <1>6, HandlerMoves, OthersTypes DEF ChangeProtocols

DialledTyped == \A p \in Peer : dialled[p] \subseteq
                    (IF p \in known \ Denied THEN Addresses(p) ELSE {})

LEMMA DialKept ==
    ASSUME PeerInv, NEW p \in Peer, NEW a \in Addresses(p), NewConnection(p, a),
           UNCHANGED <<role, known, up, chatKnown, streams, faults>>,
           redials' \in 0..MaxRedials, dialled' = [q \in Peer |-> dialled'[q]],
           DialledTyped'
    PROVE  PeerInv'
<1>1. /\ role = "peer" => Limits'
      /\ numRelayConnections' \in Nat
      /\ \A q \in Peer : conns'[q] \in
             Seq([id : Connections, chat : BOOLEAN, closing : BOOLEAN,
                  address : Addresses(q)])
      /\ conns' = [q \in Peer |-> conns'[q]]
      /\ \A h \in handlers' : h \in HandlerType
      /\ checked' \subseteq Peer
      /\ \A q \in Peer : checks'[q] \in Idle..(PingRetries - 1)
      /\ checks' = [q \in Peer |-> checks'[q]]
  BY Connects
<1>2. TypeOK
  BY DEF PeerInv
<1>3. TypeOK'
  BY <1>1, <1>2 DEF TypeOK, HandlerType, DialledTyped
<1>4. Maps'
  BY <1>1 DEF Maps
<1> QED
  BY <1>1, <1>3, <1>4 DEF PeerInv

\* what is dialled, and the loops that dial the relay
LEMMA DialTypes ==
    ASSUME PeerInv
    PROVE  /\ DialledTyped /\ dialled = [q \in Peer |-> dialled[q]]
           /\ redials \in 0..MaxRedials /\ MaxRedials \in Nat /\ MaxFaults \in Nat
           /\ faults \in 0..MaxFaults
           /\ Primary \in Peer /\ "primary" \in Addresses(Primary)
           /\ \A p \in Peer : dialled[p] \subseteq Addresses(p)
BY PeersAssumption DEF PeerInv, TypeOK, Maps, DialledTyped, Addresses

\* connections stay as they are
LEMMA DialsMove ==
    ASSUME PeerInv, DialledTyped', dialled' = [q \in Peer |-> dialled'[q]],
           redials' \in 0..MaxRedials, faults' \in 0..MaxFaults, up' \subseteq known,
           UNCHANGED <<role, known, conns, numRelayConnections, handlers, chatKnown,
                       streams, checked, checks>>
    PROVE  PeerInv'
<1>1. TypeOK' /\ Maps'
  BY DEF PeerInv, TypeOK, Maps, DialledTyped
<1>2. role = "peer" => Limits'
  BY NothingMoves DEF PeerInv
<1> QED
  BY <1>1, <1>2 DEF PeerInv

LEMMA DialRelayKept ==
    ASSUME PeerInv, DialRelay \/ StopDialRetry
    PROVE  PeerInv'
<1>1. redials' \in 0..MaxRedials
  BY DialTypes DEF DialRelay, StopDialRetry
<1>2. UNCHANGED <<role, known, up, chatKnown, streams, dialled, faults>>
  BY DEF DialRelay, StopDialRetry
<1>3. DialledTyped' /\ dialled' = [q \in Peer |-> dialled'[q]]
  BY <1>2, DialTypes DEF DialledTyped
<1>4. up' \subseteq known /\ faults' \in 0..MaxFaults
  BY <1>2, DialTypes DEF PeerInv, TypeOK
<1>5. CASE UNCHANGED <<conns, numRelayConnections, handlers, checked, checks>>
  BY <1>1, <1>2, <1>3, <1>4, <1>5, DialsMove
<1>6. CASE Dial(Primary, "primary")
  BY <1>1, <1>2, <1>3, <1>6, DialKept, DialTypes DEF Dial
<1> QED
  BY <1>5, <1>6 DEF DialRelay, StopDialRetry

LEMMA DiscoveryKept ==
    ASSUME PeerInv, NEW p \in Peer, HandleDiscovery(p) \/ ConnectPeer(p)
    PROVE  PeerInv'
<1>1. UNCHANGED <<role, known, up, chatKnown, streams, redials, faults>>
  BY DEF HandleDiscovery, ConnectPeer
<1>2. dialled \in [Peer -> {dialled[q] : q \in Peer}]
  BY DialTypes
<1>3. dialled' = [q \in Peer |-> dialled'[q]] /\ \A q \in Peer : q # p => dialled'[q] = dialled[q]
  BY <1>2 DEF HandleDiscovery, ConnectPeer
<1>4. \/ p \in known \ Denied /\ dialled'[p] = Addresses(p)
      \/ dialled'[p] \subseteq dialled[p]
  BY <1>2 DEF HandleDiscovery, ConnectPeer
<1>5. DialledTyped'
  BY <1>1, <1>3, <1>4, DialTypes DEF DialledTyped
<1>6. up' \subseteq known
  BY <1>1 DEF PeerInv, TypeOK
<1>7. CASE UNCHANGED <<conns, numRelayConnections, handlers, checked, checks>>
  BY <1>1, <1>3, <1>5, <1>6, <1>7, DialsMove, DialTypes
<1>8. CASE \E a \in dialled[p] : Dial(p, a)
  BY <1>1, <1>3, <1>5, <1>8, DialKept, DialTypes DEF Dial
<1> QED
  BY <1>7, <1>8 DEF HandleDiscovery, ConnectPeer

LEMMA IncomingKept ==
    ASSUME PeerInv, NEW p \in Peer, Incoming(p) \/ PingDials(p)
    PROVE  PeerInv'
<1>1. UNCHANGED <<role, known, up, chatKnown, streams, redials, dialled, faults>>
  BY DEF Incoming, PingDials
<1>2. PICK a \in Addresses(p) : NewConnection(p, a)
  BY DEF Incoming, PingDials, Dial
<1>3. DialledTyped' /\ dialled' = [q \in Peer |-> dialled'[q]]
  BY <1>1, DialTypes DEF DialledTyped
<1> QED
  BY <1>1, <1>2, <1>3, DialKept, DialTypes

LEMMA PeersChange ==
    ASSUME PeerInv, NEW p \in Peer, PeerDown(p) \/ PeerUp(p)
    PROVE  PeerInv'
<1>1. /\ UNCHANGED <<role, known, conns, numRelayConnections, handlers, chatKnown,
                     streams, checked, checks, redials, dialled>>
      /\ up' \subseteq known /\ faults' \in 0..MaxFaults
  <2>1. up \subseteq known
    BY DEF PeerInv, TypeOK
  <2>2. CASE PeerDown(p)
    BY <2>1, <2>2, DialTypes DEF PeerDown
  <2>3. CASE PeerUp(p)
    BY <2>1, <2>3, DialTypes DEF PeerUp
  <2> QED
    BY <2>2, <2>3
<1>2. DialledTyped' /\ dialled' = [q \in Peer |-> dialled'[q]]
  BY <1>1, DialTypes DEF DialledTyped
<1> QED
  BY <1>1, <1>2, DialsMove, DialTypes

LEMMA PeerInit ==
    ASSUME Init
    PROVE  PeerInv
<1>1. \A p \in Peer : conns[p] = <<>>
  BY DEF Init
<1>2. Maps
  BY DEF Init, Maps
<1>3. Len(<<>>) = 0 /\ DOMAIN <<>> = {}
  BY EmptySeq, LenProperties
<1>4. TypeOK
  <2>1. 1 \in 0..MaxRedials /\ 0 \in 0..MaxFaults /\ Idle \in Idle..(PingRetries - 1)
    BY PeersAssumption DEF Idle
  <2>2. \A p \in Peer : conns[p] \in
            Seq([id : Connections, chat : BOOLEAN, closing : BOOLEAN, address : Addresses(p)])
    BY <1>1, EmptySeq
  <2> QED
    BY <2>1, <2>2 DEF Init, TypeOK
<1>5. ConnectedRelays = {} /\ LimitedRelays = {} /\ \A p \in Managed : Kept(conns[p]) = {}
  BY <1>1, <1>3, PeersAssumption DEF ConnectedRelays, LimitedRelays, Managed, Connected, Kept
<1>6. RelaysCounted /\ RelaysLimited
  <2>1. numRelayConnections = 0 /\ MaxRelayConnections \in Nat
    BY PeersAssumption DEF Init
  <2> QED
    BY <1>5, <2>1, FS_EmptySet DEF RelaysCounted, RelaysLimited
<1>7. OneKept /\ StreamKept
  BY <1>5 DEF OneKept, StreamKept
<1> QED
  BY <1>2, <1>4, <1>6, <1>7 DEF PeerInv, Limits

LEMMA PeerStep ==
    ASSUME PeerInv, [Next]_vars
    PROVE  PeerInv'
<1>1. CASE UNCHANGED vars
  <2>1. TypeOK' /\ Maps'
    BY <1>1 DEF PeerInv, TypeOK, Maps, vars
  <2>2. role = "peer" => Limits'
    BY <1>1, NothingMoves DEF PeerInv, vars
  <2> QED
    BY <1>1, <2>1, <2>2 DEF PeerInv, vars
<1>2. ASSUME NEW p \in Peer, PingTick(p) \/ Ping(p) \/ PingDials(p) \/ MuxerClosed(p)
      PROVE  PeerInv'
  BY <1>2, PingTickKept, PingFailedKept, IncomingKept DEF Ping
<1>3. ASSUME NEW p \in Peer, ChangeProtocols(p) \/ RemoteStream(p) \/ CloseDone(p)
                             \/ ConnectionLost(p)
      PROVE  PeerInv'
  BY <1>3, ChangeProtocolsKept, RemoteStreamKept, ClosedKept
<1>4. ASSUME NEW p \in Peer, HandleDiscovery(p) \/ ConnectPeer(p) \/ Incoming(p)
                             \/ PeerDown(p) \/ PeerUp(p)
      PROVE  PeerInv'
  BY <1>4, DiscoveryKept, IncomingKept, PeersChange
<1> QED
  BY <1>1, <1>2, <1>3, <1>4, HandleKept, DialRelayKept DEF Next

LEMMA PeerInvariant == Spec => []PeerInv
<1>1. Init => PeerInv
  BY PeerInit
<1>2. PeerInv /\ [Next]_vars => PeerInv'
  BY PeerStep
<1> QED
  BY <1>1, <1>2, PTL DEF Spec

-------------------------------------------------------------------------------
(***************************************************************************)
(* _handleDiscovery, _handleConnect: whatever dials overlap and however     *)
(* connections end, a peer keeps at most maxRelayConnections connections to *)
(* relays other than the primary one.  A relay that is connected counts, so *)
(* that the count of a new one bounds the relays; and each relay keeps one  *)
(* connection, so that relays bound connections.                            *)
(***************************************************************************)
THEOREM RelaysStayLimited == Spec => []RelayLimitKept
<1>1. PeerInv => RelayLimitKept
  <2> SUFFICES ASSUME PeerInv, role = "peer"
               PROVE  Cardinality({c \in UNION {Settled(p) : p \in Peer} :
                          isRelayPeerMultiaddr(c.address) /\ ~isPrimaryRelay(c.address)})
                              <= MaxRelayConnections
    BY DEF RelayLimitKept, PeerInv
  <2> DEFINE S == {c \in UNION {Settled(p) : p \in Peer} :
                       isRelayPeerMultiaddr(c.address) /\ ~isPrimaryRelay(c.address)}
             L == LimitedRelays
             f == [p \in L |-> CHOOSE c \in Settled(p) : c.address = "direct"]
  <2>0. TypeOK /\ Limits /\ Relay \subseteq Peer
    BY PeersAssumption DEF PeerInv
  <2>1. \A p \in Peer : \A c \in Settled(p) :
           c \in Connection(p) /\ \E i \in Kept(conns[p]) : c = conns[p][i]
    <3>1. \A p \in Peer : \A i \in DOMAIN conns[p] : conns[p][i] \in Connection(p)
      BY <2>0, ConnectionsTyped, ElementOfSeq
    <3> QED
      BY <3>1 DEF Settled, Conns, ToSet, Kept
  <2>2. \A p \in Peer : \A i \in Kept(conns[p]) : conns[p][i] \in Settled(p)
    BY DEF Settled, Conns, ToSet, Kept
  <2>3. \A p \in L : f[p] \in Settled(p) /\ f[p].address = "direct"
    <3> SUFFICES ASSUME NEW p \in L PROVE \E c \in Settled(p) : c.address = "direct"
      OBVIOUS
    <3> QED
      BY <2>0, <2>2 DEF LimitedRelays
  <2>4. \A p \in L : f[p] \in S
    BY <2>0, <2>3 DEF LimitedRelays, isRelayPeerMultiaddr, isPrimaryRelay
  <2>5. \A c \in S : \E p \in L : f[p] = c
    <3> SUFFICES ASSUME NEW p \in Peer, NEW c \in Settled(p), isRelayPeerMultiaddr(c.address),
                        ~isPrimaryRelay(c.address)
                 PROVE  p \in L /\ f[p] = c
      OBVIOUS
    <3>1. PICK i \in Kept(conns[p]) : c = conns[p][i]
      BY <2>1
    <3>2. c.address \in Addresses(p)
      BY <2>1 DEF Connection
    <3>3. p \in Relay /\ c.address = "direct"
      BY <3>2, AddressOf
    <3>4. p \in L
      BY <3>1, <3>3 DEF LimitedRelays
    <3>5. PICK j \in Kept(conns[p]) : f[p] = conns[p][j]
      BY <2>1, <2>3, <3>4
    <3>6. i = j
      BY <2>0, <3>1, <3>3, <3>5 DEF Limits, OneKept, Managed
    <3> QED
      BY <3>1, <3>4, <3>5, <3>6
  <2> HIDE DEF S, f
  <2>6. f \in Surjection(L, S)
    <3>1. f \in [L -> S]
      BY <2>4 DEF f
    <3> QED
      BY <2>5, <3>1 DEF Surjection
  <2>7. L \in SUBSET Relay
    BY DEF LimitedRelays
  <2>8. IsFiniteSet(L) /\ Cardinality(L) \in Nat
    BY <2>7, SubsetsOfRelay
  <2>9. Cardinality(S) <= Cardinality(L) /\ Cardinality(S) \in Nat
    BY <2>6, <2>8, FS_Surjection, FS_CardinalityType
  <2>10. Cardinality(L) <= MaxRelayConnections /\ MaxRelayConnections \in Nat
    BY <2>0, PeersAssumption DEF Limits, RelaysLimited
  <2> QED
    BY <2>8, <2>9, <2>10 DEF S
<1> QED
  BY <1>1, PeerInvariant, PTL

(***************************************************************************)
(* broadcastMessage, _handleConnect: with a peer whose stream this side     *)
(* opens, messages are pushed to a stream on the connection that is kept:   *)
(* no handler that was overtaken by a newer connection leaves the map with  *)
(* the stream of an older one.                                              *)
(***************************************************************************)
THEOREM StreamsFollowConnections == Spec => []BroadcastReaches
<1>1. PeerInv => BroadcastReaches
  <2> SUFFICES ASSUME PeerInv, role = "peer", NEW p \in Chat \cap Larger,
                      NEW c \in Settled(p), c.chat
               PROVE  streams[p] = c.id
    BY DEF BroadcastReaches
  <2>1. PICK i \in Kept(conns[p]) : c = conns[p][i]
    BY DEF Settled, Conns, ToSet, Kept
  <2> QED
    BY <2>1 DEF PeerInv, Limits, StreamKept, Managed
<1> QED
  BY <1>1, PeerInvariant, PTL

===============================================================================
