--------------------------------- MODULE Peers ---------------------------------
(***************************************************************************)
(* Connections of one node of the peer network, a watcher's peer or a relay *)
(* node.  Connections come from dials of discovered peers, from the other   *)
(* side, from redials of the primary relay and from pings of a peer that is *)
(* gone; they end by a close of either side or unnoticed, when the peer     *)
(* stops answering.                                                         *)
(*                                                                          *)
(* The handlers of these events await in the middle: a peer may disconnect, *)
(* or connect once more, before a handler of its connection has returned.   *)
(* libp2p itself is external: it keeps the connections of a peer in a list, *)
(* gives a connect event for each and a disconnect event for the last one.  *)
(***************************************************************************)
EXTENDS Integers, SequencesExt, FiniteSetsExt

CONSTANTS
    Peer,                \* the remote peers
    Relay,               \* those that are relay nodes
    Primary,             \* the primary relay: relayNodeMultiaddr, relayPeers
    Chat,                \* the peers that handle CHAT_PROTOCOL
    Larger,              \* the peers with a larger peer id than this node
    Denied,              \* the peers with an address in denyMultiaddrs
    Networks,            \* the sets of peers that may be on the network
    MaxRelayConnections, \* maxRelayConnections
    PingRetries,         \* pings before a peer counts as dead
    NoStream,
    MaxConnections,      \* bound on the open connections
    MaxRedials,          \* bound on the loops that dial the primary relay
    MaxFaults            \* bound on lost connections and on peers going down

ASSUME PeersAssumption ==
    /\ IsFiniteSet(Peer)
    /\ Relay \subseteq Peer /\ Chat \subseteq Peer \ Relay
    /\ Larger \subseteq Peer /\ Denied \subseteq Peer
    /\ Primary \in Relay
    /\ Networks \subseteq SUBSET Peer
    /\ {MaxRelayConnections, MaxFaults} \subseteq Nat
    /\ {PingRetries, MaxConnections, MaxRedials} \subseteq Nat \ {0}

VARIABLES
    role,        \* what this node is: "peer" or "relay"
    known,       \* the peers on the network
    up,          \* the peers that answer
    conns,       \* conns[p], the connections to p, oldest first
    numRelayConnections,
    handlers,    \* the handlers of connections that await
    chatKnown,   \* the peers whose protocols in the peer store include chat
    streams,     \* peerStreamMap: the connection of the stream to a peer
    checked,     \* the keys of _peerMap: peers with a ping interval
    checks,      \* checks[p], the failed pings of a _validatePing call in flight for p
    redials,     \* calls of dialWithRetry for the primary relay
    dialled,     \* dialled[p], the addresses of p that _connectPeer still dials
    faults

vars == <<role, known, up, conns, numRelayConnections, handlers, chatKnown,
          streams, checked, checks, redials, dialled, faults>>

Connections == 1..MaxConnections
Idle == -1

\* the addresses a peer is connected by: the configured multiaddr of the primary
\* relay, another direct one, one through a relay, or webrtc-star
Addresses(p) ==
    CASE p = Primary -> {"primary", "direct"}
      [] p \in Relay \ {Primary} -> {"direct"}
      [] OTHER -> {"circuit", "webrtc"}

isRelayPeerMultiaddr(address) == address \notin {"circuit", "webrtc"}
isPrimaryRelay(address) == address = "primary"

Conns(p) == ToSet(conns[p])
Connected(p) == conns[p] # <<>>
Settled(p) == {c \in Conns(p) : ~c.closing}
Open == UNION {Conns(p) : p \in Peer}
Unused == Connections \ ({c.id : c \in Open} \cup {h.id : h \in handlers})

-------------------------------------------------------------------------------
Init ==
    /\ role \in {"peer", "relay"}
    /\ known \in Networks
    /\ up = known
    /\ conns = [p \in Peer |-> <<>>]
    /\ numRelayConnections = 0
    /\ handlers = {}
    /\ chatKnown = {}
    /\ streams = [p \in Peer |-> NoStream]
    /\ checked = {}
    /\ checks = [p \in Peer |-> Idle]
    /\ redials = 1
    /\ dialled = [p \in Peer |-> {}]
    /\ faults = 0

(***************************************************************************)
(* peer-heartbeat-checker.ts                                                *)
(***************************************************************************)
\* a check that an earlier interval of p left in flight acts on the new one as well,
\* and stands for the check that starts
Start(p) ==
    IF p \in checked THEN UNCHANGED <<checked, checks>>
    ELSE /\ checked' = checked \cup {p}
         /\ checks' = IF checks[p] = Idle THEN [checks EXCEPT ![p] = 0] ELSE checks

AllClosing(p) == [i \in DOMAIN conns[p] |-> [conns[p][i] EXCEPT !.closing = TRUE]]
HangUp(p) == conns' = [conns EXCEPT ![p] = AllClosing(p)]

\* mutant: the interval is cleared, the connections stay
OnlyStop(p) == checked' = checked \ {p} /\ UNCHANGED conns

\* handlePingDisconnect, and handleDisconnect of both kinds of nodes
PingDisconnect(p) ==
    IF p \in checked THEN checked' = checked \ {p} /\ HangUp(p)
    ELSE UNCHANGED <<checked, conns>>

\* the interval of p fires
PingTick(p) ==
    /\ p \in checked
    /\ checks[p] = Idle
    /\ checks' = [checks EXCEPT ![p] = 0]
    /\ UNCHANGED <<role, known, up, conns, numRelayConnections, handlers, chatKnown,
                   streams, checked, redials, dialled, faults>>

PingAnswered(p) ==
    /\ checks[p] # Idle
    /\ Connected(p) /\ p \in up
    /\ checks' = [checks EXCEPT ![p] = Idle]
    /\ UNCHANGED <<role, known, up, conns, numRelayConnections, handlers, chatKnown,
                   streams, checked, redials, dialled, faults>>

\* no pong, on a connection that is being closed or to a peer that is down
PingFailed(p) ==
    /\ checks[p] # Idle
    /\ \/ p \notin up
       \/ Connected(p) /\ Head(conns[p]).closing
    /\ IF checks[p] + 1 < PingRetries
       THEN /\ checks' = [checks EXCEPT ![p] = @ + 1]
            /\ UNCHANGED <<checked, conns>>
       ELSE /\ checks' = [checks EXCEPT ![p] = Idle]
            /\ PingDisconnect(p)
    /\ UNCHANGED <<role, known, up, numRelayConnections, handlers, chatKnown,
                   streams, redials, dialled, faults>>

\* MUXER_CLOSED_ERR: close the first of several connections, and try again
MuxerClosed(p) ==
    /\ checks[p] # Idle
    /\ Len(conns[p]) > 1
    /\ p \notin up \/ Head(conns[p]).closing
    /\ conns' = [conns EXCEPT ![p][1].closing = TRUE]
    /\ UNCHANGED <<role, known, up, numRelayConnections, handlers, chatKnown,
                   streams, checked, checks, redials, dialled, faults>>

-------------------------------------------------------------------------------
(***************************************************************************)
(* A new connection, and _handleConnect until its first await.              *)
(***************************************************************************)
\* this side keeps a single connection and opens the chat stream
Manages(p, address) == isRelayPeerMultiaddr(address) \/ p \in Larger

\* mutant: the count before this connection
OverLimitBefore(address, count) ==
    numRelayConnections > MaxRelayConnections /\ ~isPrimaryRelay(address)
OverLimit(address, count) == count > MaxRelayConnections /\ ~isPrimaryRelay(address)

Handler(p, id, at, others, starts) ==
    [peer |-> p, id |-> id, at |-> at, others |-> others, starts |-> starts]

\* mutant: the connections that p has are kept
KeepExisting(p, new) ==
    /\ conns' = [conns EXCEPT ![p] = Append(@, new)]
    /\ handlers' = handlers \cup {Handler(p, new.id, "others", {}, TRUE)}

\* closes the connections that p already has, in favour of the new one
CloseExisting(p, new) ==
    /\ conns' = [conns EXCEPT ![p] = Append(AllClosing(p), new)]
    /\ handlers' = handlers
           \cup {Handler(p, new.id, "others", {c.id : c \in Conns(p)}, TRUE)}

CloseNew(p, new) ==
    /\ conns' = [conns EXCEPT ![p] = Append(@, [new EXCEPT !.closing = TRUE])]
    /\ UNCHANGED <<handlers, checked, checks>>

\* a relay node, or a peer that leaves the connections to the other side
RelayConnects(p, new) ==
    /\ conns' = [conns EXCEPT ![p] = Append(@, new)]
    /\ Start(p)

NewConnection(p, address) ==
    LET new == [id |-> CHOOSE id \in Unused : TRUE, address |-> address,
                chat |-> FALSE, closing |-> FALSE]
        isRelay == isRelayPeerMultiaddr(address)
        count == IF isRelay THEN numRelayConnections + 1 ELSE numRelayConnections
    IN  /\ Unused # {}
        /\ IF role = "relay" \/ (~Manages(p, address))
           THEN /\ RelayConnects(p, new)
                /\ UNCHANGED <<numRelayConnections, handlers>>
           ELSE /\ numRelayConnections' = count
                /\ \/ isRelay /\ OverLimit(address, count) /\ CloseNew(p, new)
                   \/ /\ ~(isRelay /\ OverLimit(address, count))
                      /\ \/ Connected(p) /\ address = "circuit" /\ CloseNew(p, new)
                         \/ /\ Connected(p) /\ address # "circuit"
                            /\ CloseExisting(p, new)
                            /\ UNCHANGED <<checked, checks>>
                         \/ /\ ~Connected(p)
                            /\ conns' = [conns EXCEPT ![p] = <<new>>]
                            /\ handlers' = handlers
                                   \cup {Handler(p, new.id, "protocols", {}, TRUE)}
                            /\ UNCHANGED <<checked, checks>>

\* a second connection to a relay counts for good: bound how far the count goes
Dial(p, address) ==
    /\ p \in up
    /\ p \in Relay /\ Connected(p) => numRelayConnections <= MaxRelayConnections + 1
    /\ NewConnection(p, address)

(***************************************************************************)
(* The rest of _handleConnect                                               *)
(***************************************************************************)
OthersClosed(h) ==
    /\ h.at = "others"
    /\ \A c \in Conns(h.peer) : c.id \notin h.others
    /\ handlers' = (handlers \ {h}) \cup {[h EXCEPT !.at = "protocols", !.others = {}]}
    /\ UNCHANGED <<role, known, up, conns, numRelayConnections, chatKnown, streams,
                   checked, checks, redials, dialled, faults>>

\* protoBook.get has returned
ProtocolsRead(h) ==
    /\ h.at = "protocols"
    /\ IF h.peer \in chatKnown
       THEN /\ handlers' = (handlers \ {h}) \cup {[h EXCEPT !.at = "stream"]}
            /\ UNCHANGED <<checked, checks>>
       ELSE handlers' = handlers \ {h} /\ Start(h.peer)
    /\ UNCHANGED <<role, known, up, conns, numRelayConnections, chatKnown, streams,
                   redials, dialled, faults>>

\* _handleStream, for a stream on connection i of the list
HandleStream(p, i) ==
    /\ conns' = [conns EXCEPT ![p][i].chat = TRUE]
    /\ streams' = [streams EXCEPT ![p] = conns[p][i].id]

\* _createProtocolStream has opened its stream, or failed
StreamCreated(h) ==
    /\ h.at = "stream"
    /\ \/ \E i \in DOMAIN conns[h.peer] :
             /\ conns[h.peer][i].id = h.id /\ ~conns[h.peer][i].closing
             /\ h.peer \in up
             /\ HandleStream(h.peer, i)
       \/ UNCHANGED <<conns, streams>>
    /\ handlers' = handlers \ {h}
    /\ IF h.starts THEN Start(h.peer) ELSE UNCHANGED <<checked, checks>>
    /\ UNCHANGED <<role, known, up, numRelayConnections, chatKnown, redials, dialled,
                   faults>>

\* change:protocols: the peer store learns that p handles the chat protocol
ChangeProtocols(p) ==
    /\ p \in Chat \ chatKnown /\ p \in up
    /\ Connected(p)
    /\ chatKnown' = chatKnown \cup {p}
    /\ handlers' = IF role = "peer" /\ p \in Larger /\ ~Head(conns[p]).chat
                   THEN handlers \cup {Handler(p, Head(conns[p]).id, "stream", {}, FALSE)}
                   ELSE handlers
    /\ UNCHANGED <<role, known, up, conns, numRelayConnections, streams, checked,
                   checks, redials, dialled, faults>>

\* p opens the stream, the one with the smaller id
RemoteStream(p) ==
    /\ role = "peer" /\ p \in Chat \ Larger /\ p \in up
    /\ \E i \in DOMAIN conns[p] : ~conns[p][i].closing /\ HandleStream(p, i)
    /\ UNCHANGED <<role, known, up, numRelayConnections, handlers, chatKnown, checked,
                   checks, redials, dialled, faults>>

-------------------------------------------------------------------------------
(***************************************************************************)
(* _handleDisconnect: the last connection of a peer has closed.             *)
(***************************************************************************)
\* mutant: every disconnect counts
UncountAny(address) == numRelayConnections - 1

Uncount(address) ==
    IF isRelayPeerMultiaddr(address) THEN numRelayConnections - 1 ELSE numRelayConnections

\* mutant: compares the address of the connection with that of the relay
RedialAddress(p, address) ==
    /\ numRelayConnections' = IF role = "peer" THEN Uncount(address) ELSE numRelayConnections
    /\ checked' = checked \ {p}
    /\ redials' = IF isPrimaryRelay(address)
                  THEN Min({redials + 1, MaxRedials}) ELSE redials

\* a relay node dials the peers of its configuration again
RelayRedials(address) == role = "relay" /\ isPrimaryRelay(address)

HandleDisconnect(p, address) ==
    /\ numRelayConnections' = IF role = "peer" THEN Uncount(address) ELSE numRelayConnections
    /\ checked' = checked \ {p}
    /\ redials' = IF \/ role = "peer" /\ p = Primary
                     \/ RelayRedials(address)
                  THEN Min({redials + 1, MaxRedials}) ELSE redials

Closed(p, i) ==
    /\ conns' = [conns EXCEPT ![p] = RemoveAt(@, i)]
    /\ IF Len(conns[p]) = 1 THEN HandleDisconnect(p, conns[p][i].address)
       ELSE UNCHANGED <<numRelayConnections, checked, redials>>
    /\ UNCHANGED <<role, known, up, handlers, chatKnown, streams, checks, dialled>>

\* a close of this side is done
CloseDone(p) ==
    \E i \in DOMAIN conns[p] :
        conns[p][i].closing /\ Closed(p, i) /\ faults' = faults

\* the other side has closed the connection, or the transport failed
ConnectionLost(p) ==
    /\ faults < MaxFaults
    /\ \E i \in DOMAIN conns[p] : Closed(p, i)
    /\ faults' = faults + 1

(***************************************************************************)
(* Dials                                                                    *)
(***************************************************************************)
\* a peer listens before it dials again; a loop ends with the connection it
\* gets, be it one that exists
DialRelay ==
    /\ redials > 0
    /\ \/ Connected(Primary) /\ UNCHANGED <<conns, numRelayConnections, handlers, checked, checks>>
       \/ ~Connected(Primary) /\ Dial(Primary, "primary")
    /\ redials' = redials - 1
    /\ UNCHANGED <<role, known, up, chatKnown, streams, dialled, faults>>

\* a relay node stops after maxDialRetry dials that failed
StopDialRetry ==
    /\ role = "relay" /\ redials > 0 /\ Primary \notin up
    /\ redials' = redials - 1
    /\ UNCHANGED <<role, known, up, conns, numRelayConnections, handlers, chatKnown,
                   streams, checked, checks, dialled, faults>>

HandleDiscovery(p) ==
    /\ role = "peer"
    /\ p \in known \ Denied /\ dialled[p] = {}
    /\ ~Connected(p)
    /\ ~(p \in Relay /\ numRelayConnections >= MaxRelayConnections)
    /\ dialled' = [dialled EXCEPT ![p] = Addresses(p)]
    /\ UNCHANGED <<role, known, up, conns, numRelayConnections, handlers, chatKnown,
                   streams, checked, checks, redials, faults>>

\* dials all addresses of p in parallel: any of them may become a connection
ConnectPeer(p) ==
    /\ \/ \E address \in dialled[p] :
             /\ Dial(p, address)
             /\ dialled' = [dialled EXCEPT ![p] = @ \ {address}]
       \/ /\ dialled[p] # {}
          /\ dialled' = [dialled EXCEPT ![p] = {}]
          /\ UNCHANGED <<conns, numRelayConnections, handlers, checked, checks>>
    /\ UNCHANGED <<role, known, up, chatKnown, streams, redials, faults>>

\* p dials this node; relay nodes only dial the relay nodes of their configuration
Incoming(p) ==
    /\ p \in known
    /\ p \in Relay => role = "relay"
    /\ \E address \in Addresses(p) \ {"primary"} : Dial(p, address)
    /\ UNCHANGED <<role, known, up, chatKnown, streams, redials, dialled, faults>>

\* a ping of a peer that has no connection dials it
PingDials(p) ==
    /\ checks[p] # Idle /\ ~Connected(p)
    /\ \E address \in Addresses(p) : Dial(p, address)
    /\ UNCHANGED <<role, known, up, chatKnown, streams, redials, dialled, faults>>

\* the peer stops answering, without closing its connections, and comes back
PeerDown(p) ==
    /\ p \in up /\ faults < MaxFaults
    /\ up' = up \ {p}
    /\ faults' = faults + 1
    /\ UNCHANGED <<role, known, conns, numRelayConnections, handlers, chatKnown,
                   streams, checked, checks, redials, dialled>>

PeerUp(p) ==
    /\ p \in known \ up
    /\ up' = up \cup {p}
    /\ UNCHANGED <<role, known, conns, numRelayConnections, handlers, chatKnown,
                   streams, checked, checks, redials, dialled, faults>>

-------------------------------------------------------------------------------
Ping(p) == PingAnswered(p) \/ PingFailed(p)

Handle ==
    \E h \in handlers : OthersClosed(h) \/ ProtocolsRead(h) \/ StreamCreated(h)

Next ==
    \/ \E p \in Peer :
          \/ PingTick(p) \/ Ping(p) \/ PingDials(p) \/ MuxerClosed(p)
          \/ ChangeProtocols(p) \/ RemoteStream(p)
          \/ CloseDone(p) \/ ConnectionLost(p)
          \/ HandleDiscovery(p) \/ ConnectPeer(p) \/ Incoming(p)
          \/ PeerDown(p) \/ PeerUp(p)
    \/ Handle
    \/ DialRelay \/ StopDialRetry

Spec == Init /\ [][Next]_vars

(***************************************************************************)
(* Timers fire, and awaited calls return: a close, a read of the peer store,*)
(* a new stream, a dial.  A ping has a timeout: it ends even if connections *)
(* come and go meanwhile.  Nothing is assumed of other peers.               *)
(***************************************************************************)
Fairness ==
    /\ \A p \in Peer :
          /\ WF_vars(PingTick(p)) /\ SF_vars(Ping(p)) /\ WF_vars(PingDials(p))
          /\ WF_vars(CloseDone(p))
    /\ WF_vars(DialRelay)
    /\ WF_vars(\E h \in handlers : OthersClosed(h))
    /\ WF_vars(\E h \in handlers : ProtocolsRead(h) \/ StreamCreated(h))

FairSpec == Spec /\ Fairness

(***************************************************************************)
(* Properties                                                               *)
(***************************************************************************)
\* Types; the counter of relay connections never goes below zero, and only
\* addresses of peers on the network that are not denied are dialled.
TypeOK ==
    /\ role \in {"peer", "relay"}
    /\ known \in Networks /\ up \subseteq known
    /\ \A p \in Peer :
          /\ conns[p] \in Seq([id : Connections, chat : BOOLEAN, closing : BOOLEAN,
                               address : Addresses(p)])
          /\ checks[p] \in Idle..(PingRetries - 1)
    /\ numRelayConnections \in Nat
    /\ \A h \in handlers : h \in [peer : Peer, id : Connections, starts : BOOLEAN,
                                  at : {"others", "protocols", "stream"},
                                  others : SUBSET Connections]
    /\ chatKnown \subseteq Chat
    /\ streams \in [Peer -> Connections \cup {NoStream}]
    /\ checked \subseteq Peer
    /\ redials \in 0..MaxRedials
    /\ \A p \in Peer : dialled[p] \subseteq (IF p \in known \ Denied THEN Addresses(p) ELSE {})
    /\ faults \in 0..MaxFaults

\* _handleDiscovery, _handleConnect: of the relays other than the primary one, a
\* peer keeps at most maxRelayConnections connections, whatever dials overlap, and
\* the counter they are held against never goes below zero.
RelayLimitKept ==
    /\ TypeOK
    /\ role = "peer" =>
           Cardinality({c \in UNION {Settled(p) : p \in Peer} :
               isRelayPeerMultiaddr(c.address) /\ ~isPrimaryRelay(c.address)})
                   <= MaxRelayConnections

\* broadcastMessage, _handleConnect: with a peer whose stream this side opens, the
\* stream that messages are pushed to is on a connection that is kept, if any is.
BroadcastReaches ==
    role = "peer" =>
        \A p \in Chat \cap Larger :
            \A c \in Settled(p) : c.chat => streams[p] = c.id

\* PeerHearbeatChecker: a peer that stops answering for good is disconnected in the
\* end, and not dialled for ever, in whatever handler it went down.
DeadPeersDropped ==
    \A p \in Peer :
        <>[](p \notin up) => <>[](~Connected(p) /\ p \notin checked)

\* _handleDisconnect, _dialRelay: a peer gets back to the primary relay, if that stays
\* up, and to a connection that it does not close at once.
PrimaryRelayReturns ==
    role = "peer" /\ <>[](Primary \in up) => []<>(Settled(Primary) # {})
===============================================================================
