CONSTANTS
    primary = primary
    relayA = relayA
    relayB = relayB
    chatA = chatA
    chatB = chatB
    NoStream = NoStream
    Peer = {primary, relayA, relayB, chatA, chatB}
    Relay = {primary, relayA, relayB}
    Primary = primary
    Chat = {chatA, chatB}
    Larger = {chatA, relayA}
    Denied = {}
    Networks <- MCNetworks
    MaxRelayConnections = 1
    PingRetries = 2
    MaxConnections = 2
    MaxRedials = 2
    MaxFaults = 1
SPECIFICATION FairSpec
INVARIANTS RelayLimitKept BroadcastReaches
CHECK_DEADLOCK FALSE
PROPERTIES DeadPeersDropped PrimaryRelayReturns
