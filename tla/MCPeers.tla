-------------------------------- MODULE MCPeers --------------------------------
(***************************************************************************)
(* An instance of Peers for TLC.                                            *)
(***************************************************************************)
EXTENDS Peers

CONSTANTS primary, relayA, relayB, chatA, chatB

\* the primary relay next to another one, two relays while the primary is away, and
\* a peer on either side of the order of peer ids
MCNetworks == {{primary, relayA}, {relayA, relayB}, {chatA}, {chatB}}
===============================================================================
