-------------------------- MODULE MCPeerInterlock --------------------------
EXTENDS PeerInterlock

\* One quick retransmission after a change, then heartbeats.
MCBurst == <<1>>
=============================================================================
