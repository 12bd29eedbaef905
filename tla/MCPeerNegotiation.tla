------------------------- MODULE MCPeerNegotiation -------------------------
(* Instances of PeerNegotiation for TLC. *)
EXTENDS PeerNegotiation
=============================================================================
