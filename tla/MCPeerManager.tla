--------------------------- MODULE MCPeerManager ---------------------------
(***************************************************************************)
(* PeerManager with two peers.                                              *)
(***************************************************************************)
EXTENDS PeerManager

CONSTANTS p1, p2
=============================================================================
