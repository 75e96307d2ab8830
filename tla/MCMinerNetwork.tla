--------------------------- MODULE MCMinerNetwork ---------------------------
(***************************************************************************)
(* MinerNetwork with the chains of MCChains.                               *)
(***************************************************************************)
EXTENDS MinerNetwork, MCChains
=============================================================================
