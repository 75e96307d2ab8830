------------------------- MODULE MCMinerAppRestart -------------------------
(***************************************************************************)
(* MinerAppRestart with the chains of MCChains.                            *)
(***************************************************************************)
EXTENDS MinerAppRestart, MCChains
=============================================================================
