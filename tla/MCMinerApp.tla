----------------------------- MODULE MCMinerApp -----------------------------
(***************************************************************************)
(* MinerApp with the chains of MCChains and two payments.                  *)
(***************************************************************************)
EXTENDS MinerApp, MCChains

CONSTANTS t1, t2
=============================================================================
