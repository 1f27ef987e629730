------------------------------ MODULE MCMiner -------------------------------
(* Model-checking instance of Miner. *)
EXTENDS Miner
=============================================================================
