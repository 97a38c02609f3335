--------------------------- MODULE MCStratumMining ---------------------------
(* StratumMining for TLC: miner threads and job ids are interchangeable. *)
EXTENDS StratumMining, TLC
Symmetry == Permutations(Miner) \cup Permutations(JobId)
=============================================================================
