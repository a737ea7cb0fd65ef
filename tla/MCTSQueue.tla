----------------------------- MODULE MCTSQueue ------------------------------
(* A small instance of TSQueue for TLC. *)
EXTENDS TSQueue, TLC

Symmetry == Permutations(Threads)
=============================================================================
