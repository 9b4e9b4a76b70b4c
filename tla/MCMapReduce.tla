----------------------------- MODULE MCMapReduce -----------------------------
(* MapReduce for TLC. *)
EXTENDS MapReduce, TLC

Symmetry == Permutations(Worker)

=============================================================================
