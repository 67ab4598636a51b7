--------------------------- MODULE MCTaskContext ---------------------------
(* TaskContext for TLC. *)
EXTENDS TaskContext, TLC

Symmetry == Permutations(Workers)
=============================================================================
