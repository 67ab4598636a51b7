------------------------------ MODULE MCSched ------------------------------
(* Sched for TLC. *)
EXTENDS Sched, TLC

\* Workers that do not differ in mortality are interchangeable.
Symmetry == Permutations(Workers \ Immortal)
=============================================================================
