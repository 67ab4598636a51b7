------------------------------ MODULE MCMutex ------------------------------
(* Mutex for TLC. *)
EXTENDS Mutex

\* Workers that do not differ in mortality are interchangeable.
Symmetry == Permutations(Workers \ Immortal)
=============================================================================
