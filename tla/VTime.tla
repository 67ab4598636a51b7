------------------------------- MODULE VTime -------------------------------
(***************************************************************************)
(* compare_tasks of src/src/sched.c: the order of the run queue.           *)
(***************************************************************************)
EXTENDS Integers

CONSTANT IntMod    \* number of values of an int: 2^32, scaled

ASSUME IntModAssumption == IntMod \in Nat /\ IntMod % 2 = 0 /\ IntMod > 0

\* The conversion of the uint64_t difference to the int that is returned.
ToInt(d) ==
    LET r == d % IntMod IN IF r >= IntMod \div 2 THEN r - IntMod ELSE r

compare_tasks(a, b) == ToInt(a - b)
=============================================================================
