----------------------------- MODULE MCMinHeap -----------------------------
(***************************************************************************)
(* MinHeap for TLC, with the order of the run queue.  An item is a task    *)
(* and its vtime is half of it, rounded up, so that some tasks tie.        *)
(***************************************************************************)
EXTENDS MinHeap, VTime

CONSTANT MaxItem

MCItem == 0..MaxItem

MCLess(a, b) == compare_tasks((a + 1) \div 2, (b + 1) \div 2) < 0
=============================================================================
