--------------------------- MODULE PriorityQueue ---------------------------
(***************************************************************************)
(* What the users of data/heap.h rely on: a multiset of items, of which    *)
(* heap_pop returns one that no other precedes.                            *)
(***************************************************************************)
EXTENDS Naturals

CONSTANTS Item, Less(_, _)

VARIABLES
    bag,   \* how often each item is in the queue
    out    \* what the last heap_pop returned; the constant Nothing at first

CONSTANT Nothing

Init ==
    /\ bag = [x \in Item |-> 0]
    /\ out = Nothing

Push(x) ==
    /\ bag' = [bag EXCEPT ![x] = @ + 1]
    /\ UNCHANGED out

Pop(x) ==
    /\ bag[x] > 0
    /\ \A y \in Item : bag[y] > 0 => ~Less(y, x)
    /\ bag' = [bag EXCEPT ![x] = @ - 1]
    /\ out' = x

Next == \E x \in Item : Push(x) \/ Pop(x)

Spec == Init /\ [][Next]_<<bag, out>>
=============================================================================
