------------------------------ MODULE MinHeap ------------------------------
(***************************************************************************)
(* The binary heap of src/src/data/heap.c, one step per round of its       *)
(* loops.  Indices start at 0, yet the children of i are 2i and 2i+1: the  *)
(* root is its own left child, and 1 is its only other one.                *)
(***************************************************************************)
EXTENDS Integers, FiniteSets

CONSTANTS
    Item,          \* what the heap holds: pointers to tasks
    Less(_, _),    \* h->cmp(a, b) < 0
    Nothing,       \* an array element that was never written
    MaxSize        \* bound on the number of items

\* The comparison is a strict weak order.
ASSUME LessAssumption ==
    /\ \A a \in Item : ~Less(a, a)
    /\ \A a, b, c \in Item : Less(a, b) /\ Less(b, c) => Less(a, c)
    /\ \A a, b, c \in Item : ~Less(a, b) /\ ~Less(b, c) => ~Less(a, c)

ASSUME ItemAssumption == Nothing \notin Item /\ MaxSize \in Nat

VARIABLES
    data,       \* h->data, of length capacity
    size,       \* h->size
    capacity,   \* h->capacity
    pc,         \* "idle", or the loop that runs: "up" or "down"
    item,       \* the local variable of sift_up and sift_down
    out         \* the last value heap_pop returned

heapVars == <<data, size, capacity, pc, item, out>>

\* make_heap
HeapInit ==
    /\ data = [i \in 0..0 |-> Nothing]
    /\ size = 0
    /\ capacity = 1
    /\ pc = "idle"
    /\ item = 0
    /\ out = Nothing

Swap(d, i, j) == [d EXCEPT ![i] = d[j], ![j] = d[i]]

\* Mutation of Grown: the array has room for size items, not for one more.
GrownLate == IF size > capacity THEN 2 * capacity ELSE capacity

\* The capacity heap_push needs.
Grown == IF size + 1 > capacity THEN 2 * capacity ELSE capacity

\* realloc: the old elements, and memory that was never written.
Realloc(n) == [i \in 0..(n - 1) |-> IF i < capacity THEN data[i] ELSE Nothing]

HeapPush(x) ==
    /\ pc = "idle"
    /\ size < MaxSize
    /\ capacity' = Grown
    /\ data' = [Realloc(Grown) EXCEPT ![size] = x]
    /\ size' = size + 1
    /\ item' = size
    /\ pc' = "up"
    /\ UNCHANGED out

\* Mutation of Parent: the parent in a heap with children 2i+1 and 2i+2.
ParentFromOne(i) == IF i = 0 THEN 0 ELSE (i - 1) \div 2

Parent(i) == i \div 2

SiftUp ==
    /\ pc = "up"
    /\ IF Less(data[item], data[Parent(item)])
         THEN /\ data' = Swap(data, item, Parent(item))
              /\ item' = Parent(item)
              /\ UNCHANGED pc
         ELSE /\ pc' = "idle"
              /\ UNCHANGED <<data, item>>
    /\ UNCHANGED <<size, capacity, out>>

\* Mutation of HeapPop: the last item is not moved to the root.
HeapPopKeepRoot ==
    /\ pc = "idle"
    /\ size > 0
    /\ out' = data[0]
    /\ size' = size - 1
    /\ item' = 0
    /\ pc' = "down"
    /\ UNCHANGED <<data, capacity>>

\* heap_pop trusts its caller that the heap is not empty.
HeapPop ==
    /\ pc = "idle"
    /\ size > 0
    /\ out' = data[0]
    /\ data' = [data EXCEPT ![0] = data[size - 1]]
    /\ size' = size - 1
    /\ item' = 0
    /\ pc' = "down"
    /\ UNCHANGED capacity

\* Mutation of LeastChild: the right child is never looked at.
LeastChildLeft == 2 * item

\* The child that sift_down compares with: the right one only if it is less.
LeastChild ==
    IF 2 * item + 1 < size /\ Less(data[2 * item + 1], data[2 * item])
      THEN 2 * item + 1
      ELSE 2 * item

\* Mutation of SiftDown: the loop goes on while the child is not greater.
SiftDownEqual ==
    /\ pc = "down"
    /\ IF 2 * item < size /\ ~Less(data[item], data[LeastChild])
         THEN /\ data' = Swap(data, item, LeastChild)
              /\ item' = LeastChild
              /\ UNCHANGED pc
         ELSE /\ pc' = "idle"
              /\ UNCHANGED <<data, item>>
    /\ UNCHANGED <<size, capacity, out>>

SiftDown ==
    /\ pc = "down"
    /\ IF 2 * item < size /\ Less(data[LeastChild], data[item])
         THEN /\ data' = Swap(data, item, LeastChild)
              /\ item' = LeastChild
              /\ UNCHANGED pc
         ELSE /\ pc' = "idle"
              /\ UNCHANGED <<data, item>>
    /\ UNCHANGED <<size, capacity, out>>

HeapNext ==
    \/ \E x \in Item : HeapPush(x)
    \/ HeapPop
    \/ SiftUp
    \/ SiftDown

\* The loops run: nothing can stop the code of a call half-way.
HeapSpec ==
    /\ HeapInit
    /\ [][HeapNext]_heapVars
    /\ WF_heapVars(SiftUp)
    /\ WF_heapVars(SiftDown)

-----------------------------------------------------------------------------
(***************************************************************************)
(* Properties                                                              *)
(***************************************************************************)

\* The heap's variables have their types: the array has capacity elements, and
\* the first size of them were written.
HeapTypeOK ==
    /\ capacity \in Nat \ {0}
    /\ size \in 0..capacity
    /\ data \in [0..(capacity - 1) -> Item \cup {Nothing}]
    /\ \A i \in 0..(size - 1) : data[i] \in Item
    /\ pc \in {"idle", "up", "down"}
    /\ item \in 0..(capacity - 1)
    /\ pc = "up" => item < size
    /\ out \in Item \cup {Nothing}

\* Item i is not less than its parent.
Ordered(i) == ~Less(data[i], data[Parent(i)])

\* Between calls no item is less than its parent; while sift_up runs this
\* fails for item only, while sift_down runs for the children of item only,
\* and then they are not less than the parent of item either.
HeapOrder ==
    /\ pc = "idle" => \A i \in 1..(size - 1) : Ordered(i)
    /\ pc = "up" => \A i \in 1..(size - 1) :
          /\ i # item => Ordered(i)
          /\ Parent(i) = item => ~Less(data[i], data[Parent(item)])
    /\ pc = "down" => \A i \in 1..(size - 1) :
          /\ Parent(i) # item => Ordered(i)
          /\ Parent(i) = item /\ item # 0 => ~Less(data[i], data[Parent(item)])

\* The multiset of the items in the heap.
Contents == [x \in Item |-> Cardinality({i \in 0..(size - 1) : data[i] = x})]

PQ == INSTANCE PriorityQueue WITH bag <- Contents

\* The heap is a priority queue: heap_push adds its item, heap_pop takes a
\* least one away, and sifting neither loses nor invents one.
HeapIsPriorityQueue == PQ!Spec

\* sift_up and sift_down end, although the root is its own child and parent.
SiftingEnds == (pc # "idle") ~> (pc = "idle")
=============================================================================
