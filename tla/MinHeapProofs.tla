--------------------------- MODULE MinHeapProofs ---------------------------
(***************************************************************************)
(* Proofs about MinHeap, for every set of items, every strict weak order   *)
(* and every size.                                                         *)
(***************************************************************************)
EXTENDS MinHeap, FiniteSetTheorems, TLAPS

\* Each step keeps the types: every access is inside the array and every item
\* the heap looks at was written.
LEMMA HeapTypeStep == HeapTypeOK /\ [HeapNext]_heapVars => HeapTypeOK'
<1> SUFFICES ASSUME HeapTypeOK, [HeapNext]_heapVars PROVE HeapTypeOK'
  OBVIOUS
<1> USE DEF HeapTypeOK
<1>1. ASSUME NEW x \in Item, HeapPush(x) PROVE HeapTypeOK'
  <2>1. Grown \in Nat \ {0} /\ capacity <= Grown /\ size < Grown
    BY DEF Grown
  <2>2. Realloc(Grown) \in [0..(Grown - 1) -> Item \cup {Nothing}]
    BY <2>1 DEF Realloc
  <2>3. \A i \in 0..(size - 1) : Realloc(Grown)[i] = data[i]
    BY <2>1 DEF Realloc
  <2> HIDE DEF Grown, Realloc
  <2>4. data' \in [0..(capacity' - 1) -> Item \cup {Nothing}]
    BY <1>1, <2>1, <2>2 DEF HeapPush
  <2>5. \A i \in 0..(size' - 1) : data'[i] \in Item
    BY <1>1, <2>1, <2>2, <2>3 DEF HeapPush
  <2> QED
    BY <1>1, <2>1, <2>4, <2>5 DEF HeapPush
<1>2. CASE HeapPop
  BY <1>2 DEF HeapPop
<1>3. CASE SiftUp
  <2>1. Parent(item) \in 0..item
    BY DEF Parent
  <2> QED
    BY <1>3, <2>1 DEF SiftUp, Swap
<1>4. CASE SiftDown
  <2>1. 2 * item < size => LeastChild \in 0..(size - 1)
    BY DEF LeastChild
  <2> QED
    BY <1>4, <2>1 DEF SiftDown, Swap
<1>5. CASE UNCHANGED heapVars
  BY <1>5 DEF heapVars
<1> QED
  BY <1>1, <1>2, <1>3, <1>4, <1>5 DEF HeapNext

\* The heap never leaves its array and never reads memory it has not written.
THEOREM HeapTypeCorrect == HeapSpec => []HeapTypeOK
<1>1. HeapInit => HeapTypeOK
  BY DEF HeapInit, HeapTypeOK
<1> QED
  BY <1>1, HeapTypeStep, PTL DEF HeapSpec

-----------------------------------------------------------------------------
(***************************************************************************)
(* The heap order.  HeapOrder is inductive together with the types.        *)
(***************************************************************************)

HeapInv == HeapTypeOK /\ HeapOrder

\* An index and its parent: the tree is numbered so that parents come first.
LEMMA ParentBelow ==
    \A i \in Nat : /\ Parent(i) \in Nat
                   /\ i > 0 => Parent(i) < i
                   /\ i = 0 => Parent(i) = 0
BY DEF Parent

\* The children of j are 2j and 2j+1.
LEMMA ParentChild ==
    \A i, j \in Nat : Parent(i) = j <=> (i = 2 * j \/ i = 2 * j + 1)
BY DEF Parent

\* heap_push puts its item behind the others, where it has no children.
LEMMA PushOrder ==
    ASSUME HeapInv, NEW x \in Item, HeapPush(x)
    PROVE  HeapOrder'
<1> USE DEF HeapInv, HeapTypeOK
<1>1. Grown \in Nat \ {0} /\ capacity <= Grown /\ size < Grown
  BY DEF Grown
<1>2. \A i \in 0..(size - 1) : data'[i] = data[i]
  BY <1>1 DEF HeapPush, Realloc
<1>3. \A i \in 1..(size - 1) : Parent(i) \in 0..(size - 1)
  BY ParentBelow
<1>6. \A i \in 1..(size - 1) : Ordered(i)
  BY DEF HeapPush, HeapOrder
<1>4. \A i \in 1..(size - 1) : ~Less(data'[i], data'[Parent(i)])
  BY <1>2, <1>3, <1>6 DEF Ordered
<1>5. \A i \in 1..size : Parent(i) # size
  BY ParentBelow
<1> QED
  BY <1>4, <1>5 DEF HeapPush, HeapOrder, Ordered

\* heap_pop breaks the order below the root only.
LEMMA PopOrder ==
    ASSUME HeapInv, HeapPop
    PROVE  HeapOrder'
<1> USE DEF HeapInv, HeapTypeOK
<1>1. \A i \in 1..(size - 1) : Ordered(i)
  BY DEF HeapPop, HeapOrder
<1>3. \A i \in 1..(size - 2) : Parent(i) \in 0..(size - 2)
  BY ParentBelow
<1>2. \A i \in 1..(size - 1) : data'[i] = data[i]
  BY DEF HeapPop
<1> QED
  BY <1>1, <1>2, <1>3 DEF HeapPop, HeapOrder, Ordered

\* A round of sift_up.
LEMMA SiftUpOrder ==
    ASSUME HeapInv, SiftUp
    PROVE  HeapOrder'
<1> USE DEF HeapInv, HeapTypeOK
<1> DEFINE p == Parent(item)
<1>1. item \in 0..(size - 1) /\ p \in 0..item /\ (item > 0 => p < item)
  BY ParentBelow DEF SiftUp
<1>2. CASE Less(data[item], data[p])
  <2>1. item > 0 /\ p < item
    BY <1>1, <1>2, ParentBelow, LessAssumption
  <2>2. \A i \in 0..(size - 1) :
          data'[i] = IF i = item THEN data[p]
                     ELSE IF i = p THEN data[item] ELSE data[i]
    BY <1>1, <1>2 DEF SiftUp, Swap
  <2>3. ASSUME NEW i \in 1..(size - 1), i # p
        PROVE  ~Less(data'[i], data'[Parent(i)])
    <3>1. Parent(i) \in 0..(size - 1) /\ Parent(i) < i
      BY ParentBelow
    <3>2. CASE i = item
      BY <1>1, <1>2, <2>1, <2>2, <3>2, LessAssumption
    <3>3. CASE i # item /\ Parent(i) = item
      BY <1>1, <2>1, <2>2, <2>3, <3>1, <3>3 DEF HeapOrder, SiftUp
    <3>4. CASE i # item /\ Parent(i) = p
      <4>1. ~Less(data[i], data[p])
        BY <3>4 DEF HeapOrder, Ordered, SiftUp
      <4> QED
        BY <1>1, <1>2, <2>1, <2>2, <2>3, <3>1, <3>4, <4>1, LessAssumption
    <3>5. CASE i # item /\ Parent(i) # item /\ Parent(i) # p
      BY <2>2, <2>3, <3>1, <3>5 DEF HeapOrder, Ordered, SiftUp
    <3> QED
      BY <3>2, <3>3, <3>4, <3>5
  <2>4. ASSUME NEW i \in 1..(size - 1), Parent(i) = p
        PROVE  ~Less(data'[i], data'[Parent(p)])
    <3>1. Parent(p) \in 0..(size - 1) /\ Parent(p) <= p /\ (p > 0 => Parent(p) < p)
      BY <1>1, ParentBelow
    <3>2. CASE p = 0
      BY <1>1, <1>2, <2>1, <2>2, <2>3, <2>4, <3>1, <3>2, LessAssumption,
         ParentBelow
    <3>3. CASE p > 0
      <4>1. ~Less(data[p], data[Parent(p)])
        BY <1>1, <2>1, <3>3 DEF HeapOrder, Ordered, SiftUp
      <4>2. i # p /\ (i # item => ~Less(data[i], data[p]))
        BY <2>4, <3>3, ParentBelow DEF HeapOrder, Ordered, SiftUp
      <4>3. data'[i] \in {data[p], data[i]} /\ data'[Parent(p)] = data[Parent(p)]
        BY <1>1, <2>1, <2>2, <3>1, <3>3, <4>2
      <4>4. i = item => data'[i] = data[p]
        BY <2>2
      <4> QED
        BY <1>1, <2>1, <2>2, <3>1, <4>1, <4>2, <4>3, <4>4, LessAssumption
    <3> QED
      BY <1>1, <3>2, <3>3
  <2> QED
    BY <1>2, <2>3, <2>4 DEF HeapOrder, Ordered, SiftUp
<1>3. CASE ~Less(data[item], data[p])
  BY <1>3 DEF HeapOrder, Ordered, SiftUp
<1> QED
  BY <1>2, <1>3

\* A round of sift_down.
LEMMA SiftDownOrder ==
    ASSUME HeapInv, SiftDown
    PROVE  HeapOrder'
<1> USE DEF HeapInv, HeapTypeOK
<1> DEFINE c == LeastChild
<1>1. ASSUME 2 * item < size
      PROVE  c \in 0..(size - 1) /\ c \in {2 * item, 2 * item + 1}
  BY <1>1 DEF LeastChild
<1>4. ASSUME 2 * item < size, NEW i \in 1..(size - 1), Parent(i) = item
      PROVE  ~Less(data[i], data[c])
  <2>1. i = 2 * item \/ i = 2 * item + 1
    BY <1>4, ParentChild
  <2>2. data[2 * item] \in Item /\ data[i] \in Item
    BY <1>4
  <2>3. Less(data[2 * item + 1], data[2 * item]) /\ 2 * item + 1 < size
          => ~Less(data[2 * item], data[2 * item + 1])
    BY <2>2, LessAssumption
  <2> QED
    BY <1>4, <2>1, <2>2, <2>3, LessAssumption DEF LeastChild
<1>2. CASE 2 * item < size /\ Less(data[c], data[item])
  <2>1. c \in 1..(size - 1) /\ Parent(c) = item /\ item < c
    <3> HIDE DEF c
    <3>1. c \in 0..(size - 1) /\ c \in {2 * item, 2 * item + 1}
      BY <1>1, <1>2
    <3>2. item \in 0..(size - 1)
      BY <1>2
    <3>3. c # item
      BY <1>2, <3>1, <3>2, LessAssumption
    <3> QED
      BY <3>1, <3>2, <3>3, ParentChild
  <2> HIDE DEF c
  <2>2. \A i \in 0..(size - 1) :
          data'[i] = IF i = item THEN data[c]
                     ELSE IF i = c THEN data[item] ELSE data[i]
    BY <1>2, <2>1 DEF SiftDown, Swap, c
  <2>3. ASSUME NEW i \in 1..(size - 1), Parent(i) # c
        PROVE  ~Less(data'[i], data'[Parent(i)])
    <3>1. Parent(i) \in 0..(size - 1) /\ Parent(i) < i
      BY ParentBelow
    <3>2. CASE i = c
      BY <1>2, <2>1, <2>2, <3>2, LessAssumption
    <3>3. CASE i # c /\ Parent(i) = item
      BY <1>2, <1>4, <2>1, <2>2, <3>1, <3>3
    <3>4. CASE i = item
      BY <2>1, <2>2, <3>1, <3>4 DEF HeapOrder, SiftDown
    <3>5. CASE i # c /\ i # item /\ Parent(i) # item
      BY <2>2, <2>3, <3>1, <3>5 DEF HeapOrder, Ordered, SiftDown
    <3> QED
      BY <3>2, <3>3, <3>4, <3>5
  <2>4. ASSUME NEW i \in 1..(size - 1), Parent(i) = c
        PROVE  ~Less(data'[i], data'[Parent(c)])
    <3>1. c < i
      BY <2>1, <2>4, ParentBelow
    <3>2. Parent(i) # item /\ Ordered(i)
      BY <2>1, <2>4 DEF HeapOrder, SiftDown
    <3> QED
      BY <2>1, <2>2, <2>4, <3>1, <3>2 DEF Ordered
  <2> QED
    BY <1>2, <2>3, <2>4 DEF HeapOrder, Ordered, SiftDown, c
<1>3. CASE ~(2 * item < size /\ Less(data[c], data[item]))
  <2>1. ASSUME NEW i \in 1..(size - 1) PROVE Ordered(i)
    <3>1. CASE Parent(i) # item
      BY <1>3, <3>1 DEF HeapOrder, SiftDown
    <3>2. CASE Parent(i) = item
      <4>1. 2 * item < size
        BY <3>2, ParentChild
      <4> QED
        BY <1>1, <1>3, <1>4, <3>2, <4>1, LessAssumption DEF Ordered
    <3> QED
      BY <3>1, <3>2
  <2> QED
    BY <1>3, <2>1 DEF HeapOrder, Ordered, SiftDown
<1> QED
  BY <1>2, <1>3

LEMMA HeapInvStep == HeapInv /\ [HeapNext]_heapVars => HeapInv'
<1> SUFFICES ASSUME HeapInv, [HeapNext]_heapVars PROVE HeapInv'
  OBVIOUS
<1>1. HeapTypeOK'
  BY HeapTypeStep DEF HeapInv
<1>2. HeapOrder'
  <2>1. CASE UNCHANGED heapVars
    BY <2>1 DEF heapVars, HeapInv, HeapOrder, Ordered
  <2> QED
    BY <2>1, PushOrder, PopOrder, SiftUpOrder, SiftDownOrder DEF HeapNext
<1> QED
  BY <1>1, <1>2 DEF HeapInv

LEMMA HeapInvariant == HeapSpec => []HeapInv
<1>1. HeapInit => HeapInv
  BY DEF HeapInit, HeapInv, HeapTypeOK, HeapOrder
<1> QED
  BY <1>1, HeapInvStep, PTL DEF HeapSpec

\* No item of the heap is less than its parent between two calls.
THEOREM HeapStaysOrdered == HeapSpec => []HeapOrder
<1>1. HeapInv => HeapOrder
  BY DEF HeapInv
<1> QED
  BY <1>1, HeapInvariant, PTL

-----------------------------------------------------------------------------
(***************************************************************************)
(* The root of an ordered heap is a least item: otherwise take the first   *)
(* item that is less than the root; its parent comes before it and is not  *)
(* less than the root, nor is the item less than its parent.               *)
(***************************************************************************)

LEMMA RootLeast ==
    ASSUME HeapInv, pc = "idle", size > 0
    PROVE  \A i \in 0..(size - 1) : ~Less(data[i], data[0])
<1> DEFINE Bad == {i \in 0..(size - 1) : Less(data[i], data[0])}
<1>1. SUFFICES ASSUME Bad # {} PROVE FALSE
  OBVIOUS
<1> USE DEF HeapInv, HeapTypeOK
<1>2. PICK m \in Bad : \A k \in Bad : ~(<<k, m>> \in OpToRel(<, Nat))
  <2>1. Bad \subseteq Nat
    OBVIOUS
  <2> HIDE DEF Bad
  <2> QED
    BY <1>1, <2>1, WFMin, NatLessThanWellFounded, Zenon
<1>3. m \in 0..(size - 1) /\ Less(data[m], data[0])
  OBVIOUS
<1>4. m # 0
  BY <1>3, LessAssumption
<1>5. Parent(m) \in 0..(m - 1)
  BY <1>3, <1>4, ParentBelow
<1>6. ~Less(data[Parent(m)], data[0])
  <2>1. <<Parent(m), m>> \in OpToRel(<, Nat)
    <3>1. Parent(m) \in Nat /\ m \in Nat /\ Parent(m) < m
      BY <1>3, <1>5
    <3> QED
      BY <3>1, Zenon DEF OpToRel
  <2>2. ~(Parent(m) \in Bad)
    BY <1>2, <2>1, Zenon
  <2> QED
    BY <1>3, <1>5, <2>2
<1>7. ~Less(data[m], data[Parent(m)])
  BY <1>3, <1>4 DEF HeapOrder, Ordered
<1> QED
  BY <1>3, <1>5, <1>6, <1>7, LessAssumption

-----------------------------------------------------------------------------
(***************************************************************************)
(* Refinement: the heap implements PriorityQueue.                          *)
(***************************************************************************)

\* The places of item x among the first n elements of an array.
Places(d, n, x) == {i \in 0..(n - 1) : d[i] = x}

LEMMA PlacesFinite ==
    ASSUME NEW d, NEW n \in Nat, NEW x
    PROVE  IsFiniteSet(Places(d, n, x)) /\ Cardinality(Places(d, n, x)) \in Nat
<1>1. IsFiniteSet(0..(n - 1))
  BY FS_Interval
<1>2. Places(d, n, x) \subseteq 0..(n - 1)
  BY DEF Places
<1> QED
  BY <1>1, <1>2, FS_Subset, FS_CardinalityType

\* Swapping two elements keeps the number of places of every item.
LEMMA SwapPlaces ==
    ASSUME NEW S, NEW c \in Nat, NEW d \in [0..(c - 1) -> S], NEW n \in 0..c,
           NEW i \in 0..(n - 1), NEW j \in 0..(n - 1), NEW x
    PROVE  Cardinality(Places(Swap(d, i, j), n, x)) = Cardinality(Places(d, n, x))
<1> DEFINE A == Places(d, n, x)
           B == Places(Swap(d, i, j), n, x)
           f == [k \in A |-> IF k = i THEN j ELSE IF k = j THEN i ELSE k]
<1>1. \A k \in 0..(n - 1) : Swap(d, i, j)[k] =
        IF k = j THEN d[i] ELSE IF k = i THEN d[j] ELSE d[k]
  BY DEF Swap
<1>2. f \in [A -> B]
  BY <1>1 DEF Places
<1>3. \A a, b \in A : f[a] = f[b] => a = b
  BY DEF Places
<1>4. \A b \in B : \E a \in A : f[a] = b
  <2> SUFFICES ASSUME NEW b \in B PROVE \E a \in A : f[a] = b
    OBVIOUS
  <2> DEFINE a == IF b = i THEN j ELSE IF b = j THEN i ELSE b
  <2>1. a \in A /\ f[a] = b
    BY <1>1 DEF Places
  <2> QED
    BY <2>1
<1> HIDE DEF A, B, f
<1>5. f \in Injection(A, B)
  BY <1>2, <1>3 DEF Injection, IsInjective
<1>6. f \in Surjection(A, B)
  BY <1>2, <1>4 DEF Surjection
<1>7. ExistsBijection(A, B)
  BY <1>5, <1>6 DEF ExistsBijection, Bijection
<1>8. IsFiniteSet(A)
  BY PlacesFinite DEF A
<1> QED
  BY <1>7, <1>8, FS_Bijection DEF A, B

LEMMA HeapSwapPlaces ==
    ASSUME HeapTypeOK, NEW i \in 0..(size - 1), NEW j \in 0..(size - 1), NEW x
    PROVE  Cardinality(Places(Swap(data, i, j), size, x)) =
           Cardinality(Places(data, size, x))
<1>1. capacity \in Nat /\ size \in 0..capacity
  BY DEF HeapTypeOK
<1>2. data \in [0..(capacity - 1) -> Item \cup {Nothing}]
  BY DEF HeapTypeOK
<1> QED
  BY <1>1, <1>2, SwapPlaces

\* sift_up and sift_down keep the contents.
LEMMA SiftKeepsContents ==
    ASSUME HeapTypeOK, SiftUp \/ SiftDown
    PROVE  Contents' = Contents
<1> USE DEF HeapTypeOK
<1>1. CASE data' = data
  BY <1>1 DEF SiftUp, SiftDown, Contents
<1>2. CASE data' # data
  <2>1. PICK i \in 0..(size - 1), j \in 0..(size - 1) : data' = Swap(data, i, j)
    <3>1. Parent(item) \in 0..item
      BY ParentBelow
    <3>2. 2 * item < size => LeastChild \in 0..(size - 1)
      BY DEF LeastChild
    <3> QED
      BY <1>2, <3>1, <3>2 DEF SiftUp, SiftDown
  <2>2. ASSUME NEW x \in Item
        PROVE  Cardinality(Places(data', size, x)) =
               Cardinality(Places(data, size, x))
    BY <2>1, HeapSwapPlaces
  <2>3. size' = size
    BY DEF SiftUp, SiftDown
  <2> QED
    BY <2>2, <2>3 DEF Contents, Places
<1> QED
  BY <1>1, <1>2

\* heap_push adds its item.
LEMMA PushAdds ==
    ASSUME HeapTypeOK, NEW x \in Item, HeapPush(x)
    PROVE  PQ!Push(x)
<1> USE DEF HeapTypeOK
<1>1. Grown \in Nat \ {0} /\ capacity <= Grown /\ size < Grown
  BY DEF Grown
<1>2. \A i \in 0..size : data'[i] = IF i = size THEN x ELSE data[i]
  BY <1>1 DEF HeapPush, Realloc
<1>3. \A y \in Item : Places(data', size', y) =
        IF y = x THEN Places(data, size, y) \cup {size} ELSE Places(data, size, y)
  BY <1>2 DEF Places, HeapPush
<1>4. size \notin Places(data, size, x)
  BY DEF Places
<1>5. Cardinality(Places(data, size, x) \cup {size}) =
        Cardinality(Places(data, size, x)) + 1
  <2>1. IsFiniteSet(Places(data, size, x))
    BY PlacesFinite
  <2> QED
    BY <1>4, <2>1, FS_AddElement
<1>6. Contents' = [y \in Item |-> IF y = x THEN Contents[y] + 1 ELSE Contents[y]]
  BY <1>3, <1>5 DEF Contents, Places
<1> QED
  BY <1>6 DEF PQ!Push, Contents, HeapPush

\* heap_pop takes the root away.  It is the swap of the first and the last
\* item, and then one item less.
LEMMA PopRemoves ==
    ASSUME HeapInv, HeapPop
    PROVE  PQ!Pop(data[0])
<1> USE DEF HeapInv, HeapTypeOK
<1> DEFINE n == size - 1
           d == Swap(data, 0, n)
<1>1. n \in 0..(size - 1) /\ 0 \in 0..(size - 1) /\ data[0] \in Item
  BY DEF HeapPop
<1>2. \A i \in 0..n : d[i] = IF i = n THEN data[0]
                             ELSE IF i = 0 THEN data[n] ELSE data[i]
  BY <1>1 DEF Swap
<1>3. \A y \in Item : Places(data', size', y) = Places(d, size, y) \ {n}
  BY <1>1, <1>2 DEF Places, HeapPop
<1>4. \A y \in Item : n \in Places(d, size, y) <=> y = data[0]
  BY <1>1, <1>2 DEF Places
<1>5. \A y \in Item : Cardinality(Places(d, size, y)) =
                        Cardinality(Places(data, size, y))
  BY <1>1, HeapSwapPlaces
<1> HIDE DEF d
<1>6. \A y \in Item : Cardinality(Places(data', size', y)) =
        IF y = data[0] THEN Cardinality(Places(data, size, y)) - 1
                       ELSE Cardinality(Places(data, size, y))
  BY <1>3, <1>4, <1>5, PlacesFinite, FS_RemoveElement
<1>7. \A y \in Item : Contents[y] = Cardinality(Places(data, size, y))
  BY DEF Contents, Places
<1>8. Contents' = [y \in Item |-> IF y = data[0] THEN Contents[y] - 1
                                                 ELSE Contents[y]]
  BY <1>6, <1>7 DEF Contents, Places
<1>9. \A y \in Item : Contents[y] > 0 => ~Less(y, data[0])
  <2> SUFFICES ASSUME NEW y \in Item, Contents[y] > 0 PROVE ~Less(y, data[0])
    OBVIOUS
  <2>1. Places(data, size, y) # {}
    <3>1. Cardinality(Places(data, size, y)) # 0
      BY <1>7
    <3> QED
      BY <3>1, FS_EmptySet
  <2>2. PICK i \in 0..(size - 1) : data[i] = y
    BY <2>1 DEF Places
  <2> QED
    BY <2>2, RootLeast DEF HeapPop
<1>10. Contents[data[0]] > 0
  <2>1. 0 \in Places(data, size, data[0])
    BY <1>1 DEF Places
  <2>2. Cardinality(Places(data, size, data[0])) # 0
    BY <2>1, PlacesFinite, FS_EmptySet
  <2> QED
    BY <1>1, <1>7, <2>2, PlacesFinite
<1>11. Contents' = [Contents EXCEPT ![data[0]] = @ - 1]
  BY <1>8 DEF Contents
<1> QED
  BY <1>9, <1>10, <1>11 DEF PQ!Pop, HeapPop

\* Each step of the heap is a step of the priority queue or none.
LEMMA HeapStepRefines ==
    HeapInv /\ [HeapNext]_heapVars => [PQ!Next]_<<Contents, out>>
<1> SUFFICES ASSUME HeapInv, [HeapNext]_heapVars
             PROVE  [PQ!Next]_<<Contents, out>>
  OBVIOUS
<1>1. ASSUME NEW x \in Item, HeapPush(x) PROVE PQ!Next
  BY <1>1, PushAdds DEF HeapInv, PQ!Next
<1>2. CASE HeapPop
  <2>1. data[0] \in Item
    BY <1>2 DEF HeapPop, HeapInv, HeapTypeOK
  <2> QED
    BY <1>2, <2>1, PopRemoves DEF PQ!Next
<1>3. CASE SiftUp \/ SiftDown
  BY <1>3, SiftKeepsContents DEF HeapInv, SiftUp, SiftDown
<1>4. CASE UNCHANGED heapVars
  BY <1>4 DEF heapVars, Contents
<1> QED
  BY <1>1, <1>2, <1>3, <1>4 DEF HeapNext

\* The heap implements the priority queue for every order and every size.
THEOREM HeapRefinesPriorityQueue == HeapSpec => HeapIsPriorityQueue
<1>1. HeapInit => PQ!Init
  <2> SUFFICES ASSUME HeapInit PROVE PQ!Init
    OBVIOUS
  <2>1. \A x \in Item : {i \in 0..(size - 1) : data[i] = x} = {}
    BY DEF HeapInit
  <2> QED
    BY <2>1, FS_EmptySet DEF PQ!Init, Contents, HeapInit
<1> QED
  BY <1>1, HeapStepRefines, HeapInvariant, PTL
  DEF HeapSpec, HeapIsPriorityQueue, PQ!Spec
=============================================================================
