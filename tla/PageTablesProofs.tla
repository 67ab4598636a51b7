-------------------------- MODULE PageTablesProofs --------------------------
(***************************************************************************)
(* What the operators of PageTables do, for any number of levels, entries  *)
(* and frames: the walk, the window and the list of free blocks.           *)
(***************************************************************************)
EXTENDS PageTables, FiniteSetTheorems, WellFoundedInduction, TLAPS

-----------------------------------------------------------------------------
(***************************************************************************)
(* Induction and recursive functions                                       *)
(***************************************************************************)

\* Induction up to n, with a set in the place of the predicate.
LEMMA UpTo ==
  ASSUME NEW n \in Nat, NEW G, 0 \in G, \A j \in 0..(n - 1) : j \in G => j + 1 \in G
  PROVE  \A j \in 0..n : j \in G
<1> DEFINE B == {j \in Nat : j <= n /\ j \notin G}
<1> SUFFICES ASSUME B # {} PROVE FALSE
  OBVIOUS
<1>1. PICK m \in B : \A z \in B : ~(<<z, m>> \in OpToRel(<, Nat))
  BY WFMin, NatLessThanWellFounded, Zenon
<1>2. m \in Nat /\ m # 0 /\ m - 1 \in 0..(n - 1) /\ (m - 1) + 1 = m
  OBVIOUS
<1>3. m - 1 \in B
  BY <1>2
<1>4. <<m - 1, m>> \in OpToRel(<, Nat)
  BY <1>2 DEF OpToRel
<1> QED
  BY <1>1, <1>3, <1>4, Zenon

Recursive(T, n, b, F) ==
    T = [k \in 0..n |-> IF k = 0 THEN b ELSE F[k][T[k - 1]]]

\* A function of 0..n may be defined by recursion, if the step is a function.
LEMMA RecursionIsDefined ==
  ASSUME NEW n \in Nat, NEW b, NEW F
  PROVE  \E T : Recursive(T, n, b, F)
<1> DEFINE Step(g, k) == IF k = 0 THEN b ELSE F[k][g[k - 1]]
           G == {j \in 0..n : \E g : \A k \in 0..j : g[k] = Step(g, k)}
<1>1. 0 \in G
  <2> DEFINE h == [k \in 0..0 |-> b]
  <2>1. \A k \in 0..0 : h[k] = Step(h, k)
    OBVIOUS
  <2> HIDE DEF h
  <2> QED
    BY <2>1
<1>2. ASSUME NEW j \in 0..(n - 1), j \in G PROVE j + 1 \in G
  <2>1. PICK g : \A k \in 0..j : g[k] = Step(g, k)
    BY <1>2
  <2> DEFINE h == [k \in 0..(j + 1) |-> Step(g, k)]
  <2>2. ASSUME NEW k \in 0..(j + 1) PROVE h[k] = Step(h, k)
    <3>1. CASE k = 0
      BY <3>1
    <3>2. CASE k # 0
      <4>1. k - 1 \in 0..j /\ k - 1 \in 0..(j + 1)
        BY <3>2
      <4>2. h[k - 1] = g[k - 1]
        BY <2>1, <4>1
      <4> QED
        BY <3>2, <4>2
    <3> QED
      BY <3>1, <3>2
  <2> HIDE DEF h
  <2> QED
    BY <2>2
<1>3. n \in G
  <2> HIDE DEF G
  <2> QED
    BY <1>1, <1>2, UpTo
<1>4. PICK g : \A k \in 0..n : g[k] = Step(g, k)
  BY <1>3
<1> DEFINE T == [k \in 0..n |-> g[k]]
<1>5. ASSUME NEW k \in 0..n PROVE T[k] = Step(T, k)
  <2>1. k # 0 => k - 1 \in 0..n
    OBVIOUS
  <2>2. k # 0 => T[k - 1] = g[k - 1]
    BY <2>1
  <2> HIDE DEF T
  <2>3. T[k] = g[k]
    BY DEF T
  <2> QED
    BY <1>4, <2>2, <2>3
<1>6. T = [k \in 0..n |-> T[k]]
  OBVIOUS
<1> HIDE DEF T
<1> QED
  BY <1>5, <1>6 DEF Recursive

LEMMA SpanDef ==
  /\ Span[0] = 1
  /\ \A l \in 0..Levels : Span[l] \in Nat \ {0}
  /\ \A l \in 1..Levels : Span[l] = Entries * Span[l - 1]
<1> DEFINE F == [k \in 1..Levels |-> [x \in Nat |-> Entries * x]]
           IsSpan(T) == T = [l \in 0..Levels |-> IF l = 0 THEN 1 ELSE Entries * T[l - 1]]
<1> USE PageTablesAssumption
<1>1. PICK T : T = [k \in 0..Levels |-> IF k = 0 THEN 1 ELSE F[k][T[k - 1]]]
  <2> HIDE DEF F
  <2>1. Levels \in Nat
    OBVIOUS
  <2>2. PICK T : Recursive(T, Levels, 1, F)
    BY <2>1, RecursionIsDefined
  <2> QED
    BY <2>2 DEF Recursive
<1>2. \A j \in 0..Levels : j \in {l \in 0..Levels : T[l] \in Nat}
  <2> DEFINE G == {l \in 0..Levels : T[l] \in Nat}
  <2>1. 0 \in G
    <3> HIDE DEF F
    <3>1. 0 \in 0..Levels
      OBVIOUS
    <3>2. T[0] = 1
      BY <1>1, <3>1
    <3> QED
      BY <3>1, <3>2
  <2>2. ASSUME NEW j \in 0..(Levels - 1), j \in G PROVE j + 1 \in G
    <3>1. j + 1 \in 0..Levels /\ j + 1 # 0 /\ (j + 1) - 1 = j /\ j + 1 \in 1..Levels
      OBVIOUS
    <3>2. T[j + 1] = F[j + 1][T[j]]
      BY <1>1, <3>1
    <3>3. T[j + 1] = Entries * T[j]
      BY <2>2, <3>1, <3>2
    <3> QED
      BY <2>2, <3>1, <3>3
  <2> HIDE DEF G
  <2>3. \A j \in 0..Levels : j \in G
    BY <2>1, <2>2, UpTo
  <2> QED
    BY <2>3 DEF G
<1>3. IsSpan(T)
  <2>1. ASSUME NEW l \in 0..Levels, l # 0 PROVE F[l][T[l - 1]] = Entries * T[l - 1]
    <3>1. l \in 1..Levels /\ l - 1 \in 0..Levels
      BY <2>1
    <3> QED
      BY <1>2, <3>1
  <2> HIDE DEF F
  <2> QED
    BY <1>1, <2>1
<1>4. IsSpan(Span)
  <2> HIDE DEF F
  <2> QED
    BY <1>3 DEF Span
<1> DEFINE G == {l \in 0..Levels : Span[l] \in Nat \ {0}}
<1>5. 0 \in G
  BY <1>4
<1>6. ASSUME NEW j \in 0..(Levels - 1), j \in G PROVE j + 1 \in G
  <2>1. j + 1 \in 0..Levels /\ j + 1 # 0 /\ (j + 1) - 1 = j
    OBVIOUS
  <2>2. Span[j + 1] = Entries * Span[j]
    BY <1>4, <2>1
  <2>3. Span[j] \in Nat /\ Span[j] >= 1
    BY <1>6
  <2>4. Entries * Span[j] >= Entries /\ Entries * Span[j] \in Nat
    <3> DEFINE e == Span[j]
    <3> HIDE DEF e
    <3>1. e \in Nat /\ e >= 1 => Entries * e \in Nat /\ Entries * e >= Entries
      OBVIOUS
    <3> QED
      BY <2>3, <3>1 DEF e
  <2> QED
    BY <2>1, <2>2, <2>4
<1>7. \A j \in 0..Levels : j \in G
  <2> HIDE DEF G, F
  <2> QED
    BY <1>5, <1>6, UpTo
<1>8. \A l \in 1..Levels : l \in 0..Levels /\ l # 0
  OBVIOUS
<1>9. Span[0] = 1
  <2> HIDE DEF F
  <2> QED
    BY <1>4
<1>10. \A l \in 1..Levels : Span[l] = Entries * Span[l - 1]
  <2> HIDE DEF F
  <2> QED
    BY <1>4, <1>8
<1>11. \A l \in 0..Levels : Span[l] \in Nat \ {0}
  BY <1>7
<1> QED
  BY <1>9, <1>10, <1>11

LEMMA IndexType ==
  ASSUME NEW v \in Page, NEW l \in 0..(Levels - 1)
  PROVE  Index(v, l) \in 0..(Entries - 1)
<1>1. Span[l] \in Nat \ {0} /\ v \in Nat /\ Entries \in Nat \ {0}
  BY SpanDef, PageTablesAssumption DEF Page
<1>2. v \div Span[l] \in Nat
  <2> DEFINE e == Span[l]
  <2> HIDE DEF e
  <2>1. e \in Nat \ {0} => v \div e \in Nat
    BY <1>1
  <2> QED
    BY <1>1, <2>1 DEF e
<1> QED
  BY <1>1, <1>2 DEF Index

-----------------------------------------------------------------------------
(***************************************************************************)
(* Words                                                                   *)
(***************************************************************************)

LEMMA EntryParts ==
  ASSUME NEW f \in Nat, NEW flags \in {0, 1, 3}
  PROVE  /\ PageEntry(f, flags) \in Nat /\ Addr(PageEntry(f, flags)) = f
         /\ HasP(PageEntry(f, flags)) <=> flags # 0
         /\ HasF(PageEntry(f, flags)) <=> flags = 3
  BY DEF PageEntry, Addr, HasP, HasF

LEMMA SetFlagsParts ==
  ASSUME NEW w \in Nat, NEW flags \in {1, 3}
  PROVE  /\ SetFlags(w, flags) \in Nat /\ Addr(SetFlags(w, flags)) = Addr(w)
         /\ HasP(SetFlags(w, flags))
<1>1. Addr(w) \in Nat /\ HasP(flags)
  BY DEF Addr, HasP
<1>2. \A a \in Nat : /\ Addr(4 * a + 2 + 1) = a /\ HasP(4 * a + 2 + 1)
                     /\ Addr(4 * a + 0 + 1) = a /\ HasP(4 * a + 0 + 1)
  BY DEF Addr, HasP
<1>3. SetFlags(w, flags) \in {4 * Addr(w) + 2 + 1, 4 * Addr(w) + 0 + 1}
  BY <1>1 DEF SetFlags
<1> QED
  BY <1>1, <1>2, <1>3

LEMMA ClearPParts ==
  ASSUME NEW w \in Nat
  PROVE  /\ ClearP(w) \in Nat /\ Addr(ClearP(w)) = Addr(w)
         /\ ~HasP(ClearP(w)) /\ (HasF(ClearP(w)) <=> HasF(w))
  BY DEF ClearP, Addr, HasP, HasF

LEMMA AddrType == ASSUME NEW w \in Nat PROVE Addr(w) \in Nat
  BY DEF Addr

-----------------------------------------------------------------------------
(***************************************************************************)
(* What the recursive functions of PageTables are                          *)
(***************************************************************************)

LEMMA WalkSteps ==
  ASSUME NEW m, NEW v
  PROVE  /\ Walk(m, v)[0] = m.root
         /\ \A k \in 1..Levels :
               Walk(m, v)[k] = Child(m, Index(v, Levels - k))[Walk(m, v)[k - 1]]
<1> DEFINE F == [k \in 1..Levels |-> Child(m, Index(v, Levels - k))]
           Eqn(T) == T = [k \in 0..Levels |->
                            IF k = 0 THEN m.root
                            ELSE Child(m, Index(v, Levels - k))[T[k - 1]]]
<1>0. Levels \in Nat
  BY PageTablesAssumption
<1>1. PICK T : Recursive(T, Levels, m.root, F)
  <2> HIDE DEF F
  <2> QED
    BY <1>0, RecursionIsDefined
<1>2. Eqn(T)
  <2>1. \A k \in 0..Levels : k # 0 => F[k] = Child(m, Index(v, Levels - k))
    BY <1>0
  <2> HIDE DEF F
  <2> QED
    BY <1>1, <2>1 DEF Recursive
<1> HIDE DEF F
<1>3. Eqn(Walk(m, v))
  BY <1>2 DEF Walk
<1>4. \A k \in 1..Levels : k \in 0..Levels /\ k # 0
  BY <1>0
<1>5. 0 \in 0..Levels
  BY <1>0
<1> QED
  BY <1>3, <1>4, <1>5

LEMMA FreeListSteps ==
  ASSUME NEW m
  PROVE  /\ FreeList(m)[0] = m.free
         /\ \A k \in 1..Frames : FreeList(m)[k] = NextBlock(m)[FreeList(m)[k - 1]]
<1> DEFINE F == [k \in 1..Frames |-> NextBlock(m)]
           Eqn(T) == T = [k \in 0..Frames |->
                            IF k = 0 THEN m.free ELSE NextBlock(m)[T[k - 1]]]
<1>0. Frames \in Nat
  BY PageTablesAssumption
<1>1. PICK T : Recursive(T, Frames, m.free, F)
  <2> HIDE DEF F
  <2> QED
    BY <1>0, RecursionIsDefined
<1>2. Eqn(T)
  <2>1. \A k \in 0..Frames : k # 0 => F[k] = NextBlock(m)
    BY <1>0
  <2> HIDE DEF F
  <2> QED
    BY <1>1, <2>1 DEF Recursive
<1> HIDE DEF F
<1>3. Eqn(FreeList(m))
  BY <1>2 DEF FreeList
<1>4. \A k \in 1..Frames : k \in 0..Frames /\ k # 0
  BY <1>0
<1>5. 0 \in 0..Frames
  BY <1>0
<1> QED
  BY <1>3, <1>4, <1>5

LEMMA SearchSteps ==
  ASSUME NEW m, NEW v
  PROVE  LET T == Search(m, v)
         IN  /\ T[0] = [m |-> m, table |-> m.root, found |-> TRUE]
             /\ \A k \in 1..(Levels - 1) : T[k] = StepDown(T[k - 1], Index(v, Levels - k))
<1> DEFINE n == Levels - 1
           b == [m |-> m, table |-> m.root, found |-> TRUE]
           Step(g, k) == IF k = 0 THEN b ELSE StepDown(g[k - 1], Index(v, Levels - k))
           G == {j \in 0..n : \E g : \A k \in 0..j : g[k] = Step(g, k)}
           Eqn(T) == T = [k \in 0..(Levels - 1) |-> Step(T, k)]
<1>0. n \in Nat
  BY PageTablesAssumption
<1> HIDE DEF b
<1>1. 0 \in G
  <2> DEFINE h == [k \in 0..0 |-> b]
  <2>1. \A k \in 0..0 : h[k] = Step(h, k)
    OBVIOUS
  <2> HIDE DEF h
  <2> QED
    BY <1>0, <2>1
<1>2. ASSUME NEW j \in 0..(n - 1), j \in G PROVE j + 1 \in G
  <2>1. PICK g : \A k \in 0..j : g[k] = Step(g, k)
    BY <1>2
  <2> DEFINE h == [k \in 0..(j + 1) |-> Step(g, k)]
  <2>2. ASSUME NEW k \in 0..(j + 1) PROVE h[k] = Step(h, k)
    <3>1. CASE k = 0
      BY <3>1
    <3>2. CASE k # 0
      <4>1. k - 1 \in 0..j /\ k - 1 \in 0..(j + 1)
        BY <3>2
      <4>2. h[k - 1] = g[k - 1]
        BY <2>1, <4>1
      <4> QED
        BY <3>2, <4>2
    <3> QED
      BY <3>1, <3>2
  <2> HIDE DEF h
  <2>3. j + 1 \in 0..n
    BY <1>0
  <2> QED
    BY <2>2, <2>3
<1>3. n \in G
  <2> HIDE DEF G
  <2>1. n \in 0..n
    BY <1>0
  <2> HIDE DEF n
  <2> QED
    BY <1>0, <1>1, <1>2, <2>1, UpTo
<1>4. PICK g : \A k \in 0..n : g[k] = Step(g, k)
  BY <1>3
<1> DEFINE T == [k \in 0..n |-> g[k]]
<1>5. ASSUME NEW k \in 0..n PROVE T[k] = Step(T, k)
  <2>1. k # 0 => k - 1 \in 0..n
    BY <1>0
  <2>2. k # 0 => T[k - 1] = g[k - 1]
    BY <2>1
  <2> HIDE DEF T
  <2>3. T[k] = g[k]
    BY DEF T
  <2> QED
    BY <1>4, <2>2, <2>3
<1>6. T = [k \in 0..n |-> T[k]]
  OBVIOUS
<1>7. Eqn(T)
  <2> HIDE DEF T
  <2> QED
    BY <1>5, <1>6
<1>8. Eqn(Search(m, v))
  <2> HIDE DEF T
  <2> QED
    BY <1>7 DEF Search, b
<1>9. 0 \in 0..(Levels - 1) /\ \A k \in 1..(Levels - 1) : k \in 0..(Levels - 1) /\ k # 0
  BY <1>0
<1> HIDE DEF T
<1> DEFINE W == Search(m, v)
<1>10. W[0] = b /\ \A k \in 1..(Levels - 1) : W[k] = StepDown(W[k - 1], Index(v, Levels - k))
  <2> HIDE DEF W
  <2>1. Eqn(W)
    BY <1>8 DEF W
  <2> QED
    BY <1>9, <2>1
<1> QED
  BY <1>10 DEF b

IsDescent(T, m, v, flags) ==
    /\ T[0] = [m |-> m, table |-> m.root, flags |-> flags]
    /\ \A k \in 1..(Levels - 1) : T[k] = Descend(T[k - 1], Index(v, Levels - k))

LEMMA DescentSteps ==
  ASSUME NEW m, NEW v, NEW flags
  PROVE  IsDescent(Descent(m, v, flags), m, v, flags)
<1> DEFINE n == Levels - 1
           b == [m |-> m, table |-> m.root, flags |-> flags]
           Step(g, k) == IF k = 0 THEN b ELSE Descend(g[k - 1], Index(v, Levels - k))
           G == {j \in 0..n : \E g : \A k \in 0..j : g[k] = Step(g, k)}
           Eqn(T) == T = [k \in 0..(Levels - 1) |-> Step(T, k)]
<1>0. n \in Nat
  BY PageTablesAssumption
<1> HIDE DEF b
<1>1. 0 \in G
  <2> DEFINE h == [k \in 0..0 |-> b]
  <2>1. \A k \in 0..0 : h[k] = Step(h, k)
    OBVIOUS
  <2> HIDE DEF h
  <2> QED
    BY <1>0, <2>1
<1>2. ASSUME NEW j \in 0..(n - 1), j \in G PROVE j + 1 \in G
  <2>1. PICK g : \A k \in 0..j : g[k] = Step(g, k)
    BY <1>2
  <2> DEFINE h == [k \in 0..(j + 1) |-> Step(g, k)]
  <2>2. ASSUME NEW k \in 0..(j + 1) PROVE h[k] = Step(h, k)
    <3>1. CASE k = 0
      BY <3>1
    <3>2. CASE k # 0
      <4>1. k - 1 \in 0..j /\ k - 1 \in 0..(j + 1)
        BY <3>2
      <4>2. h[k - 1] = g[k - 1]
        BY <2>1, <4>1
      <4> QED
        BY <3>2, <4>2
    <3> QED
      BY <3>1, <3>2
  <2> HIDE DEF h
  <2>3. j + 1 \in 0..n
    BY <1>0
  <2> QED
    BY <2>2, <2>3
<1>3. n \in G
  <2> HIDE DEF G
  <2>1. n \in 0..n
    BY <1>0
  <2> HIDE DEF n
  <2> QED
    BY <1>0, <1>1, <1>2, <2>1, UpTo
<1>4. PICK g : \A k \in 0..n : g[k] = Step(g, k)
  BY <1>3
<1> DEFINE T == [k \in 0..n |-> g[k]]
<1>5. ASSUME NEW k \in 0..n PROVE T[k] = Step(T, k)
  <2>1. k # 0 => k - 1 \in 0..n
    BY <1>0
  <2>2. k # 0 => T[k - 1] = g[k - 1]
    BY <2>1
  <2> HIDE DEF T
  <2>3. T[k] = g[k]
    BY DEF T
  <2> QED
    BY <1>4, <2>2, <2>3
<1>6. T = [k \in 0..n |-> T[k]]
  OBVIOUS
<1>7. Eqn(T)
  <2> HIDE DEF T
  <2> QED
    BY <1>5, <1>6
<1>8. Eqn(Descent(m, v, flags))
  <2> HIDE DEF T
  <2> QED
    BY <1>7 DEF Descent, b
<1>9. 0 \in 0..(Levels - 1) /\ \A k \in 1..(Levels - 1) : k \in 0..(Levels - 1) /\ k # 0
  BY <1>0
<1> HIDE DEF T
<1> DEFINE W == Descent(m, v, flags)
<1>10. W[0] = b /\ \A k \in 1..(Levels - 1) : W[k] = Descend(W[k - 1], Index(v, Levels - k))
  <2> HIDE DEF W
  <2>1. Eqn(W)
    BY <1>8 DEF W
  <2> QED
    BY <1>9, <2>1
<1> QED
  BY <1>10 DEF b, IsDescent

-----------------------------------------------------------------------------
(***************************************************************************)
(* The machine: its window and its memory                                  *)
(***************************************************************************)

Slots == 0..(Entries - 1)
Machine == [mem : [Frame -> [Slots -> Nat]], win : Frame, free : Frame,
            root : Frame, panic : BOOLEAN]

LEMMA NoFrameIsNone == NoFrame \notin Frame
  BY PageTablesAssumption DEF NoFrame, Frame

LEMMA PhysLookEffect ==
  ASSUME NEW m \in Machine, NEW f \in Frame
  PROVE  LET n == PhysLook(m, f)
         IN  /\ n \in Machine /\ n.win = f
             /\ n.mem = m.mem /\ n.free = m.free /\ n.root = m.root /\ n.panic = m.panic
  BY DEF Machine, PhysLook

LEMMA PokeEffect ==
  ASSUME NEW m \in Machine, NEW i \in Slots, NEW w \in Nat
  PROVE  LET n == Poke(m, i, w)
         IN  /\ n \in Machine /\ n.win = m.win /\ n.free = m.free /\ n.root = m.root
             /\ n.panic = m.panic
             /\ n.mem[m.win][i] = w
             /\ \A j \in Slots : j # i => n.mem[m.win][j] = m.mem[m.win][j]
             /\ \A f \in Frame : f # m.win => n.mem[f] = m.mem[f]
<1> DEFINE n == Poke(m, i, w)
<1>1. /\ m.mem \in [Frame -> [Slots -> Nat]] /\ m.win \in Frame /\ m.free \in Frame
      /\ m.root \in Frame /\ m.panic \in BOOLEAN
  BY DEF Machine
<1>2. m.mem[m.win] \in [Slots -> Nat]
  BY <1>1
<1> DEFINE row == [m.mem[m.win] EXCEPT ![i] = w]
<1>3. row \in [Slots -> Nat] /\ row[i] = w /\ \A j \in Slots : j # i => row[j] = m.mem[m.win][j]
  BY <1>2
<1>4. n = [m EXCEPT !.mem = [m.mem EXCEPT ![m.win] = row]]
  BY DEF Poke
<1> HIDE DEF row
<1>5. [m.mem EXCEPT ![m.win] = row] \in [Frame -> [Slots -> Nat]]
  BY <1>1, <1>3
<1>6. /\ n \in Machine /\ n.win = m.win /\ n.free = m.free /\ n.root = m.root
      /\ n.panic = m.panic
      /\ n.mem = [m.mem EXCEPT ![m.win] = row]
  BY <1>4, <1>5 DEF Machine
<1> HIDE DEF n
<1> QED
  BY <1>1, <1>3, <1>6 DEF n

-----------------------------------------------------------------------------
(***************************************************************************)
(* The free list, as a sequence s of n blocks                              *)
(***************************************************************************)

IsFreeList(m, s, n) ==
    /\ s \in [0..n -> Frame]
    /\ s[0] = m.free /\ s[n] = 0
    /\ \A k \in 0..(n - 1) :
          /\ s[k] # 0 /\ s[k + 1] = Addr(m.mem[s[k]][1])
          /\ m.mem[s[k]][0] >= 1
          /\ BlockFrames(m, s[k]) \subseteq Frame \ {0}
    /\ \A j, k \in 0..(n - 1) :
          j # k => BlockFrames(m, s[j]) \cap BlockFrames(m, s[k]) = {}

HasFreeList(m) == \E n \in Nat : \E s : IsFreeList(m, s, n)

ListFrames(m, s, n) == UNION {BlockFrames(m, s[k]) : k \in 0..(n - 1)}

LEMMA SlotsHeader == 0 \in Slots /\ 1 \in Slots
  BY PageTablesAssumption DEF Slots

LEMMA HeadOfBlock ==
  ASSUME NEW m \in Machine, NEW s, NEW n \in Nat, IsFreeList(m, s, n), NEW k \in 0..(n - 1)
  PROVE  /\ s[k] \in Frame /\ s[k] \in Nat /\ s[k] # 0
         /\ m.mem[s[k]][0] \in Nat /\ m.mem[s[k]][1] \in Nat
         /\ s[k] \in BlockFrames(m, s[k]) /\ s[k] \in ListFrames(m, s, n)
<1>1. k \in 0..n
  OBVIOUS
<1>2. s[k] \in Frame /\ s[k] # 0 /\ m.mem[s[k]][0] >= 1
  BY <1>1 DEF IsFreeList
<1>3. s[k] \in Nat
  BY <1>2, PageTablesAssumption DEF Frame
<1>4. m.mem[s[k]][0] \in Nat /\ m.mem[s[k]][1] \in Nat
  BY <1>2, SlotsHeader DEF Machine
<1>5. s[k] \in BlockFrames(m, s[k])
  BY <1>2, <1>3, <1>4 DEF BlockFrames
<1> QED
  BY <1>2, <1>3, <1>4, <1>5 DEF ListFrames

LEMMA ListIsShort ==
  ASSUME NEW m \in Machine, NEW s, NEW n \in Nat, IsFreeList(m, s, n)
  PROVE  n < Frames
<1> DEFINE A == 0..(n - 1)
           B == 1..(Frames - 1)
           h == [k \in A |-> s[k]]
<1>0. Frames \in Nat \ {0}
  BY PageTablesAssumption
<1>1. ASSUME NEW k \in A PROVE s[k] \in B
  BY <1>0, HeadOfBlock DEF Frame
<1>2. ASSUME NEW j \in A, NEW k \in A, s[j] = s[k] PROVE j = k
  <2>1. s[k] \in BlockFrames(m, s[j]) \cap BlockFrames(m, s[k])
    BY <1>2, HeadOfBlock
  <2> QED
    BY <2>1 DEF IsFreeList
<1>3. h \in Injection(A, B)
  BY <1>1, <1>2 DEF Injection, IsInjective
<1>4. IsFiniteSet(B) /\ Cardinality(B) = Frames - 1
  <2>1. Frames - 1 \in Int /\ 1 \in Int
    BY <1>0
  <2>2. IsFiniteSet(B) /\ Cardinality(B) = IF 1 > Frames - 1 THEN 0 ELSE (Frames - 1) - 1 + 1
    BY <2>1, FS_Interval
  <2> QED
    BY <1>0, <2>2
<1>5. Cardinality(A) = n
  <2>1. n - 1 \in Int /\ 0 \in Int
    OBVIOUS
  <2>2. Cardinality(A) = IF 0 > n - 1 THEN 0 ELSE (n - 1) - 0 + 1
    BY <2>1, FS_Interval
  <2> QED
    BY <2>2
<1>6. Cardinality(A) <= Cardinality(B)
  <2> HIDE DEF A, B, h
  <2> QED
    BY <1>3, <1>4, FS_Injection
<1> QED
  BY <1>0, <1>4, <1>5, <1>6

LEMMA ListIsFreeList ==
  ASSUME NEW m \in Machine, NEW s, NEW n \in Nat, IsFreeList(m, s, n)
  PROVE  /\ \A k \in 0..n : FreeList(m)[k] = s[k]
         /\ \A k \in n..Frames : FreeList(m)[k] = 0
         /\ Blocks(m) = {s[k] : k \in 0..(n - 1)}
         /\ FreeFrames(m) = ListFrames(m, s, n)
<1>0. n < Frames /\ Frames \in Nat
  BY ListIsShort, PageTablesAssumption
<1> DEFINE F == FreeList(m)
<1>1. F[0] = m.free /\ \A k \in 1..Frames : F[k] = NextBlock(m)[F[k - 1]]
  BY FreeListSteps
<1> HIDE DEF F
<1>2. \A k \in 0..n : F[k] = s[k]
  <2> DEFINE G == {k \in 0..n : F[k] = s[k]}
  <2>1. 0 \in G
    BY <1>1 DEF IsFreeList
  <2>2. ASSUME NEW j \in 0..(n - 1), j \in G PROVE j + 1 \in G
    <3>1. j + 1 \in 1..Frames /\ (j + 1) - 1 = j /\ j + 1 \in 0..n
      BY <1>0
    <3>2. F[j + 1] = NextBlock(m)[s[j]]
      BY <1>1, <2>2, <3>1
    <3>3. s[j] \in Frame /\ s[j] # 0 /\ s[j + 1] = Addr(m.mem[s[j]][1])
      BY HeadOfBlock DEF IsFreeList
    <3> QED
      BY <3>1, <3>2, <3>3 DEF NextBlock
  <2> HIDE DEF G
  <2>3. \A k \in 0..n : k \in G
    BY <2>1, <2>2, UpTo
  <2> QED
    BY <2>3 DEF G
<1>3. \A k \in n..Frames : F[k] = 0
  <2> DEFINE d == Frames - n
             G == {j \in 0..d : F[n + j] = 0}
  <2>0. d \in Nat
    BY <1>0
  <2>1. 0 \in G
    <3>1. n + 0 = n /\ n \in 0..n
      OBVIOUS
    <3> QED
      BY <1>2, <2>0, <3>1 DEF IsFreeList
  <2>2. ASSUME NEW j \in 0..(d - 1), j \in G PROVE j + 1 \in G
    <3>1. n + (j + 1) \in 1..Frames /\ (n + (j + 1)) - 1 = n + j /\ j + 1 \in 0..d
      BY <1>0, <2>0
    <3>2. F[n + (j + 1)] = NextBlock(m)[0]
      BY <1>1, <2>2, <3>1
    <3>3. 0 \in Frame
      BY <1>0 DEF Frame
    <3> QED
      BY <3>1, <3>2, <3>3 DEF NextBlock
  <2>3. \A j \in 0..d : j \in G
    <3> HIDE DEF d, G
    <3> QED
      BY <2>0, <2>1, <2>2, UpTo
  <2> SUFFICES ASSUME NEW k \in n..Frames PROVE F[k] = 0
    OBVIOUS
  <2>4. k - n \in 0..d /\ n + (k - n) = k
    BY <1>0
  <2>5. F[n + (k - n)] = 0
    BY <2>3, <2>4
  <2> QED
    BY <2>4, <2>5
<1>4. {F[k] : k \in 0..Frames} \ {0} = {s[k] : k \in 0..(n - 1)}
  <2>1. ASSUME NEW k \in 0..Frames, F[k] # 0 PROVE F[k] \in {s[e] : e \in 0..(n - 1)}
    <3>1. ~(k \in n..Frames)
      BY <1>3, <2>1
    <3>2. k \in 0..(n - 1) /\ k \in 0..n
      BY <1>0, <3>1
    <3> QED
      BY <1>2, <3>2
  <2>2. ASSUME NEW k \in 0..(n - 1) PROVE s[k] \in {F[e] : e \in 0..Frames} \ {0}
    <3>1. k \in 0..n /\ k \in 0..Frames /\ s[k] # 0
      BY <1>0, HeadOfBlock
    <3> QED
      BY <1>2, <3>1
  <2> QED
    BY <2>1, <2>2
<1>5. Blocks(m) = {s[k] : k \in 0..(n - 1)}
  BY <1>4 DEF Blocks, F
<1>6. FreeFrames(m) = ListFrames(m, s, n)
  BY <1>5 DEF FreeFrames, ListFrames
<1> QED
  BY <1>2, <1>3, <1>5, <1>6 DEF F

\* The list is the same when the free frames are.
LEMMA SameFreeList ==
  ASSUME NEW m \in Machine, HasFreeList(m), NEW q \in Machine, q.free = m.free,
         \A f \in FreeFrames(m) : q.mem[f] = m.mem[f]
  PROVE  HasFreeList(q) /\ FreeFrames(q) = FreeFrames(m)
<1>1. PICK n \in Nat : \E s : IsFreeList(m, s, n)
  BY DEF HasFreeList
<1>2. PICK s : IsFreeList(m, s, n)
  BY <1>1
<1>3. FreeFrames(m) = ListFrames(m, s, n)
  BY <1>2, ListIsFreeList
<1>4. ASSUME NEW k \in 0..(n - 1)
      PROVE  q.mem[s[k]] = m.mem[s[k]] /\ BlockFrames(q, s[k]) = BlockFrames(m, s[k])
  <2>1. s[k] \in FreeFrames(m)
    BY <1>2, <1>3, HeadOfBlock
  <2> QED
    BY <2>1 DEF BlockFrames
<1>5. IsFreeList(q, s, n)
  BY <1>2, <1>4, ZenonT(30) DEF IsFreeList
<1>6. ListFrames(q, s, n) = ListFrames(m, s, n)
  BY <1>4 DEF ListFrames
<1>7. FreeFrames(q) = ListFrames(q, s, n)
  BY <1>5, ListIsFreeList
<1> QED
  BY <1>3, <1>5, <1>6, <1>7 DEF HasFreeList

\* What the list promises to alloc_page.
LEMMA FreeListFacts ==
  ASSUME NEW m \in Machine, HasFreeList(m)
  PROVE  /\ FreeList(m)[Frames] = 0
         /\ \A b, c \in Blocks(m) : b # c => BlockFrames(m, b) \cap BlockFrames(m, c) = {}
         /\ FreeFrames(m) \subseteq Frame \ {0}
         /\ m.free = 0 => FreeFrames(m) = {}
<1>1. PICK n \in Nat : \E s : IsFreeList(m, s, n)
  BY DEF HasFreeList
<1>2. PICK s : IsFreeList(m, s, n)
  BY <1>1
<1>3. n < Frames /\ Frames \in Nat /\ Frames \in n..Frames
  BY <1>2, ListIsShort, PageTablesAssumption
<1>4. /\ FreeList(m)[Frames] = 0 /\ Blocks(m) = {s[k] : k \in 0..(n - 1)}
      /\ FreeFrames(m) = ListFrames(m, s, n)
  BY <1>2, <1>3, ListIsFreeList
<1>5. \A b, c \in Blocks(m) : b # c => BlockFrames(m, b) \cap BlockFrames(m, c) = {}
  <2> SUFFICES ASSUME NEW b \in Blocks(m), NEW c \in Blocks(m), b # c
               PROVE  BlockFrames(m, b) \cap BlockFrames(m, c) = {}
    OBVIOUS
  <2>1. PICK j \in 0..(n - 1), k \in 0..(n - 1) : b = s[j] /\ c = s[k]
    BY <1>4
  <2> QED
    BY <1>2, <2>1 DEF IsFreeList
<1>6. FreeFrames(m) \subseteq Frame \ {0}
  BY <1>2, <1>4 DEF ListFrames, IsFreeList
<1>7. m.free = 0 => FreeFrames(m) = {}
  <2> SUFFICES ASSUME m.free = 0 PROVE n = 0
    BY <1>4 DEF ListFrames
  <2>1. s[0] = 0
    BY <1>2 DEF IsFreeList
  <2>2. 0 \notin 0..(n - 1)
    BY <1>2, <2>1 DEF IsFreeList
  <2> QED
    BY <2>2
<1> QED
  BY <1>4, <1>5, <1>6, <1>7

LEMMA PushEffect ==
  ASSUME NEW m \in Machine, NEW f \in Frame, NEW z \in Nat
  PROVE  LET q == PushBlock(m, f, z)
         IN  /\ q \in Machine /\ q.free = f /\ q.root = m.root /\ q.panic = m.panic
             /\ q.mem[f][0] = z /\ Addr(q.mem[f][1]) = m.free
             /\ \A g \in Frame : g # f => q.mem[g] = m.mem[g]
<1> DEFINE a == PhysLook(m, f)
           b == Poke(a, 0, z)
           w == PageEntry(m.free, 0)
           c == Poke(b, 1, w)
           q == [c EXCEPT !.free = f]
<1>0. \A x \in Machine, i \in Slots, u \in Nat :
        LET p == Poke(x, i, u)
        IN  /\ p \in Machine /\ p.win = x.win /\ p.root = x.root /\ p.panic = x.panic
            /\ p.mem[x.win][i] = u
            /\ \A e \in Slots : e # i => p.mem[x.win][e] = x.mem[x.win][e]
            /\ \A g \in Frame : g # x.win => p.mem[g] = x.mem[g]
  BY PokeEffect
<1>1. a \in Machine /\ a.win = f /\ a.mem = m.mem /\ a.root = m.root /\ a.panic = m.panic
  BY PhysLookEffect
<1> HIDE DEF a
<1>2. /\ b \in Machine /\ b.win = f /\ b.root = m.root /\ b.panic = m.panic
      /\ b.mem[f][0] = z /\ \A g \in Frame : g # f => b.mem[g] = m.mem[g]
  <2>1. /\ b \in Machine /\ b.win = a.win /\ b.root = a.root /\ b.panic = a.panic
        /\ b.mem[a.win][0] = z /\ \A g \in Frame : g # a.win => b.mem[g] = a.mem[g]
    <3>1. a \in Machine /\ 0 \in Slots /\ z \in Nat
      BY <1>1, SlotsHeader
    <3> QED
      BY <1>0, <3>1
  <2> HIDE DEF b
  <2> QED
    BY <1>1, <2>1
<1> HIDE DEF b
<1>3. w \in Nat /\ Addr(w) = m.free
  <2>1. m.free \in Nat
    BY PageTablesAssumption DEF Machine, Frame
  <2> QED
    BY <2>1, EntryParts
<1> HIDE DEF w
<1>4. /\ c \in Machine /\ c.root = m.root /\ c.panic = m.panic
      /\ c.mem[f][0] = z /\ c.mem[f][1] = w
      /\ \A g \in Frame : g # f => c.mem[g] = m.mem[g]
  <2>1. /\ c \in Machine /\ c.win = b.win /\ c.root = b.root /\ c.panic = b.panic
        /\ c.mem[b.win][1] = w
        /\ \A j \in Slots : j # 1 => c.mem[b.win][j] = b.mem[b.win][j]
        /\ \A g \in Frame : g # b.win => c.mem[g] = b.mem[g]
    <3>1. b \in Machine /\ 1 \in Slots /\ w \in Nat
      BY <1>2, <1>3, SlotsHeader
    <3> QED
      BY <1>0, <3>1, SMTT(30)
  <2> HIDE DEF c
  <2> QED
    BY <1>2, <2>1, SlotsHeader
<1> HIDE DEF c
<1>5. q \in Machine /\ q.free = f /\ q.root = c.root /\ q.panic = c.panic /\ q.mem = c.mem
  BY <1>4 DEF Machine
<1>6. PushBlock(m, f, z) = q
  BY DEF PushBlock, q, c, w, b, a
<1> HIDE DEF q
<1> QED
  BY <1>3, <1>4, <1>5, <1>6

\* A block of frames that are not in the list is added to it.
LEMMA PushList ==
  ASSUME NEW m \in Machine, HasFreeList(m), NEW f \in Frame, NEW z \in Nat, z >= 1,
         f..(f + z - 1) \subseteq Frame \ ({0} \cup FreeFrames(m))
  PROVE  LET q == PushBlock(m, f, z)
         IN  HasFreeList(q) /\ FreeFrames(q) = FreeFrames(m) \cup f..(f + z - 1)
<1> DEFINE q == PushBlock(m, f, z)
<1>1. /\ q \in Machine /\ q.free = f /\ q.mem[f][0] = z /\ Addr(q.mem[f][1]) = m.free
      /\ \A g \in Frame : g # f => q.mem[g] = m.mem[g]
  BY PushEffect
<1> HIDE DEF q
<1>2. PICK n \in Nat : \E s : IsFreeList(m, s, n)
  BY DEF HasFreeList
<1>3. PICK s : IsFreeList(m, s, n)
  BY <1>2
<1>4. FreeFrames(m) = ListFrames(m, s, n)
  BY <1>3, ListIsFreeList
<1>5. f \in Nat /\ f \in f..(f + z - 1) /\ f # 0 /\ f \notin FreeFrames(m)
  <2>1. f \in Nat
    BY PageTablesAssumption DEF Frame
  <2> QED
    BY <2>1
<1> DEFINE l == n + 1
           r == [k \in 0..l |-> IF k = 0 THEN f ELSE s[k - 1]]
<1>6. ASSUME NEW k \in 0..(n - 1)
      PROVE  /\ q.mem[s[k]] = m.mem[s[k]] /\ BlockFrames(q, s[k]) = BlockFrames(m, s[k])
             /\ BlockFrames(m, s[k]) \subseteq FreeFrames(m)
  <2>1. s[k] \in Frame /\ s[k] # f
    BY <1>3, <1>4, <1>5, HeadOfBlock
  <2> QED
    BY <1>1, <1>4, <2>1 DEF BlockFrames, ListFrames
<1>7. BlockFrames(q, f) = f..(f + z - 1)
  BY <1>1 DEF BlockFrames
<1>8. /\ l \in Nat /\ r[0] = f
      /\ \A k \in 1..l : k - 1 \in 0..n /\ r[k] = s[k - 1]
      /\ \A k \in 0..(l - 1) : k # 0 => k - 1 \in 0..(n - 1)
  OBVIOUS
<1>9. r \in [0..l -> Frame]
  <2>1. ASSUME NEW k \in 0..l PROVE r[k] \in Frame
    <3>1. k = 0 \/ k \in 1..l
      OBVIOUS
    <3> HIDE DEF r
    <3> QED
      BY <1>3, <1>8, <3>1 DEF IsFreeList
  <2> QED
    BY <2>1
<1>10. r[0] = q.free /\ r[l] = 0
  <2>1. l \in 1..l /\ l - 1 = n
    OBVIOUS
  <2> HIDE DEF r
  <2> QED
    BY <1>1, <1>3, <1>8, <2>1 DEF IsFreeList
<1>11. ASSUME NEW k \in 0..(l - 1)
       PROVE  /\ r[k] # 0 /\ r[k + 1] = Addr(q.mem[r[k]][1])
              /\ q.mem[r[k]][0] >= 1
              /\ BlockFrames(q, r[k]) \subseteq Frame \ {0}
  <2>1. k + 1 \in 1..l /\ (k + 1) - 1 = k
    OBVIOUS
  <2> HIDE DEF r
  <2>2. CASE k = 0
    <3>1. r[k + 1] = m.free
      BY <1>3, <1>8, <2>1, <2>2 DEF IsFreeList
    <3> QED
      BY <1>1, <1>5, <1>7, <1>8, <2>2, <3>1
  <2>3. CASE k # 0
    <3> DEFINE j == k - 1
    <3>1. j \in 0..(n - 1) /\ k \in 1..l /\ j + 1 = k
      BY <2>3
    <3>2. r[k] = s[j] /\ r[k + 1] = s[j + 1]
      BY <1>8, <2>1, <3>1
    <3> HIDE DEF j
    <3>3. /\ s[j] # 0 /\ s[j + 1] = Addr(m.mem[s[j]][1])
          /\ m.mem[s[j]][0] >= 1
          /\ BlockFrames(m, s[j]) \subseteq Frame \ {0}
      BY <1>3, <3>1 DEF IsFreeList
    <3> QED
      BY <1>6, <3>1, <3>2, <3>3
  <2> QED
    BY <2>2, <2>3
<1>12. ASSUME NEW k \in 0..(l - 1), k # 0
       PROVE  BlockFrames(q, r[k]) = BlockFrames(m, s[k - 1]) /\ k - 1 \in 0..(n - 1)
  <2>1. k \in 1..l
    BY <1>12
  <2> HIDE DEF r
  <2> QED
    BY <1>6, <1>8, <1>12, <2>1
<1>13. ASSUME NEW j \in 0..(l - 1), NEW k \in 0..(l - 1), j # k
       PROVE  BlockFrames(q, r[j]) \cap BlockFrames(q, r[k]) = {}
  <2> HIDE DEF r
  <2>1. CASE j = 0 /\ k # 0
    BY <1>6, <1>7, <1>8, <1>12, <2>1
  <2>2. CASE j # 0 /\ k = 0
    BY <1>6, <1>7, <1>8, <1>12, <2>2
  <2>3. CASE j # 0 /\ k # 0
    <3>1. j - 1 # k - 1
      BY <1>13
    <3> QED
      BY <1>3, <1>12, <2>3, <3>1 DEF IsFreeList
  <2> QED
    BY <1>13, <2>1, <2>2, <2>3
<1> HIDE DEF r
<1>14. IsFreeList(q, r, l)
  BY <1>9, <1>10, <1>11, <1>13 DEF IsFreeList
<1>15. ListFrames(q, r, l) = ListFrames(m, s, n) \cup f..(f + z - 1)
  <2>1. ASSUME NEW x \in ListFrames(q, r, l) PROVE x \in ListFrames(m, s, n) \cup f..(f + z - 1)
    <3>1. PICK k \in 0..(l - 1) : x \in BlockFrames(q, r[k])
      BY DEF ListFrames
    <3> QED
      BY <1>7, <1>8, <1>12, <3>1 DEF ListFrames
  <2>2. ASSUME NEW x \in ListFrames(m, s, n) PROVE x \in ListFrames(q, r, l)
    <3>1. PICK k \in 0..(n - 1) : x \in BlockFrames(m, s[k])
      BY DEF ListFrames
    <3>2. k + 1 \in 0..(l - 1) /\ k + 1 # 0 /\ (k + 1) - 1 = k
      OBVIOUS
    <3>3. x \in BlockFrames(q, r[k + 1])
      BY <1>12, <3>1, <3>2
    <3> QED
      BY <3>2, <3>3 DEF ListFrames
  <2>3. ASSUME NEW x \in f..(f + z - 1) PROVE x \in ListFrames(q, r, l)
    <3>1. 0 \in 0..(l - 1)
      OBVIOUS
    <3> QED
      BY <1>7, <1>8, <3>1 DEF ListFrames
  <2> QED
    BY <2>1, <2>2, <2>3
<1>16. FreeFrames(q) = ListFrames(q, r, l)
  <2> HIDE DEF l
  <2> QED
    BY <1>1, <1>8, <1>14, ListIsFreeList
<1>17. HasFreeList(q)
  <2> HIDE DEF l
  <2> QED
    BY <1>8, <1>14 DEF HasFreeList
<1> QED
  BY <1>4, <1>15, <1>16, <1>17 DEF q

\* The first block is one frame: it leaves the list.
LEMMA AllocLast ==
  ASSUME NEW m \in Machine, NEW s, NEW n \in Nat \ {0}, IsFreeList(m, s, n),
         NEW q \in Machine, q.mem = m.mem, q.free = s[1], m.mem[s[0]][0] = 1
  PROVE  HasFreeList(q) /\ FreeFrames(q) = ListFrames(m, s, n) \ {s[0]}
<1> DEFINE l == n - 1
           r == [k \in 0..l |-> s[k + 1]]
<1>1. l \in Nat /\ \A k \in 0..l : k + 1 \in 0..n
  OBVIOUS
<1>2. \A f : BlockFrames(q, f) = BlockFrames(m, f)
  BY DEF BlockFrames
<1>3. r \in [0..l -> Frame] /\ r[0] = q.free /\ r[l] = 0
  <2>1. \A k \in 0..l : s[k + 1] \in Frame
    BY <1>1 DEF IsFreeList
  <2>2. 0 \in 0..l /\ l \in 0..l /\ 0 + 1 = 1 /\ l + 1 = n
    BY <1>1
  <2>3. r[0] = s[1] /\ r[l] = s[n]
    BY <2>2
  <2> QED
    BY <2>1, <2>3 DEF IsFreeList
<1>4. \A k \in 0..(l - 1) :
        /\ k + 1 \in 0..(n - 1) /\ r[k] = s[k + 1] /\ r[k + 1] = s[(k + 1) + 1]
  OBVIOUS
<1> HIDE DEF r
<1>5. ASSUME NEW k \in 0..(l - 1)
      PROVE  /\ r[k] # 0 /\ r[k + 1] = Addr(q.mem[r[k]][1])
             /\ q.mem[r[k]][0] >= 1
             /\ BlockFrames(q, r[k]) \subseteq Frame \ {0}
  <2> DEFINE j == k + 1
  <2>1. j \in 0..(n - 1) /\ r[k] = s[j] /\ r[k + 1] = s[j + 1]
    BY <1>4
  <2> HIDE DEF j
  <2> QED
    BY <1>2, <2>1 DEF IsFreeList
<1>6. ASSUME NEW j \in 0..(l - 1), NEW k \in 0..(l - 1), j # k
      PROVE  BlockFrames(q, r[j]) \cap BlockFrames(q, r[k]) = {}
  <2> DEFINE i == j + 1
             e == k + 1
  <2>1. i \in 0..(n - 1) /\ e \in 0..(n - 1) /\ i # e /\ r[j] = s[i] /\ r[k] = s[e]
    BY <1>4, <1>6
  <2> HIDE DEF i, e
  <2>2. BlockFrames(m, s[i]) \cap BlockFrames(m, s[e]) = {}
    BY <2>1 DEF IsFreeList
  <2> QED
    BY <1>2, <2>1, <2>2
<1>7. IsFreeList(q, r, l)
  BY <1>3, <1>5, <1>6 DEF IsFreeList
<1>8. FreeFrames(q) = ListFrames(q, r, l) /\ HasFreeList(q)
  <2> HIDE DEF l
  <2> QED
    BY <1>1, <1>7, ListIsFreeList DEF HasFreeList
<1>9. 0 \in 0..(n - 1) /\ BlockFrames(m, s[0]) = {s[0]}
  <2>1. 0 \in 0..(n - 1)
    OBVIOUS
  <2>2. s[0] \in Nat
    BY <2>1, HeadOfBlock
  <2> QED
    BY <2>1, <2>2 DEF BlockFrames
<1>10. ListFrames(q, r, l) = ListFrames(m, s, n) \ {s[0]}
  <2>1. ASSUME NEW x \in ListFrames(q, r, l) PROVE x \in ListFrames(m, s, n) /\ x # s[0]
    <3>1. PICK k \in 0..(l - 1) : x \in BlockFrames(m, r[k])
      BY <1>2 DEF ListFrames
    <3>2. k + 1 \in 0..(n - 1) /\ k + 1 # 0 /\ x \in BlockFrames(m, s[k + 1])
      BY <1>4, <3>1
    <3>3. BlockFrames(m, s[0]) \cap BlockFrames(m, s[k + 1]) = {}
      BY <1>9, <3>2 DEF IsFreeList
    <3> QED
      BY <1>9, <3>2, <3>3 DEF ListFrames
  <2>2. ASSUME NEW x \in ListFrames(m, s, n), x # s[0] PROVE x \in ListFrames(q, r, l)
    <3>1. PICK k \in 0..(n - 1) : x \in BlockFrames(m, s[k])
      BY DEF ListFrames
    <3>2. k # 0
      BY <1>9, <2>2, <3>1
    <3>3. k - 1 \in 0..(l - 1) /\ (k - 1) + 1 = k
      BY <3>2
    <3>4. x \in BlockFrames(q, r[k - 1])
      BY <1>2, <1>4, <3>1, <3>3
    <3> QED
      BY <3>3, <3>4 DEF ListFrames
  <2> QED
    BY <2>1, <2>2
<1> QED
  BY <1>8, <1>10

\* The first block is longer: its header moves to the next frame.
LEMMA AllocFirst ==
  ASSUME NEW m \in Machine, NEW s, NEW n \in Nat \ {0}, IsFreeList(m, s, n),
         m.mem[s[0]][0] # 1, NEW q \in Machine, q.free = s[0] + 1,
         \A g \in Frame : g # s[0] + 1 => q.mem[g] = m.mem[g],
         q.mem[s[0] + 1][0] = m.mem[s[0]][0] - 1, q.mem[s[0] + 1][1] = m.mem[s[0]][1]
  PROVE  /\ HasFreeList(q) /\ FreeFrames(q) = ListFrames(m, s, n) \ {s[0]}
         /\ s[0] + 1 \in ListFrames(m, s, n)
<1> DEFINE f == s[0]
           z == m.mem[f][0]
           r == [s EXCEPT ![0] = f + 1]
<1>1. 0 \in 0..(n - 1) /\ 0 \in 0..n /\ n \in 0..n /\ n # 0 /\ 0 + 1 = 1 /\ 1 \in 0..n
  OBVIOUS
<1>2. f \in Nat /\ z \in Nat /\ z >= 2
  <2>1. f \in Nat /\ z \in Nat /\ z >= 1
    BY <1>1, HeadOfBlock DEF IsFreeList
  <2> QED
    BY <2>1
<1>3. BlockFrames(m, f) = f..(f + z - 1) /\ BlockFrames(q, f + 1) = (f + 1)..(f + z - 1)
  <2>1. (f + 1) + (z - 1) - 1 = f + z - 1
    BY <1>2
  <2> QED
    BY <2>1 DEF BlockFrames
<1>4. f + 1 \in BlockFrames(m, f) /\ f + 1 \in Frame /\ f + 1 # 0
  <2>1. f + 1 \in BlockFrames(m, f)
    BY <1>2, <1>3
  <2>2. BlockFrames(m, f) \subseteq Frame \ {0}
    BY <1>1 DEF IsFreeList
  <2> QED
    BY <2>1, <2>2
<1>5. ASSUME NEW k \in 0..(n - 1), k # 0
      PROVE  q.mem[s[k]] = m.mem[s[k]] /\ BlockFrames(q, s[k]) = BlockFrames(m, s[k])
  <2>1. s[k] \in Frame /\ s[k] \in BlockFrames(m, s[k])
    BY HeadOfBlock
  <2>2. BlockFrames(m, f) \cap BlockFrames(m, s[k]) = {}
    BY <1>1, <1>5 DEF IsFreeList
  <2>3. s[k] # f + 1
    BY <1>4, <2>1, <2>2
  <2> QED
    BY <2>1, <2>3 DEF BlockFrames
<1>6. r \in [0..n -> Frame] /\ r[0] = q.free /\ r[n] = 0 /\ \A k \in 0..n : k # 0 => r[k] = s[k]
  <2>1. s \in [0..n -> Frame] /\ s[n] = 0
    BY DEF IsFreeList
  <2> HIDE DEF f
  <2> QED
    BY <1>1, <1>4, <2>1 DEF f
<1> HIDE DEF r
<1>7. BlockFrames(q, f + 1) \subseteq BlockFrames(m, f) /\ f \notin BlockFrames(q, f + 1)
      /\ BlockFrames(m, f) \ {f} = BlockFrames(q, f + 1)
  <2> HIDE DEF f, z
  <2>1. /\ (f + 1)..(f + z - 1) \subseteq f..(f + z - 1) /\ f \notin (f + 1)..(f + z - 1)
        /\ (f..(f + z - 1)) \ {f} = (f + 1)..(f + z - 1)
    BY <1>2
  <2> QED
    BY <1>3, <2>1
<1>8. ASSUME NEW k \in 0..(n - 1)
      PROVE  /\ r[k] # 0 /\ r[k + 1] = Addr(q.mem[r[k]][1])
             /\ q.mem[r[k]][0] >= 1
             /\ BlockFrames(q, r[k]) \subseteq Frame \ {0}
  <2>1. k \in 0..n /\ k + 1 \in 0..n /\ k + 1 # 0
    OBVIOUS
  <2>2. CASE k = 0
    <3>1. r[k] = f + 1 /\ r[k + 1] = s[1]
      BY <1>1, <1>6, <2>1, <2>2
    <3>2. s[1] = Addr(m.mem[f][1]) /\ BlockFrames(m, f) \subseteq Frame \ {0}
      BY <1>1 DEF IsFreeList
    <3>3. q.mem[f + 1][0] >= 1
      BY <1>2
    <3> QED
      BY <1>4, <1>7, <3>1, <3>2, <3>3
  <2>3. CASE k # 0
    BY <1>5, <1>6, <2>1, <2>3 DEF IsFreeList
  <2> QED
    BY <2>2, <2>3
<1>9. ASSUME NEW k \in 0..(n - 1)
      PROVE  /\ BlockFrames(q, r[k]) \subseteq BlockFrames(m, s[k])
             /\ k # 0 => BlockFrames(q, r[k]) = BlockFrames(m, s[k])
             /\ BlockFrames(m, s[k]) \ {f} \subseteq BlockFrames(q, r[k])
  <2>1. k \in 0..n
    OBVIOUS
  <2>2. CASE k = 0
    BY <1>6, <1>7, <2>2
  <2>3. CASE k # 0
    BY <1>5, <1>6, <2>1, <2>3
  <2> QED
    BY <2>2, <2>3
<1>10. ASSUME NEW j \in 0..(n - 1), NEW k \in 0..(n - 1), j # k
       PROVE  BlockFrames(q, r[j]) \cap BlockFrames(q, r[k]) = {}
  <2>1. BlockFrames(m, s[j]) \cap BlockFrames(m, s[k]) = {}
    BY <1>10 DEF IsFreeList
  <2> QED
    BY <1>9, <2>1
<1>11. IsFreeList(q, r, n)
  BY <1>6, <1>8, <1>10 DEF IsFreeList
<1>12. FreeFrames(q) = ListFrames(q, r, n) /\ HasFreeList(q)
  BY <1>11, ListIsFreeList DEF HasFreeList
<1>13. ListFrames(q, r, n) = ListFrames(m, s, n) \ {f}
  <2>1. ASSUME NEW x \in ListFrames(q, r, n) PROVE x \in ListFrames(m, s, n) /\ x # f
    <3>1. PICK k \in 0..(n - 1) : x \in BlockFrames(q, r[k])
      BY DEF ListFrames
    <3>2. x \in ListFrames(m, s, n)
      BY <1>9, <3>1 DEF ListFrames
    <3>3. CASE k = 0
      BY <1>6, <1>7, <3>1, <3>2, <3>3
    <3>4. CASE k # 0
      <4>1. BlockFrames(m, f) \cap BlockFrames(m, s[k]) = {}
        BY <1>1, <3>4 DEF IsFreeList
      <4>2. f \in BlockFrames(m, f)
        BY <1>1, HeadOfBlock
      <4> QED
        BY <1>9, <3>1, <3>2, <4>1, <4>2
    <3> QED
      BY <3>3, <3>4
  <2>2. ASSUME NEW x \in ListFrames(m, s, n), x # f PROVE x \in ListFrames(q, r, n)
    BY <1>9, <2>2 DEF ListFrames
  <2> QED
    BY <2>1, <2>2
<1>14. f + 1 \in ListFrames(m, s, n)
  BY <1>1, <1>4 DEF ListFrames
<1> QED
  BY <1>12, <1>13, <1>14

LEMMA AllocList ==
  ASSUME NEW m \in Machine, HasFreeList(m), m.free # 0
  PROVE  LET q == AllocPage(m)
         IN  /\ q \in Machine /\ q.root = m.root /\ q.panic = m.panic /\ HasFreeList(q)
             /\ m.free \in FreeFrames(m) /\ FreeFrames(q) = FreeFrames(m) \ {m.free}
             /\ \A g \in Frame \ FreeFrames(m) : q.mem[g] = m.mem[g]
<1>1. PICK n \in Nat : \E s : IsFreeList(m, s, n)
  BY DEF HasFreeList
<1>2. PICK s : IsFreeList(m, s, n)
  BY <1>1
<1>3. s[0] = m.free /\ n # 0
  BY <1>2 DEF IsFreeList
<1>4. 0 \in 0..(n - 1) /\ n \in Nat \ {0} /\ 0 + 1 = 1 /\ 1 \in 0..n
  BY <1>3
<1> DEFINE f == m.free
           a == PhysLook(m, f)
           z == m.mem[f][0]
           x == m.mem[f][1]
<1>5. /\ FreeFrames(m) = ListFrames(m, s, n) /\ f \in FreeFrames(m) /\ f \in Frame
      /\ f \in Nat /\ z \in Nat /\ z >= 1 /\ x \in Nat
  <2>1. FreeFrames(m) = ListFrames(m, s, n)
    BY <1>2, ListIsFreeList
  <2>2. /\ s[0] \in Frame /\ s[0] \in Nat /\ m.mem[s[0]][0] \in Nat /\ m.mem[s[0]][1] \in Nat
        /\ s[0] \in ListFrames(m, s, n)
    BY <1>2, <1>4, HeadOfBlock
  <2>3. m.mem[s[0]][0] >= 1
    BY <1>2, <1>4 DEF IsFreeList
  <2> QED
    BY <1>3, <2>1, <2>2, <2>3
<1>6. s[1] = Addr(x) /\ s[1] \in Frame
  BY <1>2, <1>3, <1>4 DEF IsFreeList
<1>7. /\ a \in Machine /\ a.win = f /\ a.mem = m.mem /\ a.free = f /\ a.root = m.root
      /\ a.panic = m.panic
      /\ Peek(a, 0) = z /\ Peek(a, 1) = x
  <2>1. a \in Machine /\ a.win = f /\ a.mem = m.mem /\ a.free = f /\ a.root = m.root /\ a.panic = m.panic
    BY <1>5, PhysLookEffect
  <2> HIDE DEF a
  <2> QED
    BY <2>1 DEF Peek
<1> DEFINE b == PhysLook(a, f + 1)
           c == Poke(b, 0, z - 1)
           d == Poke(c, 1, x)
           q == AllocPage(m)
<1>8. q = IF z = 1 THEN [a EXCEPT !.free = Addr(x)] ELSE [d EXCEPT !.free = f + 1]
  <2>1. q = IF Peek(a, 0) = 1
              THEN [a EXCEPT !.free = Addr(Peek(a, 1))]
              ELSE [Poke(Poke(b, 0, Peek(a, 0) - 1), 1, Peek(a, 1)) EXCEPT !.free = f + 1]
    BY DEF AllocPage
  <2> HIDE DEF a, b, z, x
  <2> QED
    BY <1>7, <2>1
<1> HIDE DEF a, q
<1>9. CASE z = 1
  <2>1. q \in Machine /\ q.mem = m.mem /\ q.free = s[1] /\ q.root = m.root /\ q.panic = m.panic
    BY <1>6, <1>7, <1>8, <1>9 DEF Machine
  <2>2. HasFreeList(q) /\ FreeFrames(q) = ListFrames(m, s, n) \ {s[0]}
    BY <1>2, <1>3, <1>4, <1>9, <2>1, AllocLast
  <2> QED
    BY <1>3, <1>5, <2>1, <2>2 DEF q
<1>10. CASE z # 1
  <2>1. f + 1 \in BlockFrames(m, f) /\ BlockFrames(m, f) \subseteq Frame
    <3>1. f + 1 \in f..(f + z - 1)
      BY <1>5, <1>10
    <3> QED
      BY <1>2, <1>3, <1>4, <3>1 DEF BlockFrames, IsFreeList
  <2>2. f + 1 \in Frame
    BY <2>1
  <2>3. b \in Machine /\ b.win = f + 1 /\ b.mem = m.mem /\ b.root = m.root /\ b.panic = m.panic
    BY <1>7, <2>2, PhysLookEffect
  <2>0. \A y \in Machine, i \in Slots, u \in Nat :
          LET p == Poke(y, i, u)
          IN  /\ p \in Machine /\ p.win = y.win /\ p.root = y.root /\ p.panic = y.panic
              /\ p.mem[y.win][i] = u
              /\ \A e \in Slots : e # i => p.mem[y.win][e] = y.mem[y.win][e]
              /\ \A g \in Frame : g # y.win => p.mem[g] = y.mem[g]
    BY PokeEffect
  <2> HIDE DEF b, z, x, f
  <2>4. /\ c \in Machine /\ c.win = f + 1 /\ c.root = m.root /\ c.panic = m.panic
        /\ c.mem[f + 1][0] = z - 1 /\ \A g \in Frame : g # f + 1 => c.mem[g] = m.mem[g]
    <3>1. b \in Machine /\ 0 \in Slots /\ z - 1 \in Nat
      BY <1>5, <2>3, SlotsHeader
    <3>2. /\ c \in Machine /\ c.win = b.win /\ c.root = b.root /\ c.panic = b.panic
          /\ c.mem[b.win][0] = z - 1
          /\ \A g \in Frame : g # b.win => c.mem[g] = b.mem[g]
      BY <2>0, <3>1
    <3> HIDE DEF c
    <3> QED
      BY <2>3, <3>2
  <2> HIDE DEF c
  <2>5. /\ d \in Machine /\ d.root = m.root /\ d.panic = m.panic
        /\ d.mem[f + 1][0] = z - 1 /\ d.mem[f + 1][1] = x
        /\ \A g \in Frame : g # f + 1 => d.mem[g] = m.mem[g]
    <3>1. c \in Machine /\ 0 \in Slots /\ 1 \in Slots /\ x \in Nat
      BY <1>5, <2>4, SlotsHeader
    <3>2. /\ d \in Machine /\ d.root = c.root /\ d.panic = c.panic
          /\ d.mem[c.win][1] = x
          /\ \A e \in Slots : e # 1 => d.mem[c.win][e] = c.mem[c.win][e]
          /\ \A g \in Frame : g # c.win => d.mem[g] = c.mem[g]
      BY <2>0, <3>1, SMTT(30)
    <3> HIDE DEF d
    <3> QED
      BY <2>4, <3>1, <3>2
  <2> HIDE DEF d
  <2>6. q \in Machine /\ q.mem = d.mem /\ q.root = m.root /\ q.panic = m.panic /\ q.free = f + 1
    BY <1>8, <1>10, <2>2, <2>5 DEF Machine
  <2>7. s[0] = f /\ z = m.mem[f][0] /\ x = m.mem[f][1]
    BY <1>3 DEF f, z, x
  <2>8. /\ HasFreeList(q) /\ FreeFrames(q) = ListFrames(m, s, n) \ {s[0]}
        /\ s[0] + 1 \in ListFrames(m, s, n)
    BY <1>2, <1>4, <1>10, <2>5, <2>6, <2>7, AllocFirst
  <2>9. \A g \in Frame \ FreeFrames(m) : q.mem[g] = m.mem[g]
    BY <1>5, <2>5, <2>6, <2>7, <2>8
  <2> QED
    BY <1>5, <2>6, <2>7, <2>8, <2>9 DEF q, f
<1> QED
  BY <1>9, <1>10

-----------------------------------------------------------------------------
(***************************************************************************)
(* The page tables as a tree                                               *)
(***************************************************************************)

\* The frame that the walk for page v has reached after k entries.
Reach(m, v, k) == IF m.root = 0 THEN NoFrame ELSE Walk(m, v)[k]
\* What an entry says.
Points(w) == IF HasP(w) THEN Addr(w) ELSE NoFrame

\* Pages u and v have the same indices in the first k tables.
Same(u, v, k) == \A l \in (Levels - k)..(Levels - 1) : Index(u, l) = Index(v, l)

\* One more step of the walk.
LEMMA ReachNext ==
  ASSUME NEW m, NEW v, NEW k \in 0..(Levels - 1), Reach(m, v, k) \in Frame \cup {NoFrame}
  PROVE  Reach(m, v, k + 1) =
            IF Reach(m, v, k) = NoFrame THEN NoFrame
            ELSE Points(m.mem[Reach(m, v, k)][Index(v, Levels - 1 - k)])
<1>1. CASE m.root = 0
  BY <1>1 DEF Reach
<1>2. CASE m.root # 0
  <2>1. k + 1 \in 1..Levels /\ (k + 1) - 1 = k /\ Levels - (k + 1) = Levels - 1 - k
    BY PageTablesAssumption
  <2>2. Walk(m, v)[k + 1] = Child(m, Index(v, Levels - 1 - k))[Walk(m, v)[k]]
    BY <2>1, WalkSteps
  <2>3. Walk(m, v)[k] \in Frame \cup {NoFrame}
    BY <1>2 DEF Reach
  <2> QED
    BY <1>2, <2>2, <2>3 DEF Reach, Child, Points
<1> QED
  BY <1>1, <1>2

\* Pages with the same indices share the tables.
LEMMA SameReach ==
  ASSUME NEW m, NEW u, NEW v, NEW j \in 0..Levels, Same(u, v, j)
  PROVE  \A k \in 0..j : Reach(m, u, k) = Reach(m, v, k)
<1>1. CASE m.root = 0
  BY <1>1 DEF Reach
<1>2. CASE m.root # 0
  <2> DEFINE G == {k \in 0..j : Walk(m, u)[k] = Walk(m, v)[k]}
  <2>0. j \in Nat /\ Levels \in Nat
    BY PageTablesAssumption
  <2>1. 0 \in G
    BY <2>0, WalkSteps
  <2>2. ASSUME NEW k \in 0..(j - 1), k \in G PROVE k + 1 \in G
    <3>1. /\ k + 1 \in 1..Levels /\ (k + 1) - 1 = k /\ k + 1 \in 0..j
          /\ Levels - (k + 1) \in (Levels - j)..(Levels - 1)
      BY <2>0
    <3>2. Index(u, Levels - (k + 1)) = Index(v, Levels - (k + 1))
      BY <3>1 DEF Same
    <3>3. /\ Walk(m, u)[k + 1] = Child(m, Index(u, Levels - (k + 1)))[Walk(m, u)[k]]
          /\ Walk(m, v)[k + 1] = Child(m, Index(v, Levels - (k + 1)))[Walk(m, v)[k]]
      BY <3>1, WalkSteps
    <3> QED
      BY <2>2, <3>1, <3>2, <3>3
  <2>3. \A k \in 0..j : k \in G
    <3> HIDE DEF G
    <3> QED
      BY <2>0, <2>1, <2>2, UpTo
  <2> QED
    BY <2>3 DEF Reach
<1> QED
  BY <1>1, <1>2

\* Same, one index further.
LEMMA SameMore ==
  ASSUME NEW u, NEW v, NEW k \in 0..(Levels - 1)
  PROVE  Same(u, v, k + 1) <=> Same(u, v, k) /\ Index(u, Levels - 1 - k) = Index(v, Levels - 1 - k)
<1>1. (Levels - (k + 1))..(Levels - 1) = (Levels - k)..(Levels - 1) \cup {Levels - 1 - k}
  BY PageTablesAssumption
<1> QED
  BY <1>1 DEF Same

\* Same for fewer indices.
LEMMA SameLess ==
  ASSUME NEW u, NEW v, NEW j \in 0..Levels, NEW k \in 0..j, Same(u, v, j)
  PROVE  Same(u, v, k)
<1>1. \A l \in (Levels - k)..(Levels - 1) : l \in (Levels - j)..(Levels - 1)
  BY PageTablesAssumption
<1> QED
  BY <1>1 DEF Same

\* Same is symmetric.
LEMMA SameSymmetric ==
  ASSUME NEW u, NEW v, NEW k
  PROVE  Same(u, v, k) <=> Same(v, u, k)
  BY DEF Same

\* Same is transitive.
LEMMA SameTransitive ==
  ASSUME NEW u, NEW v, NEW x, NEW k, Same(u, v, k), Same(v, x, k)
  PROVE  Same(u, x, k)
  BY DEF Same

\* All pages share the root.
LEMMA SameNone == ASSUME NEW u, NEW v PROVE Same(u, v, 0)
  BY PageTablesAssumption DEF Same

\* A number is made of its quotient and its remainder.
LEMMA DivMod ==
  ASSUME NEW D \in Nat \ {0}, NEW x \in Nat
  PROVE  x \div D \in Nat /\ x % D \in 0..(D - 1) /\ x = (x % D) + D * (x \div D)
  OBVIOUS

\* What a quotient is.
LEMMA QuotientBounds ==
  ASSUME NEW D \in Nat \ {0}, NEW x \in Nat
  PROVE  LET q == x \div D IN q \in Nat /\ D * q <= x /\ x + 1 <= D * (q + 1)
<1> DEFINE q == x \div D
           r == x % D
<1>1. q \in Nat /\ r \in 0..(D - 1) /\ x = r + D * q
  BY DivMod
<1> HIDE DEF q, r
<1>2. D * (q + 1) = D * q + D /\ D * q \in Nat
  BY <1>1
<1> QED
  BY <1>1, <1>2 DEF q

\* A quotient of a quotient.
LEMMA QuotientOfQuotient ==
  ASSUME NEW x \in Nat, NEW s \in Nat \ {0}, NEW e \in Nat \ {0}
  PROVE  x \div (e * s) = (x \div s) \div e
<1> DEFINE a == x \div s
           b == a \div e
           p == e * s
<1>1. a \in Nat /\ s * a <= x /\ x + 1 <= s * (a + 1)
  BY QuotientBounds
<1> HIDE DEF a
<1>2. b \in Nat /\ e * b <= a /\ a + 1 <= e * (b + 1)
  BY <1>1, QuotientBounds
<1> HIDE DEF b
<1>3. \A y, z \in Nat : y <= z => s * y <= s * z
  OBVIOUS
<1>4. s * (e * b) <= s * a /\ s * (a + 1) <= s * (e * (b + 1))
  <2>1. e * b \in Nat /\ e * (b + 1) \in Nat /\ a + 1 \in Nat
    BY <1>1, <1>2
  <2> QED
    BY <1>1, <1>2, <1>3, <2>1
<1>5. s * (e * b) = p * b /\ s * (e * (b + 1)) = p * b + p /\ p \in Nat \ {0}
  BY <1>2
<1>6. p * b <= x /\ x < p * b + p /\ p * b \in Nat
  <2>1. s * a \in Nat /\ s * (a + 1) \in Nat /\ p * b \in Nat
    BY <1>1, <1>2, <1>5
  <2> HIDE DEF p
  <2> QED
    BY <1>1, <1>4, <1>5, <2>1
<1> HIDE DEF p
<1>7. \A c \in Nat, y \in Nat, w \in Nat \ {0} : w * c <= y /\ y < w * c + w => y \div w = c
  OBVIOUS
<1> QED
  BY <1>2, <1>5, <1>6, <1>7 DEF b, a, p

\* The indices of a page in all the tables determine the page.
LEMMA SameIsEqual ==
  ASSUME NEW u \in Page, NEW v \in Page, Same(u, v, Levels)
  PROVE  u = v
<1> DEFINE G == {j \in 0..Levels : u \div Span[Levels - j] = v \div Span[Levels - j]}
<1>0. Levels \in Nat /\ Entries \in Nat \ {0} /\ u \in Nat /\ v \in Nat
  BY PageTablesAssumption, SpanDef DEF Page
<1>1. 0 \in G
  <2> DEFINE s == Span[Levels]
  <2>1. s \in Nat \ {0} /\ u < s /\ v < s
    BY <1>0, SpanDef DEF Page
  <2> HIDE DEF s
  <2>2. u \div s = 0 /\ v \div s = 0
    BY <1>0, <2>1
  <2> QED
    BY <1>0, <2>2 DEF s
<1>2. ASSUME NEW j \in 0..(Levels - 1), j \in G PROVE j + 1 \in G
  <2> DEFINE l == Levels - (j + 1)
             s == Span[l]
             a == u \div s
             b == v \div s
  <2>1. /\ l \in 0..Levels /\ l + 1 \in 1..Levels /\ (l + 1) - 1 = l /\ l + 1 = Levels - j
        /\ l \in (Levels - Levels)..(Levels - 1) /\ j + 1 \in 0..Levels
    BY <1>0
  <2>2. s \in Nat \ {0} /\ Span[Levels - j] = Entries * s
    BY <2>1, SpanDef
  <2>3. Index(u, l) = Index(v, l)
    BY <2>1 DEF Same
  <2> HIDE DEF l
  <2>4. a % Entries = b % Entries
    BY <2>3 DEF Index
  <2> HIDE DEF s
  <2>5. a \in Nat /\ b \in Nat
    BY <1>0, <2>2
  <2>6. a \div Entries = b \div Entries
    <3>1. u \div (Entries * s) = a \div Entries /\ v \div (Entries * s) = b \div Entries
      BY <1>0, <2>2, QuotientOfQuotient
    <3> QED
      BY <1>2, <2>2, <3>1
  <2> HIDE DEF a, b
  <2>7. a = b
    <3>1. a = (a % Entries) + Entries * (a \div Entries)
      BY <1>0, <2>5, DivMod
    <3>2. b = (b % Entries) + Entries * (b \div Entries)
      BY <1>0, <2>5, DivMod
    <3> QED
      BY <2>4, <2>6, <3>1, <3>2
  <2> QED
    BY <2>1, <2>7 DEF a, b, s, l
<1>3. \A j \in 0..Levels : j \in G
  <2> HIDE DEF G
  <2> QED
    BY <1>0, <1>1, <1>2, UpTo
<1>4. Levels \in 0..Levels /\ Levels - Levels = 0 /\ Span[0] = 1
  BY <1>0, SpanDef
<1>5. u \div 1 = v \div 1
  BY <1>3, <1>4
<1> QED
  BY <1>0, <1>5

\* The page tables are a tree below frame top: a frame is the table of one
\* level and of one range of pages, and no entry of the last level has F.
Tree(m, top) ==
    /\ m \in Machine
    /\ \A v \in Page : \A k \in 0..(Levels - 1) : Reach(m, v, k) \in {NoFrame} \cup 1..(top - 1)
    /\ \A u, v \in Page : \A j, k \in 0..(Levels - 1) :
          Reach(m, u, j) = Reach(m, v, k) /\ Reach(m, u, j) # NoFrame => j = k /\ Same(u, v, j)
    /\ \A v \in Page :
          Reach(m, v, Levels - 1) # NoFrame =>
              ~HasF(m.mem[Reach(m, v, Levels - 1)][Index(v, 0)])

\* What an entry with P says, and an empty one.
LEMMA PointsParts ==
  /\ Points(0) = NoFrame
  /\ \A z \in Nat : Points(PageEntry(z, 1)) = z /\ PageEntry(z, 1) \in Nat /\ ~HasF(PageEntry(z, 1))
<1>1. ~HasP(0)
  BY DEF HasP
<1> QED
  BY <1>1, EntryParts DEF Points

\* An index of a page is a slot of a table.
LEMMA IndexOf ==
  ASSUME NEW v \in Page, NEW k \in 0..(Levels - 1)
  PROVE  Index(v, Levels - 1 - k) \in Slots
<1>1. Levels - 1 - k \in 0..(Levels - 1)
  BY PageTablesAssumption
<1> QED
  BY <1>1, IndexType DEF Slots

\* The tables of a tree are frames below its top.
LEMMA TreeReach ==
  ASSUME NEW m, NEW top \in Nat, top <= Frames, Tree(m, top), NEW v \in Page,
         NEW k \in 0..(Levels - 1)
  PROVE  /\ Reach(m, v, k) \in Frame \cup {NoFrame}
         /\ Reach(m, v, k) # NoFrame => Reach(m, v, k) \in Frame /\ Reach(m, v, k) < top
<1>1. Reach(m, v, k) \in {NoFrame} \cup 1..(top - 1)
  BY DEF Tree
<1> QED
  BY <1>1, PageTablesAssumption DEF Frame

\* A new table at level j of the path of v.
Links(m, q, v, j, t, z) ==
    /\ q.root = m.root
    /\ \A k \in Slots : q.mem[z][k] = 0
    /\ q.mem[t][Index(v, Levels - j)] = PageEntry(z, 1)
    /\ \A k \in Slots \ {Index(v, Levels - j)} : q.mem[t][k] = m.mem[t][k]
    /\ \A f \in Frame \ {z, t} : q.mem[f] = m.mem[f]

\* What the walk finds once a new table is linked in.
LEMMA LinkReach ==
  ASSUME NEW m, NEW top \in Nat, Tree(m, top), NEW v \in Page, NEW j \in 1..(Levels - 1),
         NEW z \in Frame, z >= top, NEW t \in Frame, t = Reach(m, v, j - 1),
         Reach(m, v, j) = NoFrame, NEW q \in Machine, Links(m, q, v, j, t, z)
  PROVE  \A u \in Page : \A k \in 0..Levels :
            Reach(q, u, k) = IF k = j /\ Same(u, v, j) THEN z ELSE Reach(m, u, k)
<1> SUFFICES ASSUME NEW u \in Page
             PROVE  \A k \in 0..Levels :
                      Reach(q, u, k) = IF k = j /\ Same(u, v, j) THEN z ELSE Reach(m, u, k)
  OBVIOUS
<1> DEFINE Want(k) == IF k = j /\ Same(u, v, j) THEN z ELSE Reach(m, u, k)
           G == {k \in 0..Levels : Reach(q, u, k) = Want(k)}
<1>0. /\ Levels \in Nat \ {0} /\ top <= Frames /\ j \in Nat /\ z \in Nat
      /\ j - 1 \in 0..(Levels - 1) /\ j \in 0..(Levels - 1) /\ NoFrame \notin Frame
  BY PageTablesAssumption, NoFrameIsNone DEF Frame
<1>t. t # z /\ t < top
  BY <1>0, TreeReach
<1>1. 0 \in G
  <2>1. Reach(q, u, 0) = Reach(m, u, 0)
    BY WalkSteps DEF Reach, Links
  <2> QED
    BY <1>0, <2>1
<1>2. ASSUME NEW k \in 0..(Levels - 1), k \in G PROVE k + 1 \in G
  <2> DEFINE s == Reach(m, u, k)
             x == Index(u, Levels - 1 - k)
  <2>0. k + 1 \in 0..Levels /\ x \in Slots /\ k \in Nat
    BY <1>0, IndexOf
  <2>1. /\ s \in Frame \cup {NoFrame} /\ s # z
        /\ Reach(m, u, k + 1) = IF s = NoFrame THEN NoFrame ELSE Points(m.mem[s][x])
    <3>1. s \in Frame \cup {NoFrame} /\ (s # NoFrame => s < top)
      BY <1>0, TreeReach
    <3>2. s # z
      BY <1>0, <3>1
    <3> QED
      BY <3>1, <3>2, ReachNext
  <2>2. Reach(q, u, k) = Want(k)
    BY <1>2
  <2>3. Reach(q, u, k) \in Frame \cup {NoFrame}
    BY <2>1, <2>2
  <2>4. Reach(q, u, k + 1) = IF Want(k) = NoFrame THEN NoFrame ELSE Points(q.mem[Want(k)][x])
    BY <2>2, <2>3, ReachNext
  <2>5. CASE k = j - 1
    <3>1. Want(k) = s /\ k # j /\ k + 1 = j /\ Levels - 1 - k = Levels - j
      BY <1>0, <2>5
    <3>2. Same(u, v, j) <=> Same(u, v, k) /\ x = Index(v, Levels - j)
      BY <3>1, SameMore
    <3>3. Same(u, v, k) => s = t
      <4>1. k \in 0..k /\ k \in 0..Levels
        BY <1>0
      <4> QED
        BY <2>5, <4>1, SameReach
    <3>4. s = t => Same(u, v, k)
      BY <1>0, <2>5 DEF Tree
    <3>5. CASE s # t
      <4>1. ~Same(u, v, j)
        BY <3>2, <3>3, <3>5
      <4>2. s # NoFrame => q.mem[s] = m.mem[s]
        BY <2>1, <3>5 DEF Links
      <4> QED
        BY <2>0, <2>1, <2>4, <3>1, <4>1, <4>2
    <3>6. CASE s = t /\ x # Index(v, Levels - j)
      <4>1. ~Same(u, v, j)
        BY <3>2, <3>6
      <4>2. q.mem[s][x] = m.mem[s][x]
        BY <2>0, <3>6 DEF Links
      <4> QED
        BY <2>0, <2>1, <2>4, <3>1, <4>1, <4>2
    <3>7. CASE s = t /\ x = Index(v, Levels - j)
      <4>1. Same(u, v, j)
        BY <3>2, <3>4, <3>7
      <4>2. Points(q.mem[s][x]) = z
        BY <1>0, <3>7, PointsParts DEF Links
      <4> QED
        BY <1>0, <2>0, <2>4, <3>1, <3>7, <4>1, <4>2
    <3> QED
      BY <3>5, <3>6, <3>7
  <2>6. CASE k = j /\ Same(u, v, j)
    <3>1. s = NoFrame
      <4>1. j \in 0..j /\ j \in 0..Levels
        BY <1>0
      <4> QED
        BY <2>6, <4>1, SameReach
    <3>2. q.mem[z][x] = 0 /\ z # NoFrame
      BY <1>0, <2>0 DEF Links
    <3>3. k + 1 # j
      BY <1>0, <2>6
    <3> QED
      BY <2>0, <2>1, <2>4, <2>6, <3>1, <3>2, <3>3, PointsParts
  <2>7. CASE k # j - 1 /\ ~(k = j /\ Same(u, v, j))
    <3>1. Want(k) = s /\ k + 1 # j
      BY <1>0, <2>0, <2>7
    <3>2. s # NoFrame => s # t
      BY <1>0, <2>7 DEF Tree
    <3>3. s # NoFrame => q.mem[s] = m.mem[s]
      BY <2>1, <3>2 DEF Links
    <3> QED
      BY <2>0, <2>1, <2>4, <3>1, <3>3
  <2> QED
    BY <2>5, <2>6, <2>7
<1>3. \A k \in 0..Levels : k \in G
  <2> HIDE DEF G
  <2> QED
    BY <1>0, <1>1, <1>2, UpTo
<1> QED
  BY <1>3

\* A tree with one more table is a tree.
LEMMA LinkTree ==
  ASSUME NEW m, NEW top \in Nat, Tree(m, top), NEW v \in Page, NEW j \in 1..(Levels - 1),
         NEW z \in Frame, z >= top, NEW t \in Frame, t = Reach(m, v, j - 1),
         Reach(m, v, j) = NoFrame, NEW q \in Machine, Links(m, q, v, j, t, z)
  PROVE  Tree(q, z + 1)
<1>0. /\ Levels \in Nat \ {0} /\ top <= Frames /\ j \in Nat /\ z \in Nat /\ top \in Nat
      /\ j - 1 \in 0..(Levels - 1) /\ j \in 0..(Levels - 1) /\ NoFrame \notin Frame
      /\ \A k \in 0..(Levels - 1) : k \in 0..Levels
  BY PageTablesAssumption, NoFrameIsNone DEF Frame
<1>1. \A u \in Page : \A k \in 0..(Levels - 1) :
          Reach(q, u, k) = IF k = j /\ Same(u, v, j) THEN z ELSE Reach(m, u, k)
  BY <1>0, LinkReach
<1>2. \A u \in Page : \A k \in 0..(Levels - 1) : Reach(m, u, k) \in {NoFrame} \cup 1..(top - 1)
  BY DEF Tree
<1>3. \A u \in Page : \A k \in 0..(Levels - 1) : Reach(m, u, k) # z
  <2>1. z \notin {NoFrame} \cup 1..(top - 1)
    BY <1>0
  <2> QED
    BY <1>2, <2>1
<1>4. t \in 1..(top - 1) /\ t # z
  BY <1>0, <1>2, <1>3
<1>5. ASSUME NEW u \in Page, NEW k \in 0..(Levels - 1)
      PROVE  Reach(q, u, k) \in {NoFrame} \cup 1..((z + 1) - 1)
  BY <1>0, <1>1, <1>2, <1>4
<1>6. ASSUME NEW u \in Page, NEW w \in Page, NEW a \in 0..(Levels - 1), NEW b \in 0..(Levels - 1),
             Reach(q, u, a) = Reach(q, w, b), Reach(q, u, a) # NoFrame
      PROVE  a = b /\ Same(u, w, a)
  <2>1. CASE a = j /\ Same(u, v, j)
    <3>1. b = j /\ Same(w, v, j)
      BY <1>1, <1>3, <1>6, <2>1
    <3> QED
      BY <2>1, <3>1, SameSymmetric, SameTransitive
  <2>2. CASE ~(a = j /\ Same(u, v, j))
    <3>1. Reach(q, u, a) = Reach(m, u, a) /\ ~(b = j /\ Same(w, v, j))
      BY <1>1, <1>3, <1>6, <2>2
    <3>2. Reach(q, w, b) = Reach(m, w, b)
      BY <1>1, <3>1
    <3> QED
      BY <1>6, <3>1, <3>2 DEF Tree
  <2> QED
    BY <2>1, <2>2
<1>7. ASSUME NEW u \in Page, Reach(q, u, Levels - 1) # NoFrame
      PROVE  ~HasF(q.mem[Reach(q, u, Levels - 1)][Index(u, 0)])
  <2>0. Levels - 1 \in 0..(Levels - 1) /\ Index(u, 0) \in Slots
    BY <1>0, IndexType DEF Slots
  <2>1. CASE Levels - 1 = j /\ Same(u, v, j)
    <3>1. q.mem[z][Index(u, 0)] = 0 /\ ~HasF(0)
      BY <2>0 DEF Links, HasF
    <3> QED
      BY <1>1, <2>0, <2>1, <3>1
  <2>2. CASE ~(Levels - 1 = j /\ Same(u, v, j))
    <3> DEFINE s == Reach(m, u, Levels - 1)
    <3>1. Reach(q, u, Levels - 1) = s
      BY <1>1, <2>0, <2>2
    <3>2. s # z /\ s \in Frame
      <4>1. s \in 1..(top - 1) /\ s # z
        BY <1>2, <1>3, <1>7, <2>0, <3>1
      <4> QED
        BY <1>0, <4>1, PageTablesAssumption DEF Frame
    <3>3. s # t
      <4>1. j - 1 # Levels - 1
        BY <1>0
      <4> QED
        BY <1>0, <1>7, <2>0, <3>1, <4>1 DEF Tree
    <3>4. q.mem[s] = m.mem[s]
      BY <3>2, <3>3 DEF Links
    <3>5. ~HasF(m.mem[s][Index(u, 0)])
      BY <1>7, <3>1 DEF Tree
    <3> QED
      BY <3>1, <3>4, <3>5
  <2> QED
    BY <2>1, <2>2
<1> QED
  BY <1>5, <1>6, <1>7 DEF Tree

\* The first table, in frame z.
LEMMA RootReach ==
  ASSUME NEW q \in Machine, NEW z \in Frame \ {0}, q.root = z, \A k \in Slots : q.mem[z][k] = 0
  PROVE  \A u \in Page : \A k \in 0..Levels : Reach(q, u, k) = IF k = 0 THEN z ELSE NoFrame
<1> SUFFICES ASSUME NEW u \in Page
             PROVE  \A k \in 0..Levels : Reach(q, u, k) = IF k = 0 THEN z ELSE NoFrame
  OBVIOUS
<1> DEFINE G == {k \in 0..Levels : Reach(q, u, k) = IF k = 0 THEN z ELSE NoFrame}
<1>0. Levels \in Nat \ {0} /\ NoFrame \notin Frame
  BY PageTablesAssumption, NoFrameIsNone
<1>1. 0 \in G
  BY <1>0, WalkSteps DEF Reach
<1>2. ASSUME NEW k \in 0..(Levels - 1), k \in G PROVE k + 1 \in G
  <2>1. k + 1 \in 0..Levels /\ k + 1 # 0 /\ Index(u, Levels - 1 - k) \in Slots
    BY <1>0, IndexOf
  <2>2. Reach(q, u, k) \in Frame \cup {NoFrame}
    BY <1>2
  <2>3. Reach(q, u, k + 1) = IF Reach(q, u, k) = NoFrame THEN NoFrame
                             ELSE Points(q.mem[Reach(q, u, k)][Index(u, Levels - 1 - k)])
    BY <2>2, ReachNext
  <2>4. Reach(q, u, k + 1) = NoFrame
    BY <1>0, <1>2, <2>1, <2>3, PointsParts
  <2> QED
    BY <2>1, <2>4
<1>3. \A k \in 0..Levels : k \in G
  <2> HIDE DEF G
  <2> QED
    BY <1>0, <1>1, <1>2, UpTo
<1> QED
  BY <1>3

\* A tree with nothing but an empty root is a tree.
LEMMA RootTree ==
  ASSUME NEW q \in Machine, NEW z \in Frame \ {0}, q.root = z, \A k \in Slots : q.mem[z][k] = 0
  PROVE  Tree(q, z + 1)
<1>0. /\ Levels \in Nat \ {0} /\ NoFrame \notin Frame /\ z \in Nat \ {0}
      /\ \A k \in 0..(Levels - 1) : k \in 0..Levels
  BY PageTablesAssumption, NoFrameIsNone DEF Frame
<1>1. \A u \in Page : \A k \in 0..(Levels - 1) : Reach(q, u, k) = IF k = 0 THEN z ELSE NoFrame
  BY <1>0, RootReach
<1>2. \A u \in Page : Levels - 1 \in 0..(Levels - 1) /\ Index(u, 0) \in Slots
  BY <1>0, IndexType DEF Slots
<1>3. ~HasF(0)
  BY DEF HasF
<1>4. \A u \in Page : Reach(q, u, Levels - 1) # NoFrame
                        => ~HasF(q.mem[Reach(q, u, Levels - 1)][Index(u, 0)])
  BY <1>1, <1>2, <1>3
<1>5. \A u \in Page : \A k \in 0..(Levels - 1) : Reach(q, u, k) \in {NoFrame} \cup 1..((z + 1) - 1)
  BY <1>0, <1>1
<1> QED
  BY <1>1, <1>4, <1>5, SameNone DEF Tree

\* The tables of m are the tables of q, but for one entry of the last level.
LEMMA LeafReach ==
  ASSUME NEW m, NEW top \in Nat, top <= Frames, Tree(m, top), NEW v \in Page,
         NEW t \in Frame, t = Reach(m, v, Levels - 1), NEW q \in Machine, q.root = m.root,
         \A f \in Frame : f < top /\ f # t => q.mem[f] = m.mem[f],
         \A k \in Slots \ {Index(v, 0)} : q.mem[t][k] = m.mem[t][k]
  PROVE  /\ \A u \in Page : \A k \in 0..(Levels - 1) : Reach(q, u, k) = Reach(m, u, k)
         /\ \A u \in Page \ {v} : Reach(q, u, Levels) = Reach(m, u, Levels)
         /\ Reach(q, v, Levels) = Points(q.mem[t][Index(v, 0)])
<1>0. Levels \in Nat \ {0} /\ NoFrame \notin Frame /\ Levels - 1 \in 0..(Levels - 1)
  BY PageTablesAssumption, NoFrameIsNone
<1>1. ASSUME NEW u \in Page, NEW k \in 0..(Levels - 1), Reach(q, u, k) = Reach(m, u, k),
             k # Levels - 1 \/ u # v
      PROVE  Reach(q, u, k + 1) = Reach(m, u, k + 1)
  <2> DEFINE s == Reach(m, u, k)
             x == Index(u, Levels - 1 - k)
  <2>1. s \in Frame \cup {NoFrame} /\ (s # NoFrame => s \in Frame /\ s < top)
    BY TreeReach
  <2>2. /\ Reach(m, u, k + 1) = IF s = NoFrame THEN NoFrame ELSE Points(m.mem[s][x])
        /\ Reach(q, u, k + 1) = IF s = NoFrame THEN NoFrame ELSE Points(q.mem[s][x])
    BY <1>1, <2>1, ReachNext
  <2>3. x \in Slots
    BY IndexOf
  <2>4. CASE s = NoFrame
    BY <2>2, <2>4
  <2>5. CASE s # NoFrame /\ s # t
    BY <2>1, <2>2, <2>5
  <2>6. CASE s # NoFrame /\ s = t
    <3>1. k = Levels - 1 /\ Same(u, v, k)
      BY <1>0, <2>6 DEF Tree
    <3>2. u # v
      BY <1>1, <3>1
    <3>3. x # Index(v, 0)
      <4>1. Levels - 1 - k = 0 /\ k + 1 = Levels
        BY <1>0, <3>1
      <4>2. Same(u, v, k + 1) <=> Same(u, v, k) /\ x = Index(v, Levels - 1 - k)
        BY SameMore
      <4> QED
        BY <3>1, <3>2, <4>1, <4>2, SameIsEqual
    <3> QED
      BY <2>2, <2>3, <2>6, <3>3
  <2> QED
    BY <2>4, <2>5, <2>6
<1>2. ASSUME NEW u \in Page PROVE \A k \in 0..(Levels - 1) : Reach(q, u, k) = Reach(m, u, k)
  <2> DEFINE G == {k \in 0..(Levels - 1) : Reach(q, u, k) = Reach(m, u, k)}
  <2>1. 0 \in G
    BY <1>0, WalkSteps DEF Reach
  <2>2. ASSUME NEW k \in 0..((Levels - 1) - 1), k \in G PROVE k + 1 \in G
    <3>1. k \in 0..(Levels - 1) /\ k # Levels - 1 /\ k + 1 \in 0..(Levels - 1)
      BY <1>0
    <3> QED
      BY <1>1, <2>2, <3>1
  <2>3. Levels - 1 \in Nat
    BY <1>0
  <2>4. \A k \in 0..(Levels - 1) : k \in G
    <3> HIDE DEF G
    <3> QED
      BY <2>1, <2>2, <2>3, UpTo
  <2> QED
    BY <2>4
<1>3. (Levels - 1) + 1 = Levels /\ Levels - 1 - (Levels - 1) = 0
  BY <1>0
<1>4. \A u \in Page \ {v} : Reach(q, u, Levels) = Reach(m, u, Levels)
  BY <1>0, <1>1, <1>2, <1>3
<1>5. Reach(q, v, Levels) = Points(q.mem[t][Index(v, 0)])
  <2>1. Reach(q, v, Levels - 1) = t /\ t # NoFrame
    BY <1>0, <1>2
  <2> QED
    BY <1>0, <1>3, <2>1, ReachNext
<1> QED
  BY <1>2, <1>4, <1>5

\* A tree with another entry of the last level is a tree.
LEMMA LeafTree ==
  ASSUME NEW m, NEW top \in Nat, top <= Frames, Tree(m, top), NEW v \in Page,
         NEW t \in Frame, t = Reach(m, v, Levels - 1), NEW q \in Machine, q.root = m.root,
         \A f \in Frame : f < top /\ f # t => q.mem[f] = m.mem[f],
         \A k \in Slots \ {Index(v, 0)} : q.mem[t][k] = m.mem[t][k],
         ~HasF(q.mem[t][Index(v, 0)])
  PROVE  Tree(q, top)
<1>0. Levels \in Nat \ {0} /\ NoFrame \notin Frame /\ Levels - 1 \in 0..(Levels - 1)
  BY PageTablesAssumption, NoFrameIsNone
<1>1. \A u \in Page : \A k \in 0..(Levels - 1) : Reach(q, u, k) = Reach(m, u, k)
  BY LeafReach
<1>2. ASSUME NEW u \in Page, Reach(q, u, Levels - 1) # NoFrame
      PROVE  ~HasF(q.mem[Reach(q, u, Levels - 1)][Index(u, 0)])
  <2> DEFINE s == Reach(m, u, Levels - 1)
  <2>1. Reach(q, u, Levels - 1) = s /\ Index(u, 0) \in Slots
    BY <1>0, <1>1, IndexType DEF Slots
  <2>2. s \in Frame /\ s < top
    BY <1>0, <1>2, <2>1, TreeReach
  <2>3. ~HasF(m.mem[s][Index(u, 0)])
    BY <1>2, <2>1 DEF Tree
  <2> QED
    BY <2>1, <2>2, <2>3
<1> QED
  BY <1>1, <1>2 DEF Tree

\* Memory outside the tables does not matter.
LEMMA TreeKept ==
  ASSUME NEW m, NEW top \in Nat, top <= Frames, Tree(m, top), NEW q \in Machine,
         q.root = m.root, \A f \in Frame : f < top => q.mem[f] = m.mem[f]
  PROVE  /\ Tree(q, top)
         /\ \A u \in Page : \A k \in 0..Levels : Reach(q, u, k) = Reach(m, u, k)
<1>0. Levels \in Nat \ {0} /\ NoFrame \notin Frame /\ Levels - 1 \in 0..(Levels - 1)
  BY PageTablesAssumption, NoFrameIsNone
<1>1. ASSUME NEW u \in Page PROVE \A k \in 0..Levels : Reach(q, u, k) = Reach(m, u, k)
  <2> DEFINE G == {k \in 0..Levels : Reach(q, u, k) = Reach(m, u, k)}
  <2>1. 0 \in G
    BY <1>0, WalkSteps DEF Reach
  <2>2. ASSUME NEW k \in 0..(Levels - 1), k \in G PROVE k + 1 \in G
    <3> DEFINE s == Reach(m, u, k)
               x == Index(u, Levels - 1 - k)
    <3>1. s \in Frame \cup {NoFrame} /\ (s # NoFrame => s \in Frame /\ s < top)
      BY TreeReach
    <3>2. /\ Reach(m, u, k + 1) = IF s = NoFrame THEN NoFrame ELSE Points(m.mem[s][x])
          /\ Reach(q, u, k + 1) = IF s = NoFrame THEN NoFrame ELSE Points(q.mem[s][x])
      BY <2>2, <3>1, ReachNext
    <3>3. k + 1 \in 0..Levels
      BY <1>0
    <3> QED
      BY <3>1, <3>2, <3>3
  <2>3. \A k \in 0..Levels : k \in G
    <3> HIDE DEF G
    <3> QED
      BY <1>0, <2>1, <2>2, UpTo
  <2> QED
    BY <2>3
<1>2. \A k \in 0..(Levels - 1) : k \in 0..Levels
  BY <1>0
<1>3. \A u \in Page : \A k \in 0..(Levels - 1) : Reach(q, u, k) = Reach(m, u, k)
  BY <1>1, <1>2
<1>4. ASSUME NEW u \in Page, Reach(q, u, Levels - 1) # NoFrame
      PROVE  ~HasF(q.mem[Reach(q, u, Levels - 1)][Index(u, 0)])
  <2>1. Reach(q, u, Levels - 1) = Reach(m, u, Levels - 1)
    BY <1>0, <1>3
  <2>2. Reach(m, u, Levels - 1) \in Frame /\ Reach(m, u, Levels - 1) < top
    BY <1>0, <1>4, <2>1, TreeReach
  <2>3. ~HasF(m.mem[Reach(m, u, Levels - 1)][Index(u, 0)])
    BY <1>4, <2>1 DEF Tree
  <2> QED
    BY <2>1, <2>2, <2>3
<1> QED
  BY <1>1, <1>3, <1>4 DEF Tree

-----------------------------------------------------------------------------
(***************************************************************************)
(* map_page of the kernel in a tree                                        *)
(***************************************************************************)

\* The tables above one that is there are there.
LEMMA ReachAbove ==
  ASSUME NEW m, NEW top \in Nat, top <= Frames, Tree(m, top), NEW v \in Page,
         Reach(m, v, Levels - 1) # NoFrame
  PROVE  \A k \in 0..(Levels - 1) : Reach(m, v, k) # NoFrame
<1> SUFFICES ASSUME NEW j \in 0..(Levels - 1), Reach(m, v, j) = NoFrame PROVE FALSE
  OBVIOUS
<1> DEFINE n == Levels - 1 - j
           G == {k \in 0..n : Reach(m, v, j + k) = NoFrame}
<1>0. /\ Levels \in Nat /\ j \in Nat /\ n \in Nat /\ n \in 0..n /\ j + n = Levels - 1
      /\ j + 0 = j
  BY PageTablesAssumption
<1>1. 0 \in G
  BY <1>0
<1>2. ASSUME NEW k \in 0..(n - 1), k \in G PROVE k + 1 \in G
  <2>1. j + k \in 0..(Levels - 1) /\ (j + k) + 1 = j + (k + 1) /\ k + 1 \in 0..n
    BY <1>0
  <2>2. Reach(m, v, (j + k) + 1) = NoFrame
    BY <1>2, <2>1, ReachNext
  <2> QED
    BY <2>1, <2>2
<1>3. \A k \in 0..n : k \in G
  <2> HIDE DEF G, n
  <2> QED
    BY <1>0, <1>1, <1>2, UpTo
<1> QED
  BY <1>0, <1>3

\* Setting P where it is set changes nothing.
LEMMA SetPKeeps ==
  ASSUME NEW w \in Nat, HasP(w)
  PROVE  SetFlags(w, 1) = w
<1>1. HasP(1) /\ ~HasF(1)
  BY DEF HasP, HasF
<1> QED
  BY <1>1 DEF SetFlags, HasP, HasF, Addr

\* map_page and unmap_page go down the tables without changing them.
LEMMA DescentKeeps ==
  ASSUME NEW m, NEW top \in Nat, top <= Frames, Tree(m, top), NEW v \in Page,
         Reach(m, v, Levels - 1) # NoFrame
  PROVE  LET c == Descent(m, v, 1)[Levels - 1]
         IN  /\ c.m \in Machine /\ c.table = Reach(m, v, Levels - 1)
             /\ c.m.mem = m.mem /\ c.m.free = m.free /\ c.m.root = m.root
<1> DEFINE T == Descent(m, v, 1)
           Good(c, k) ==
             /\ c = [m |-> c.m, table |-> c.table, flags |-> 1]
             /\ c.m \in Machine /\ c.table = Reach(m, v, k)
             /\ c.m.mem = m.mem /\ c.m.free = m.free /\ c.m.root = m.root
           G == {k \in 0..(Levels - 1) : Good(T[k], k)}
<1>0. /\ Levels \in Nat \ {0} /\ Levels - 1 \in Nat /\ Levels - 1 \in 0..(Levels - 1)
      /\ m \in Machine /\ NoFrame \notin Frame
  BY PageTablesAssumption, NoFrameIsNone DEF Tree
<1>1. /\ T[0] = [m |-> m, table |-> m.root, flags |-> 1]
      /\ \A k \in 1..(Levels - 1) : T[k] = Descend(T[k - 1], Index(v, Levels - k))
  BY DescentSteps DEF IsDescent
<1> HIDE DEF T
<1>2. \A k \in 0..(Levels - 1) : Reach(m, v, k) # NoFrame /\ Reach(m, v, k) \in Frame
  BY ReachAbove, TreeReach
<1>3. 0 \in G
  <2>1. Reach(m, v, 0) = m.root
    BY <1>0, <1>2, WalkSteps DEF Reach
  <2> QED
    BY <1>0, <1>1, <2>1
<1>4. ASSUME NEW k \in 0..((Levels - 1) - 1), k \in G PROVE k + 1 \in G
  <2>1. /\ k + 1 \in 1..(Levels - 1) /\ (k + 1) - 1 = k /\ k + 1 \in 0..(Levels - 1)
        /\ k \in 0..(Levels - 1) /\ Levels - (k + 1) = Levels - 1 - k
    BY <1>0
  <2>2. PICK p, t : p = T[k].m /\ t = T[k].table
    OBVIOUS
  <2>3. /\ T[k] = [m |-> p, table |-> t, flags |-> 1] /\ p \in Machine /\ t = Reach(m, v, k)
        /\ p.mem = m.mem /\ p.free = m.free /\ p.root = m.root
    BY <1>4, <2>2
  <2>4. PICK x : x = Index(v, Levels - 1 - k)
    OBVIOUS
  <2>5. x \in Slots /\ t \in Frame /\ t # NoFrame
    BY <1>2, <2>1, <2>3, <2>4, IndexOf
  <2>6. PICK w : w = m.mem[t][x]
    OBVIOUS
  <2>7. w \in Nat
    BY <1>0, <2>5, <2>6 DEF Machine
  <2>8. Reach(m, v, k + 1) = Points(w)
    <3>1. Reach(m, v, k) \in Frame \cup {NoFrame}
      BY <1>2, <2>1
    <3> QED
      BY <2>1, <2>3, <2>4, <2>5, <2>6, <3>1, ReachNext
  <2>9. HasP(w) /\ Reach(m, v, k + 1) = Addr(w)
    BY <1>2, <2>1, <2>8 DEF Points
  <2> DEFINE l == PhysLook(p, t)
             q == Poke(l, x, w)
  <2>10. l \in Machine /\ l.win = t /\ l.mem = m.mem /\ l.free = m.free /\ l.root = m.root
    BY <2>3, <2>5, PhysLookEffect
  <2>11. T[k + 1] = [m |-> q, table |-> Addr(w), flags |-> 1]
    <3>1. Peek(l, x) = w
      BY <2>6, <2>10 DEF Peek
    <3>2. SetFlags(w, 1) = w
      BY <2>7, <2>9, SetPKeeps
    <3>3. T[k + 1] = Descend(T[k], x)
      BY <1>1, <2>1, <2>4
    <3> HIDE DEF l
    <3>4. Descend([m |-> p, table |-> t, flags |-> 1], x)
            = [m |-> Poke(l, x, w), table |-> Addr(w), flags |-> 1]
      BY <3>1, <3>2 DEF Descend, l
    <3> QED
      BY <2>3, <3>3, <3>4
  <2> HIDE DEF l
  <2>12. q \in Machine /\ q.free = l.free /\ q.root = l.root
    BY <2>5, <2>7, <2>10, PokeEffect
  <2>13. q.mem = m.mem
    <3>0. /\ q.mem[l.win][x] = w
          /\ \A j \in Slots : j # x => q.mem[l.win][j] = l.mem[l.win][j]
          /\ \A f \in Frame : f # l.win => q.mem[f] = l.mem[f]
      BY <2>5, <2>7, <2>10, PokeEffect, ZenonT(30)
    <3>1. /\ q.mem[t][x] = w
          /\ \A j \in Slots : j # x => q.mem[t][j] = l.mem[t][j]
          /\ \A f \in Frame : f # t => q.mem[f] = l.mem[f]
      <4> HIDE DEF q
      <4> QED
        BY <2>10, <3>0
    <3>2. q.mem \in [Frame -> [Slots -> Nat]] /\ m.mem \in [Frame -> [Slots -> Nat]]
      BY <1>0, <2>12 DEF Machine
    <3> HIDE DEF q
    <3>3. \A j \in Slots : q.mem[t][j] = m.mem[t][j]
      BY <2>6, <2>10, <3>1
    <3>4. q.mem[t] = m.mem[t]
      BY <2>5, <3>2, <3>3
    <3>5. \A f \in Frame : q.mem[f] = m.mem[f]
      BY <2>10, <3>1, <3>4
    <3> QED
      BY <3>2, <3>5
  <2> HIDE DEF q
  <2>14. Good(T[k + 1], k + 1)
    BY <2>9, <2>10, <2>11, <2>12, <2>13
  <2> QED
    BY <2>1, <2>14
<1>5. \A k \in 0..(Levels - 1) : k \in G
  <2> HIDE DEF G
  <2> QED
    BY <1>0, <1>3, <1>4, UpTo
<1>6. Good(T[Levels - 1], Levels - 1)
  BY <1>0, <1>5
<1> QED
  BY <1>6 DEF T

\* The way down through present tables changes no walk.
LEMMA SearchKeeps ==
  ASSUME NEW m, NEW top \in Nat, top <= Frames, Tree(m, top), NEW v \in Page,
         Reach(m, v, Levels - 1) # NoFrame
  PROVE  LET c == Search(m, v)[Levels - 1]
         IN  /\ c.m \in Machine /\ c.table = Reach(m, v, Levels - 1) /\ c.found
             /\ c.m.mem = m.mem /\ c.m.free = m.free /\ c.m.root = m.root
<1> DEFINE T == Search(m, v)
           Good(c, k) ==
             /\ c = [m |-> c.m, table |-> c.table, found |-> TRUE]
             /\ c.m \in Machine /\ c.table = Reach(m, v, k)
             /\ c.m.mem = m.mem /\ c.m.free = m.free /\ c.m.root = m.root
           G == {k \in 0..(Levels - 1) : Good(T[k], k)}
<1>0. /\ Levels \in Nat \ {0} /\ Levels - 1 \in Nat /\ Levels - 1 \in 0..(Levels - 1)
      /\ m \in Machine /\ NoFrame \notin Frame
  BY PageTablesAssumption, NoFrameIsNone DEF Tree
<1>1. /\ T[0] = [m |-> m, table |-> m.root, found |-> TRUE]
      /\ \A k \in 1..(Levels - 1) : T[k] = StepDown(T[k - 1], Index(v, Levels - k))
  BY SearchSteps
<1> HIDE DEF T
<1>2. \A k \in 0..(Levels - 1) : Reach(m, v, k) # NoFrame /\ Reach(m, v, k) \in Frame
  BY ReachAbove, TreeReach
<1>3. 0 \in G
  <2>1. Reach(m, v, 0) = m.root
    BY <1>0, <1>2, WalkSteps DEF Reach
  <2>2. T[0].m = m /\ T[0].table = m.root
    BY <1>1
  <2>3. T[0] = [m |-> T[0].m, table |-> T[0].table, found |-> TRUE]
    BY <1>1, <2>2
  <2>4. Good(T[0], 0)
    BY <1>0, <2>1, <2>2, <2>3
  <2>5. 0 \in 0..(Levels - 1)
    BY <1>0
  <2> HIDE DEF Good
  <2> QED
    BY <2>4, <2>5
<1>4. ASSUME NEW k \in 0..((Levels - 1) - 1), k \in G PROVE k + 1 \in G
  <2>1. /\ k + 1 \in 1..(Levels - 1) /\ (k + 1) - 1 = k /\ k + 1 \in 0..(Levels - 1)
        /\ k \in 0..(Levels - 1) /\ Levels - (k + 1) = Levels - 1 - k
    BY <1>0
  <2>2. PICK p, t : p = T[k].m /\ t = T[k].table
    OBVIOUS
  <2>3. /\ T[k] = [m |-> p, table |-> t, found |-> TRUE] /\ p \in Machine /\ t = Reach(m, v, k)
        /\ p.mem = m.mem /\ p.free = m.free /\ p.root = m.root
    BY <1>4, <2>2
  <2>4. PICK x : x = Index(v, Levels - 1 - k)
    OBVIOUS
  <2>5. t \in Frame /\ t # NoFrame
    BY <1>2, <2>1, <2>3
  <2>6. PICK w : w = m.mem[t][x]
    OBVIOUS
  <2>8. Reach(m, v, k + 1) = Points(w)
    <3>1. Reach(m, v, k) \in Frame \cup {NoFrame}
      BY <1>2, <2>1
    <3> QED
      BY <2>1, <2>3, <2>4, <2>5, <2>6, <3>1, ReachNext
  <2>9. HasP(w) /\ Reach(m, v, k + 1) = Addr(w)
    BY <1>2, <2>1, <2>8 DEF Points
  <2> DEFINE l == PhysLook(p, t)
  <2>10. l \in Machine /\ l.win = t /\ l.mem = m.mem /\ l.free = m.free /\ l.root = m.root
    BY <2>3, <2>5, PhysLookEffect
  <2>11. T[k + 1] = [m |-> l, table |-> Addr(w), found |-> TRUE]
    <3>1. Peek(l, x) = w
      BY <2>6, <2>10 DEF Peek
    <3>3. T[k + 1] = StepDown(T[k], x)
      BY <1>1, <2>1, <2>4
    <3> HIDE DEF l
    <3>4. StepDown([m |-> p, table |-> t, found |-> TRUE], x)
            = [m |-> l, table |-> Addr(w), found |-> HasP(w)]
      BY <3>1 DEF StepDown, l
    <3>5. HasP(w) = TRUE
      BY <2>9 DEF HasP
    <3> QED
      BY <2>3, <3>3, <3>4, <3>5
  <2> HIDE DEF l
  <2>14. Good(T[k + 1], k + 1)
    BY <2>9, <2>10, <2>11
  <2> QED
    BY <2>1, <2>14
<1>5. \A k \in 0..(Levels - 1) : k \in G
  <2> HIDE DEF G
  <2> QED
    BY <1>0, <1>3, <1>4, UpTo
<1>6. Good(T[Levels - 1], Levels - 1)
  BY <1>0, <1>5
<1> QED
  BY <1>6 DEF T

\* What map_page of the kernel does to tables below frame top: page v is at frame g,
\* and g has left the free list if it was there.
KernelMaps(m, top, q, v, g) ==
    /\ Tree(q, top) /\ q.root = m.root
    /\ \A x \in Page : \A l \in 0..(Levels - 1) : Reach(q, x, l) = Reach(m, x, l)
    /\ Reach(q, v, Levels) = g
    /\ \A x \in Page \ {v} : Reach(q, x, Levels) = Reach(m, x, Levels)
    /\ HasFreeList(q) /\ FreeFrames(q) = FreeFrames(m) \ {g}
    /\ \A f \in Frame :
          f < top /\ (\A x \in Page : \A l \in 0..(Levels - 1) : Reach(m, x, l) # f)
             => q.mem[f] = m.mem[f]

\* A word of the last table is written, in a machine b whose free list is right.
LEMMA WriteLeaf ==
  ASSUME NEW m, NEW top \in Nat, top <= Frames, Tree(m, top), NEW v \in Page,
         NEW t \in Frame, t = Reach(m, v, Levels - 1),
         NEW b \in Machine, b.root = m.root, HasFreeList(b),
         \A f \in Frame : f < top => b.mem[f] = m.mem[f],
         \A f \in FreeFrames(b) : f >= top, NEW w \in Nat, ~HasF(w), b.win = t,
         NEW g, g = Points(w), FreeFrames(b) = FreeFrames(m) \ {g}
  PROVE  KernelMaps(m, top, Poke(b, Index(v, 0), w), v, g)
<1> DEFINE x0 == Index(v, 0)
           q == Poke(b, x0, w)
<1>0. /\ Levels \in Nat \ {0} /\ NoFrame \notin Frame /\ Levels - 1 \in 0..(Levels - 1)
      /\ x0 \in Slots
  BY PageTablesAssumption, NoFrameIsNone, IndexType DEF Slots
<1>1. t < top /\ t # NoFrame
  BY <1>0, TreeReach
<1>2. /\ q \in Machine /\ q.root = b.root /\ q.free = b.free
      /\ q.mem[b.win][x0] = w
      /\ \A j \in Slots : j # x0 => q.mem[b.win][j] = b.mem[b.win][j]
      /\ \A f \in Frame : f # b.win => q.mem[f] = b.mem[f]
  <2>1. b \in Machine /\ x0 \in Slots /\ w \in Nat
    BY <1>0
  <2> HIDE DEF x0
  <2>2. q \in Machine /\ q.root = b.root /\ q.free = b.free
    BY <2>1, PokeEffect
  <2>3. q.mem[b.win][x0] = w
    BY <2>1, PokeEffect
  <2>5. \A j \in Slots : j # x0 => q.mem[b.win][j] = b.mem[b.win][j]
    BY <2>1 DEF Poke, Machine
  <2>4. \A f \in Frame : f # b.win => q.mem[f] = b.mem[f]
    BY <2>1, PokeEffect
  <2> QED
    BY <2>2, <2>3, <2>4, <2>5
<1> HIDE DEF q
<1>3. /\ \A f \in Frame : f < top /\ f # t => q.mem[f] = m.mem[f]
      /\ \A k \in Slots \ {x0} : q.mem[t][k] = m.mem[t][k]
      /\ q.mem[t][x0] = w
  BY <1>1, <1>2
<1>4. /\ \A x \in Page : \A k \in 0..(Levels - 1) : Reach(q, x, k) = Reach(m, x, k)
      /\ \A x \in Page \ {v} : Reach(q, x, Levels) = Reach(m, x, Levels)
      /\ Reach(q, v, Levels) = Points(q.mem[t][x0])
  BY <1>2, <1>3, LeafReach
<1>5. Tree(q, top)
  BY <1>2, <1>3, LeafTree
<1>6. HasFreeList(q) /\ FreeFrames(q) = FreeFrames(b)
  <2>1. FreeFrames(b) \subseteq Frame
    BY FreeListFacts
  <2>2. \A f \in FreeFrames(b) : q.mem[f] = b.mem[f]
    <3>1. \A f \in FreeFrames(b) : f # t
      BY <1>1, <2>1, PageTablesAssumption DEF Frame
    <3> QED
      BY <1>2, <2>1, <3>1
  <2> QED
    BY <1>2, <2>2, SameFreeList
<1>7. ASSUME NEW f \in Frame, f < top,
             \A x \in Page : \A l \in 0..(Levels - 1) : Reach(m, x, l) # f
      PROVE  q.mem[f] = m.mem[f]
  <2>1. f # t
    BY <1>0, <1>7
  <2> QED
    BY <1>3, <1>7, <2>1
<1>8. q.root = m.root /\ Reach(q, v, Levels) = g /\ FreeFrames(q) = FreeFrames(m) \ {g}
  BY <1>2, <1>3, <1>4, <1>6
<1>9. KernelMaps(m, top, q, v, g)
  BY <1>4, <1>5, <1>6, <1>7, <1>8 DEF KernelMaps
<1> QED
  BY <1>9 DEF q

\* What map_page does in a tree, for a frame that is given and for one that is
\* taken from the free list.
LEMMA MapPresentCases ==
  ASSUME NEW m, NEW top \in Nat, top <= Frames, Tree(m, top), NEW v \in Page,
         Reach(m, v, Levels - 1) # NoFrame, HasFreeList(m), \A f \in FreeFrames(m) : f >= top,
         NEW g \in Frame, ~OutOfMemory(m, v, g, 1),
         g = 0 => Reach(m, v, Levels) = NoFrame, g \notin FreeFrames(m)
  PROVE  /\ g = 0 => m.free \in FreeFrames(m)
         /\ KernelMaps(m, top, MapPage(m, v, g, 1), v, IF g = 0 THEN m.free ELSE g)
<1> DEFINE x0 == Index(v, 0)
<1>0. /\ Levels \in Nat \ {0} /\ NoFrame \notin Frame /\ Levels - 1 \in 0..(Levels - 1)
      /\ x0 \in Slots /\ (Levels - 1) + 1 = Levels /\ Levels - 1 - (Levels - 1) = 0
      /\ m \in Machine
  BY PageTablesAssumption, NoFrameIsNone, IndexType DEF Slots, Tree
<1>1. PICK t : t = Reach(m, v, Levels - 1)
  OBVIOUS
<1>2. t \in Frame /\ t < top
  BY <1>0, <1>1, TreeReach
<1>3. PICK c : c = Descent(m, v, 1)[Levels - 1]
  OBVIOUS
<1>4. c.m \in Machine /\ c.table = t /\ c.m.mem = m.mem /\ c.m.free = m.free /\ c.m.root = m.root
  BY <1>1, <1>3, DescentKeeps
<1>5. PICK a : a = PhysLook(c.m, c.table)
  OBVIOUS
<1>6. a \in Machine /\ a.win = t /\ a.mem = m.mem /\ a.free = m.free /\ a.root = m.root
  BY <1>2, <1>4, <1>5, PhysLookEffect
<1>7. PICK w : w = m.mem[t][x0]
  OBVIOUS
<1>8. w \in Nat /\ ~HasF(w) /\ Peek(a, x0) = w /\ Reach(m, v, Levels) = Points(w)
  <2>1. w \in Nat
    BY <1>0, <1>2, <1>7 DEF Machine
  <2>2. ~HasF(w)
    BY <1>1, <1>7 DEF Tree
  <2>3. Peek(a, x0) = w
    BY <1>6, <1>7 DEF Peek
  <2>4. Reach(m, v, Levels) = Points(w)
    BY <1>0, <1>1, <1>2, <1>7, ReachNext
  <2> QED
    BY <2>1, <2>2, <2>3, <2>4
<1>9. HasP(1)
  BY DEF HasP
<1>10. HasFreeList(a) /\ FreeFrames(a) = FreeFrames(m)
  BY <1>0, <1>6, SameFreeList
<1>11. CASE g # 0
  <2>1. MapPage(m, v, g, 1) = Poke(PhysLook(a, t), x0, PageEntry(g, 1))
    BY <1>3, <1>4, <1>5, <1>8, <1>9, <1>11 DEF MapPage, MapPresent
  <2>2. PICK b : b = PhysLook(a, t)
    OBVIOUS
  <2>3. b \in Machine /\ b.win = t /\ b.mem = m.mem /\ b.free = m.free /\ b.root = m.root
    BY <1>2, <1>6, <2>2, PhysLookEffect
  <2>4. HasFreeList(b) /\ FreeFrames(b) = FreeFrames(m)
    BY <1>0, <2>3, SameFreeList
  <2>5. g \in Nat
    BY DEF Frame
  <2>6. PageEntry(g, 1) \in Nat /\ ~HasF(PageEntry(g, 1)) /\ Points(PageEntry(g, 1)) = g
    BY <2>5, PointsParts
  <2>7. PICK y : y = PageEntry(g, 1)
    OBVIOUS
  <2>8. FreeFrames(b) = FreeFrames(m) \ {g}
    BY <2>4
  <2>9. KernelMaps(m, top, Poke(b, Index(v, 0), y), v, g)
    BY <1>1, <1>2, <2>3, <2>4, <2>6, <2>7, <2>8, WriteLeaf
  <2> QED
    BY <1>11, <2>1, <2>2, <2>7, <2>9
<1>12. CASE g = 0
  <2>1. ~HasP(w) /\ Reach(m, v, Levels) = NoFrame
    <3>1. Addr(w) # NoFrame
      BY <1>8, AddrType DEF NoFrame
    <3> QED
      BY <1>8, <1>12, <3>1 DEF Points
  <2>2. m.free # 0
    BY <1>3, <1>4, <1>7, <1>9, <1>12, <2>1 DEF OutOfMemory
  <2>3. PICK h : h = AllocPage(a)
    OBVIOUS
  <2>4. /\ h \in Machine /\ h.root = m.root /\ HasFreeList(h)
        /\ m.free \in FreeFrames(m) /\ FreeFrames(h) = FreeFrames(m) \ {m.free}
        /\ \A f \in Frame \ FreeFrames(m) : h.mem[f] = m.mem[f]
    BY <1>6, <1>10, <2>2, <2>3, AllocList
  <2>5. MapPage(m, v, g, 1) = Poke(PhysLook(h, t), x0, PageEntry(m.free, 1))
    BY <1>3, <1>4, <1>5, <1>6, <1>8, <1>9, <1>12, <2>1, <2>3 DEF MapPage, MapPresent
  <2>6. PICK b : b = PhysLook(h, t)
    OBVIOUS
  <2>7. b \in Machine /\ b.win = t /\ b.mem = h.mem /\ b.free = h.free /\ b.root = m.root
    BY <1>2, <2>4, <2>6, PhysLookEffect
  <2>8. HasFreeList(b) /\ FreeFrames(b) = FreeFrames(m) \ {m.free}
    BY <2>4, <2>7, SameFreeList
  <2>9. m.free \in Nat
    BY <1>0 DEF Machine, Frame
  <2>10. PICK y : y = PageEntry(m.free, 1)
    OBVIOUS
  <2>11. y \in Nat /\ ~HasF(y) /\ Points(y) = m.free
    BY <2>9, <2>10, PointsParts
  <2>12. \A f \in Frame : f < top => b.mem[f] = m.mem[f]
    <3>1. \A f \in Frame : f < top => f \notin FreeFrames(m)
      BY PageTablesAssumption DEF Frame
    <3> QED
      BY <2>4, <2>7, <3>1
  <2>13. \A f \in FreeFrames(b) : f >= top
    BY <2>8
  <2>14. KernelMaps(m, top, Poke(b, Index(v, 0), y), v, m.free)
    BY <1>1, <1>2, <2>7, <2>8, <2>11, <2>12, <2>13, WriteLeaf
  <2> QED
    BY <1>12, <2>4, <2>5, <2>6, <2>10, <2>14
<1> QED
  BY <1>11, <1>12

\* What map_page does without P in a tree.
LEMMA TreeUnmap ==
  ASSUME NEW m, NEW top \in Nat, top <= Frames, Tree(m, top), NEW v \in Page,
         Reach(m, v, Levels - 1) # NoFrame, HasFreeList(m), \A f \in FreeFrames(m) : f >= top,
         Reach(m, v, Levels) # NoFrame
  PROVE  KernelMaps(m, top, MapPage(m, v, 0, 0), v, NoFrame)
<1> DEFINE x0 == Index(v, 0)
<1>0. /\ Levels \in Nat \ {0} /\ NoFrame \notin Frame /\ Levels - 1 \in 0..(Levels - 1)
      /\ x0 \in Slots /\ (Levels - 1) + 1 = Levels /\ Levels - 1 - (Levels - 1) = 0
      /\ m \in Machine
  BY PageTablesAssumption, NoFrameIsNone, IndexType DEF Slots, Tree
<1>1. PICK t : t = Reach(m, v, Levels - 1)
  OBVIOUS
<1>2. t \in Frame /\ t < top
  BY <1>0, <1>1, TreeReach
<1>3. PICK c : c = Search(m, v)[Levels - 1]
  OBVIOUS
<1>4. /\ c.m \in Machine /\ c.table = t /\ c.found /\ c.m.mem = m.mem /\ c.m.free = m.free
      /\ c.m.root = m.root
  BY <1>1, <1>3, SearchKeeps
<1>5. PICK a : a = PhysLook(c.m, c.table)
  OBVIOUS
<1>6. a \in Machine /\ a.win = t /\ a.mem = m.mem /\ a.free = m.free /\ a.root = m.root
  BY <1>2, <1>4, <1>5, PhysLookEffect
<1>7. PICK w : w = m.mem[t][x0]
  OBVIOUS
<1>8. w \in Nat /\ ~HasF(w) /\ Peek(a, x0) = w /\ HasP(w)
  <2>1. w \in Nat
    BY <1>0, <1>2, <1>7 DEF Machine
  <2>2. ~HasF(w)
    BY <1>1, <1>7 DEF Tree
  <2>3. Peek(a, x0) = w
    BY <1>6, <1>7 DEF Peek
  <2>4. Reach(m, v, Levels) = Points(w)
    BY <1>0, <1>1, <1>2, <1>7, ReachNext
  <2>5. HasP(w)
    BY <2>4 DEF Points
  <2> QED
    BY <2>1, <2>2, <2>3, <2>5
<1>9. ~HasP(0)
  BY DEF HasP
<1>10. HasFreeList(a) /\ FreeFrames(a) = FreeFrames(m)
  BY <1>0, <1>6, SameFreeList
<1>11. MapPage(m, v, 0, 0) = Poke(a, x0, ClearP(w))
  BY <1>3, <1>4, <1>5, <1>8, <1>9 DEF MapPage, UnmapPage
<1>12. PICK y : y = ClearP(w)
  OBVIOUS
<1>13. y \in Nat /\ ~HasF(y) /\ Points(y) = NoFrame
  BY <1>8, <1>12, ClearPParts DEF Points
<1>14. FreeFrames(a) = FreeFrames(m) \ {NoFrame}
  BY <1>0, <1>10, FreeListFacts
<1>15. KernelMaps(m, top, Poke(a, Index(v, 0), y), v, NoFrame)
  BY <1>1, <1>2, <1>6, <1>10, <1>13, <1>14, WriteLeaf
<1> QED
  BY <1>11, <1>12, <1>15
=============================================================================
