---------------------------- MODULE MapperProofs ----------------------------
(***************************************************************************)
(* The page mapper for any number of levels, entries, frames and pages.    *)
(***************************************************************************)
EXTENDS Mapper, PageTablesProofs

-----------------------------------------------------------------------------
(***************************************************************************)
(* The page tables.  What map_page does to the entries of upper tables     *)
(* leaves alone where they lead to.                                        *)
(***************************************************************************)

Path(v) == Walk(LoaderMach, v)
Leaf(v) == Path(v)[Levels - 1]
UpperTables == {Path(v)[k] : v \in Page, k \in 0..(Levels - 2)} \ {NoFrame}

\* The entry of page v, and the frame it maps v to.
Entry(m, v) == m.mem[Leaf(v)][Index(v, 0)]
PageFrame(m, v) ==
    IF Leaf(v) # NoFrame /\ HasP(Entry(m, v)) THEN Addr(Entry(m, v)) ELSE NoFrame

SameUpper(m) ==
    /\ m.root = Root
    /\ \A t \in UpperTables : \A i \in Slots :
          /\ HasP(m.mem[t][i]) <=> HasP(InitMem[t][i])
          /\ Addr(m.mem[t][i]) = Addr(InitMem[t][i])

LEMMA LoaderMachine == LoaderMach \in Machine /\ SameUpper(LoaderMach)
  BY MapperAssumption, PageTablesAssumption
  DEF LoaderMach, Machine, Slots, SameUpper, Frame

LEMMA PathFacts ==
  ASSUME NEW v \in Page
  PROVE  /\ Path(v)[0] = Root
         /\ \A k \in 0..(Levels - 1) : Path(v)[k] # NoFrame => Path(v)[k] \in Frame \ Usable
         /\ \A k \in 0..(Levels - 2) : Path(v)[k] # NoFrame => Path(v)[k] \in UpperTables
         /\ Leaf(v) # NoFrame => Leaf(v) \notin UpperTables
         /\ \A k \in 1..(Levels - 1) : Path(v)[k] # NoFrame => Path(v)[k - 1] # NoFrame
<1>1. Path(v)[0] = Root
  BY WalkSteps DEF Path, LoaderMach
<1>2. ASSUME NEW k \in 0..(Levels - 1), Path(v)[k] # NoFrame PROVE Path(v)[k] \in Frame \ Usable
  <2>1. Path(v)[k] \in Tables(LoaderMach)
    BY <1>2 DEF Tables, Path
  <2> QED
    BY <2>1, LoaderAssumption
<1>3. ASSUME NEW k \in 0..(Levels - 2), Path(v)[k] # NoFrame PROVE Path(v)[k] \in UpperTables
  BY <1>3 DEF UpperTables
<1>4. ASSUME Leaf(v) # NoFrame PROVE Leaf(v) \notin UpperTables
  BY <1>4, LoaderAssumption DEF UpperTables, Path, Leaf, LeafTable
<1>5. ASSUME NEW k \in 1..(Levels - 1), Path(v)[k - 1] = NoFrame PROVE Path(v)[k] = NoFrame
  <2>1. k \in 1..Levels
    BY PageTablesAssumption
  <2>2. Path(v)[k] = Child(LoaderMach, Index(v, Levels - k))[NoFrame]
    BY <1>5, <2>1, WalkSteps DEF Path
  <2> QED
    BY <2>2 DEF Child
<1> QED
  BY <1>1, <1>2, <1>3, <1>4, <1>5

\* Above a table of the last level there are only tables.
LEMMA PathToLeaf ==
  ASSUME NEW v \in Page, Leaf(v) # NoFrame, NEW k \in 0..(Levels - 1)
  PROVE  Path(v)[k] \in Frame \ Usable
<1> DEFINE n == Levels - 1
           G == {j \in 0..n : Path(v)[n - j] # NoFrame}
<1>0. n \in Nat
  BY PageTablesAssumption
<1>1. 0 \in G
  <2>1. n - 0 = n
    BY <1>0
  <2> QED
    BY <1>0, <2>1 DEF Leaf
<1>2. ASSUME NEW j \in 0..(n - 1), j \in G PROVE j + 1 \in G
  <2>1. n - j \in 1..(Levels - 1) /\ (n - j) - 1 = n - (j + 1) /\ j + 1 \in 0..n
    BY <1>0
  <2>2. Path(v)[(n - j) - 1] # NoFrame
    BY <1>2, <2>1, PathFacts
  <2> QED
    BY <2>1, <2>2
<1>3. \A j \in 0..n : j \in G
  <2> HIDE DEF n, G
  <2> QED
    BY <1>0, <1>1, <1>2, UpTo
<1>4. n - k \in 0..n /\ n - (n - k) = k
  BY <1>0
<1>5. Path(v)[n - (n - k)] # NoFrame
  BY <1>3, <1>4
<1> QED
  BY <1>4, <1>5, PathFacts

LEMMA ChildInUpper ==
  ASSUME NEW m \in Machine, SameUpper(m), NEW t \in UpperTables \cup {NoFrame},
         NEW i \in Slots
  PROVE  Child(m, i)[t] = Child(LoaderMach, i)[t]
<1>1. UpperTables \subseteq Frame
  BY PathFacts, PageTablesAssumption DEF UpperTables
<1>2. CASE t = NoFrame
  BY <1>2 DEF Child
<1>3. CASE t # NoFrame
  BY <1>1, <1>3 DEF Child, SameUpper, LoaderMach
<1> QED
  BY <1>2, <1>3

\* The walk of the processor in a machine with these upper tables.
LEMMA WalkIsPath ==
  ASSUME NEW m \in Machine, SameUpper(m), NEW v \in Page
  PROVE  /\ \A k \in 0..(Levels - 1) : Walk(m, v)[k] = Path(v)[k]
         /\ Walk(m, v)[Levels] = PageFrame(m, v)
<1> DEFINE n == Levels - 1
           G == {k \in 0..n : Walk(m, v)[k] = Path(v)[k]}
<1>0. n \in Nat /\ Levels \in Nat
  BY PageTablesAssumption
<1>1. 0 \in G
  BY <1>0, WalkSteps, PathFacts DEF SameUpper
<1>2. ASSUME NEW j \in 0..(n - 1), j \in G PROVE j + 1 \in G
  <2>1. /\ j + 1 \in 1..Levels /\ (j + 1) - 1 = j /\ j \in 0..(Levels - 2)
        /\ Levels - (j + 1) \in 0..(Levels - 1) /\ j + 1 \in 0..n
    BY <1>0
  <2>2. Path(v)[j] \in UpperTables \cup {NoFrame}
    BY <2>1, PathFacts
  <2>3. Index(v, Levels - (j + 1)) \in Slots
    BY <2>1, IndexType DEF Slots
  <2>4. Walk(m, v)[j + 1] = Child(m, Index(v, Levels - (j + 1)))[Path(v)[j]]
    BY <1>2, <2>1, WalkSteps
  <2>5. Path(v)[j + 1] = Child(LoaderMach, Index(v, Levels - (j + 1)))[Path(v)[j]]
    BY <2>1, WalkSteps DEF Path
  <2> QED
    BY <2>1, <2>2, <2>3, <2>4, <2>5, ChildInUpper
<1>3. \A k \in 0..n : k \in G
  <2> HIDE DEF n, G
  <2> QED
    BY <1>0, <1>1, <1>2, UpTo
<1>4. Walk(m, v)[Levels] = Child(m, Index(v, 0))[Leaf(v)]
  <2>1. Levels \in 1..Levels /\ Levels - Levels = 0 /\ Levels - 1 \in 0..n
    BY <1>0, PageTablesAssumption
  <2> QED
    BY <1>3, <2>1, WalkSteps DEF Leaf
<1>5. Leaf(v) \in Frame \cup {NoFrame}
  <2>1. n \in 0..(Levels - 1)
    BY <1>0
  <2> QED
    BY <2>1, PathFacts DEF Leaf
<1> QED
  BY <1>3, <1>4, <1>5 DEF Child, PageFrame, Entry

LEMMA SeenThroughTables ==
  ASSUME NEW m \in Machine, SameUpper(m)
  PROVE  /\ Translation(m) = [v \in Page |-> PageFrame(m, v)]
         /\ Tables(m) = Tables(LoaderMach)
<1>1. \A v \in Page : Walk(m, v)[Levels] = PageFrame(m, v)
  BY WalkIsPath
<1>2. \A v \in Page : \A k \in 0..(Levels - 1) : Walk(m, v)[k] = Walk(LoaderMach, v)[k]
  BY WalkIsPath DEF Path
<1> QED
  BY <1>1, <1>2 DEF Translation, Tables

\* unmap_page finds the table of the last level if there is one.
LEMMA SearchFinds ==
  ASSUME NEW m \in Machine, SameUpper(m), NEW v \in Page
  PROVE  LET c == Search(m, v)[Levels - 1]
         IN  /\ c.m \in Machine /\ c.m.mem = m.mem
             /\ c.m.free = m.free /\ c.m.root = m.root
             /\ c.m.panic = m.panic
             /\ c.found <=> Leaf(v) # NoFrame
             /\ c.found => c.table = Leaf(v)
<1> DEFINE n == Levels - 1
           S == Search(m, v)
           At(k) == /\ S[k].m \in Machine /\ S[k].m.mem = m.mem
                    /\ S[k].m.free = m.free /\ S[k].m.root = m.root
                    /\ S[k].m.panic = m.panic
                    /\ S[k].found <=> Path(v)[k] # NoFrame
                    /\ S[k].found => S[k].table = Path(v)[k]
           G == {k \in 0..n : At(k)}
<1>0. n \in Nat /\ Levels \in Nat
  BY PageTablesAssumption
<1>1. 0 \in G
  <2>1. S[0] = [m |-> m, table |-> m.root, found |-> TRUE]
    BY SearchSteps
  <2>2. Path(v)[0] = Root /\ m.root = Root /\ Root # NoFrame
    BY PathFacts, MapperAssumption, NoFrameIsNone DEF SameUpper
  <2> HIDE DEF S
  <2> QED
    BY <1>0, <2>1, <2>2
<1>2. ASSUME NEW j \in 0..(n - 1), j \in G PROVE j + 1 \in G
  <2> DEFINE k == j + 1
             i == Index(v, Levels - k)
  <2>1. /\ k \in 1..Levels /\ k \in 1..(Levels - 1) /\ k - 1 = j /\ j \in 0..(Levels - 2)
        /\ Levels - k \in 0..(Levels - 1) /\ k \in 0..n
    BY <1>0
  <2>2. S[k] = StepDown(S[j], i)
    <3>1. \A x \in 1..(Levels - 1) : S[x] = StepDown(S[x - 1], Index(v, Levels - x))
      BY SearchSteps
    <3> HIDE DEF S
    <3> QED
      BY <2>1, <3>1
  <2>3. Path(v)[k] = Child(LoaderMach, i)[Path(v)[j]] /\ i \in Slots
    BY <2>1, WalkSteps, IndexType DEF Path, Slots
  <2>4. At(j)
    BY <1>2
  <2> HIDE DEF S, k, i
  <2>5. CASE ~S[j].found
    <3>1. S[k] = S[j]
      BY <2>2, <2>5 DEF StepDown
    <3>2. Path(v)[k] = NoFrame
      BY <2>3, <2>4, <2>5 DEF Child
    <3>3. Path(v)[j] = NoFrame
      BY <2>4, <2>5
    <3> QED
      BY <2>1, <2>4, <2>5, <3>1, <3>2, <3>3 DEF k
  <2>6. CASE S[j].found
    <3> DEFINE t == S[j].table
               a == PhysLook(S[j].m, t)
               w == m.mem[t][i]
    <3>1. t = Path(v)[j] /\ t \in UpperTables /\ t \in Frame /\ t # NoFrame
      <4>1. t = Path(v)[j] /\ t # NoFrame
        BY <2>4, <2>6
      <4>2. j \in 0..(Levels - 1)
        BY <1>0
      <4> QED
        BY <2>1, <4>1, <4>2, PathFacts
    <3>2. /\ a \in Machine /\ a.win = t /\ a.mem = m.mem
          /\ a.free = m.free /\ a.root = m.root /\ a.panic = m.panic
      BY <2>4, <3>1, PhysLookEffect
    <3>3. S[k] = [m |-> a, table |-> Addr(w), found |-> HasP(w)]
      BY <2>2, <2>6, <3>2 DEF StepDown, Peek
    <3>4. Path(v)[k] = IF HasP(w) THEN Addr(w) ELSE NoFrame
      BY <2>3, <3>1 DEF Child, LoaderMach, SameUpper
    <3>5. Addr(w) # NoFrame
      <4>1. w \in Nat
        BY <2>3, <3>1 DEF Machine
      <4> HIDE DEF w
      <4> QED
        BY <4>1, AddrType DEF NoFrame
    <3> HIDE DEF a, w, t
    <3> QED
      BY <2>1, <3>2, <3>3, <3>4, <3>5 DEF k
  <2> QED
    BY <2>5, <2>6
<1>3. n \in G
  <2>1. n \in 0..n
    BY <1>0
  <2> HIDE DEF n, G
  <2> QED
    BY <1>0, <1>1, <1>2, <2>1, UpTo
<1> QED
  BY <1>3 DEF Leaf

\* map_page gets to the table of the last level, and writes flags into entries
\* of upper tables only.
LEMMA DescentFinds ==
  ASSUME NEW m \in Machine, SameUpper(m), NEW v \in Page, Leaf(v) # NoFrame,
         NEW flags \in {1, 3}
  PROVE  LET c == Descent(m, v, flags)[Levels - 1]
         IN  /\ c.m \in Machine /\ SameUpper(c.m)
             /\ c.m.free = m.free /\ c.m.root = m.root
             /\ c.m.panic = m.panic
             /\ \A f \in Frame \ UpperTables : c.m.mem[f] = m.mem[f]
             /\ c.table = Leaf(v)
<1> DEFINE n == Levels - 1
           D == Descent(m, v, flags)
           At(k) == /\ D[k].m \in Machine /\ SameUpper(D[k].m)
                    /\ D[k].m.free = m.free /\ D[k].m.root = m.root
                    /\ D[k].m.panic = m.panic
                    /\ \A f \in Frame \ UpperTables : D[k].m.mem[f] = m.mem[f]
                    /\ D[k].table = Path(v)[k] /\ D[k].flags = flags
           G == {k \in 0..n : At(k)}
<1>0. n \in Nat /\ Levels \in Nat
  BY PageTablesAssumption
<1>1. 0 \in G
  <2>1. D[0] = [m |-> m, table |-> m.root, flags |-> flags]
    BY DescentSteps DEF IsDescent
  <2>2. Path(v)[0] = Root /\ m.root = Root
    BY PathFacts DEF SameUpper
  <2> HIDE DEF D
  <2> QED
    BY <1>0, <2>1, <2>2
<1>4. \A k \in 1..(Levels - 1) : D[k] = Descend(D[k - 1], Index(v, Levels - k))
  <2>1. IsDescent(D, m, v, flags)
    BY DescentSteps
  <2> HIDE DEF D
  <2> QED
    BY <2>1 DEF IsDescent
<1>5. \A a \in Machine, i \in Slots, w \in Nat :
        LET p == Poke(a, i, w)
        IN  /\ p \in Machine /\ p.free = a.free /\ p.root = a.root /\ p.panic = a.panic
            /\ p.mem[a.win][i] = w
            /\ \A e \in Slots : e # i => p.mem[a.win][e] = a.mem[a.win][e]
            /\ \A f \in Frame : f # a.win => p.mem[f] = a.mem[f]
  BY PokeEffect
<1>2. ASSUME NEW j \in 0..(n - 1), j \in G PROVE j + 1 \in G
  <2> DEFINE k == j + 1
             i == Index(v, Levels - k)
             t == Path(v)[j]
             a == PhysLook(D[j].m, t)
             w == SetFlags(a.mem[t][i], flags)
             p == Poke(a, i, w)
  <2>1. /\ k \in 1..Levels /\ k \in 1..(Levels - 1) /\ k - 1 = j /\ j \in 0..(Levels - 2)
        /\ Levels - k \in 0..(Levels - 1) /\ k \in 0..n
        /\ j \in 0..(Levels - 1) /\ k \in 0..(Levels - 1)
    BY <1>0
  <2>2. D[k] = Descend(D[j], i)
    BY <1>4, <2>1
  <2>3. Path(v)[k] = Child(LoaderMach, i)[t] /\ i \in Slots
    BY <2>1, WalkSteps, IndexType DEF Path, Slots
  <2>4. At(j)
    BY <1>2
  <2>5. t \in Frame /\ t # NoFrame /\ t \in UpperTables /\ Path(v)[k] # NoFrame
    BY <2>1, PathToLeaf, PathFacts, NoFrameIsNone
  <2> HIDE DEF D, k, i, t
  <2>6. /\ a \in Machine /\ a.win = t /\ a.mem = D[j].m.mem
        /\ a.free = m.free /\ a.root = m.root /\ a.panic = m.panic
    BY <2>4, <2>5, PhysLookEffect
  <2>7. D[k] = [m |-> p, table |-> Addr(w), flags |-> flags]
    <3>1. D[j].table = t /\ D[j].flags = flags
      BY <2>4 DEF t
    <3>2. Peek(a, i) = a.mem[t][i]
      BY <2>6 DEF Peek
    <3>3. Descend(D[j], i) = [m |-> Poke(a, i, SetFlags(Peek(a, i), flags)),
                              table |-> Addr(SetFlags(Peek(a, i), flags)),
                              flags |-> flags]
      BY <3>1 DEF Descend
    <3> HIDE DEF a
    <3> QED
      BY <2>2, <3>2, <3>3
  <2>8. a.mem[t][i] \in Nat
    BY <2>3, <2>5, <2>6 DEF Machine
  <2>9. w \in Nat /\ Addr(w) = Addr(a.mem[t][i]) /\ HasP(w)
    BY <2>8, SetFlagsParts
  <2>10. HasP(InitMem[t][i]) /\ Path(v)[k] = Addr(InitMem[t][i])
    BY <2>3, <2>5 DEF Child, LoaderMach
  <2>11. Addr(w) = Addr(InitMem[t][i])
    BY <2>3, <2>4, <2>5, <2>6, <2>9 DEF SameUpper
  <2> HIDE DEF w, a
  <2>12. /\ p \in Machine /\ p.free = m.free /\ p.root = m.root /\ p.panic = m.panic
         /\ p.mem[t][i] = w
         /\ \A e \in Slots : e # i => p.mem[t][e] = D[j].m.mem[t][e]
         /\ \A f \in Frame : f # t => p.mem[f] = D[j].m.mem[f]
    <3>1. /\ p \in Machine /\ p.free = a.free /\ p.root = a.root /\ p.panic = a.panic
          /\ p.mem[a.win][i] = w
          /\ \A e \in Slots : e # i => p.mem[a.win][e] = a.mem[a.win][e]
          /\ \A f \in Frame : f # a.win => p.mem[f] = a.mem[f]
      <4>1. a \in Machine /\ i \in Slots /\ w \in Nat
        BY <2>3, <2>6, <2>9
      <4> QED
        BY <1>5, <4>1
    <3> HIDE DEF p
    <3> QED
      BY <2>6, <3>1
  <2> HIDE DEF p
  <2>13. SameUpper(p)
    <3> SUFFICES ASSUME NEW u \in UpperTables, NEW e \in Slots
                 PROVE  /\ HasP(p.mem[u][e]) <=> HasP(InitMem[u][e])
                        /\ Addr(p.mem[u][e]) = Addr(InitMem[u][e])
      BY <2>12 DEF SameUpper
    <3>1. u \in Frame
      BY PathFacts, PageTablesAssumption DEF UpperTables
    <3>2. CASE u = t /\ e = i
      BY <2>9, <2>10, <2>11, <2>12, <3>2
    <3>3. CASE ~(u = t /\ e = i)
      <4>1. p.mem[u][e] = D[j].m.mem[u][e]
        BY <2>12, <3>1, <3>3
      <4> QED
        BY <2>4, <4>1 DEF SameUpper
    <3> QED
      BY <3>2, <3>3
  <2>14. \A f \in Frame \ UpperTables : p.mem[f] = m.mem[f]
    BY <2>4, <2>5, <2>12
  <2>15. /\ D[k].m = p /\ D[k].table = Addr(w) /\ D[k].flags = flags
    BY <2>7
  <2>16. At(k)
    BY <2>10, <2>11, <2>12, <2>13, <2>14, <2>15
  <2> QED
    BY <2>1, <2>16 DEF k
<1>3. n \in G
  <2>1. n \in 0..n
    BY <1>0
  <2> HIDE DEF n, G
  <2> QED
    BY <1>0, <1>1, <1>2, <2>1, UpTo
<1> QED
  BY <1>3 DEF Leaf

-----------------------------------------------------------------------------
(***************************************************************************)
(* The steps of map_page on a machine whose tables and free list are sound *)
(***************************************************************************)

Sound(m) ==
    /\ m \in Machine /\ SameUpper(m)
    /\ HasFreeList(m) /\ FreeFrames(m) \subseteq Usable

SameEntries(m, q) == \A u \in Page : Leaf(u) # NoFrame => Entry(q, u) = Entry(m, u)

LEMMA UsableType == Usable \subseteq Frame \ {0}
<1> SUFFICES ASSUME NEW r \in Regions, NEW f \in RegionFrames(r) PROVE f \in Frame \ {0}
  BY DEF Usable
<1>1. RegionFrames(r) \subseteq Frame /\ r[1] \in Nat \ {0} /\ r[2] \in Nat \ {0}
  BY MapperAssumption
<1>2. f # 0
  <2>1. RegionFrames(r) = r[1]..(r[1] + r[2] - 1)
    BY DEF RegionFrames
  <2> QED
    BY <1>1, <2>1
<1> QED
  BY <1>1, <1>2

LEMMA LeafFacts ==
  ASSUME NEW v \in Page, Leaf(v) # NoFrame
  PROVE  /\ Leaf(v) \in Frame \ Usable /\ Leaf(v) \notin UpperTables
         /\ Index(v, 0) \in Slots
         /\ \A u \in Page : Leaf(u) = Leaf(v) /\ Index(u, 0) = Index(v, 0) => u = v
<1>1. Levels - 1 \in 0..(Levels - 1) /\ 0 \in 0..(Levels - 1)
  BY PageTablesAssumption
<1>2. Leaf(v) \in Frame \ Usable /\ Leaf(v) \notin UpperTables
  BY <1>1, PathFacts DEF Leaf
<1>3. Index(v, 0) \in Slots
  BY <1>1, IndexType DEF Slots
<1>4. \A u \in Page : Leaf(u) = Leaf(v) /\ Index(u, 0) = Index(v, 0) => u = v
  BY LoaderAssumption DEF Leaf, Path, LeafTable
<1> QED
  BY <1>2, <1>3, <1>4

LEMMA EntryType ==
  ASSUME NEW m \in Machine, NEW v \in Page, Leaf(v) # NoFrame
  PROVE  Entry(m, v) \in Nat /\ Addr(Entry(m, v)) \in Nat
<1>1. Entry(m, v) \in Nat
  BY LeafFacts DEF Entry, Machine
<1> QED
  BY <1>1, AddrType

LEMMA UpperIsNotUsable == UpperTables \subseteq Frame \ Usable
  BY PathFacts, PageTablesAssumption DEF UpperTables

\* What is written to usable memory changes no page table.
LEMMA OutsideUsable ==
  ASSUME NEW m \in Machine, SameUpper(m), NEW q,
         q.root = m.root, \A g \in Frame \ Usable : q.mem[g] = m.mem[g]
  PROVE  SameUpper(q) /\ SameEntries(m, q)
<1>1. SameUpper(q)
  BY UpperIsNotUsable DEF SameUpper
<1>2. SameEntries(m, q)
  BY LeafFacts DEF SameEntries, Entry
<1> QED
  BY <1>1, <1>2

LEMMA DescentSound ==
  ASSUME NEW m, Sound(m), NEW v \in Page, Leaf(v) # NoFrame, NEW flags \in {1, 3}
  PROVE  LET c == Descent(m, v, flags)[Levels - 1]
         IN  /\ Sound(c.m) /\ FreeFrames(c.m) = FreeFrames(m) /\ SameEntries(m, c.m)
             /\ c.m.free = m.free /\ c.m.root = m.root
             /\ c.m.panic = m.panic /\ c.table = Leaf(v)
<1> DEFINE c == Descent(m, v, flags)[Levels - 1]
<1>0. m \in Machine /\ SameUpper(m) /\ HasFreeList(m) /\ FreeFrames(m) \subseteq Usable
  BY DEF Sound
<1>1. /\ c.m \in Machine /\ SameUpper(c.m) /\ c.m.free = m.free /\ c.m.root = m.root
      /\ c.m.panic = m.panic
      /\ \A f \in Frame \ UpperTables : c.m.mem[f] = m.mem[f]
      /\ c.table = Leaf(v)
  BY <1>0, DescentFinds
<1> HIDE DEF c
<1>2. \A f \in FreeFrames(m) : c.m.mem[f] = m.mem[f]
  BY <1>0, <1>1, UpperIsNotUsable, UsableType
<1>3. HasFreeList(c.m) /\ FreeFrames(c.m) = FreeFrames(m)
  BY <1>0, <1>1, <1>2, SameFreeList
<1>4. SameEntries(m, c.m)
  BY <1>1, LeafFacts DEF SameEntries, Entry
<1> QED
  BY <1>0, <1>1, <1>3, <1>4 DEF Sound, c

LEMMA LookSound ==
  ASSUME NEW m, Sound(m), NEW f \in Frame
  PROVE  LET a == PhysLook(m, f)
         IN  /\ Sound(a) /\ FreeFrames(a) = FreeFrames(m) /\ SameEntries(m, a)
             /\ a.win = f /\ a.mem = m.mem /\ a.free = m.free /\ a.root = m.root
             /\ a.panic = m.panic
<1> DEFINE a == PhysLook(m, f)
<1>0. m \in Machine /\ SameUpper(m) /\ HasFreeList(m) /\ FreeFrames(m) \subseteq Usable
  BY DEF Sound
<1>1. a \in Machine /\ a.win = f /\ a.mem = m.mem /\ a.free = m.free /\ a.root = m.root /\ a.panic = m.panic
  BY <1>0, PhysLookEffect
<1> HIDE DEF a
<1>2. HasFreeList(a) /\ FreeFrames(a) = FreeFrames(m)
  BY <1>0, <1>1, SameFreeList
<1>3. SameUpper(a) /\ SameEntries(m, a)
  BY <1>0, <1>1, OutsideUsable
<1> QED
  BY <1>0, <1>1, <1>2, <1>3 DEF Sound, a

LEMMA PushSound ==
  ASSUME NEW m, Sound(m), NEW f \in Nat, NEW z \in Nat, z >= 1,
         f..(f + z - 1) \subseteq Usable \ FreeFrames(m)
  PROVE  LET q == PushBlock(m, f, z)
         IN  /\ Sound(q) /\ FreeFrames(q) = FreeFrames(m) \cup f..(f + z - 1)
             /\ SameEntries(m, q) /\ q.root = m.root /\ q.panic = m.panic
<1> DEFINE q == PushBlock(m, f, z)
<1>0. m \in Machine /\ SameUpper(m) /\ HasFreeList(m) /\ FreeFrames(m) \subseteq Usable
  BY DEF Sound
<1>1. f \in f..(f + z - 1)
  OBVIOUS
<1>2. f \in Frame /\ f \in Usable /\ f..(f + z - 1) \subseteq Frame \ ({0} \cup FreeFrames(m))
  BY <1>1, UsableType
<1>3. /\ q \in Machine /\ q.root = m.root /\ q.panic = m.panic
      /\ \A g \in Frame : g # f => q.mem[g] = m.mem[g]
  BY <1>0, <1>2, PushEffect
<1>4. HasFreeList(q) /\ FreeFrames(q) = FreeFrames(m) \cup f..(f + z - 1)
  BY <1>0, <1>2, PushList
<1> HIDE DEF q
<1>5. SameUpper(q) /\ SameEntries(m, q)
  BY <1>0, <1>2, <1>3, OutsideUsable
<1> QED
  BY <1>0, <1>3, <1>4, <1>5 DEF Sound, q

LEMMA AllocSound ==
  ASSUME NEW m, Sound(m), m.free # 0
  PROVE  LET q == AllocPage(m)
         IN  /\ Sound(q) /\ FreeFrames(q) = FreeFrames(m) \ {m.free}
             /\ m.free \in FreeFrames(m) /\ SameEntries(m, q) /\ q.root = m.root
             /\ q.panic = m.panic
<1> DEFINE q == AllocPage(m)
<1>0. m \in Machine /\ SameUpper(m) /\ HasFreeList(m) /\ FreeFrames(m) \subseteq Usable
  BY DEF Sound
<1>1. /\ q \in Machine /\ q.root = m.root /\ q.panic = m.panic /\ HasFreeList(q)
      /\ m.free \in FreeFrames(m) /\ FreeFrames(q) = FreeFrames(m) \ {m.free}
      /\ \A g \in Frame \ FreeFrames(m) : q.mem[g] = m.mem[g]
  BY <1>0, AllocList
<1> HIDE DEF q
<1>2. SameUpper(q) /\ SameEntries(m, q)
  BY <1>0, <1>1, OutsideUsable
<1> QED
  BY <1>0, <1>1, <1>2 DEF Sound, q

\* A write to the entry of v.
LEMMA WriteSound ==
  ASSUME NEW m, Sound(m), NEW v \in Page, Leaf(v) # NoFrame, m.win = Leaf(v), NEW w \in Nat
  PROVE  LET q == Poke(m, Index(v, 0), w)
         IN  /\ Sound(q) /\ FreeFrames(q) = FreeFrames(m) /\ q.root = m.root
             /\ q.panic = m.panic
             /\ Entry(q, v) = w
             /\ \A u \in Page : u # v /\ Leaf(u) # NoFrame => Entry(q, u) = Entry(m, u)
<1> DEFINE i == Index(v, 0)
           q == Poke(m, i, w)
<1>0. m \in Machine /\ SameUpper(m) /\ HasFreeList(m) /\ FreeFrames(m) \subseteq Usable
  BY DEF Sound
<1>1. Leaf(v) \in Frame \ Usable /\ Leaf(v) \notin UpperTables /\ i \in Slots
  BY LeafFacts
<1>2. /\ q \in Machine /\ q.free = m.free /\ q.root = m.root /\ q.panic = m.panic
      /\ q.mem[m.win][i] = w
      /\ \A j \in Slots : j # i => q.mem[m.win][j] = m.mem[m.win][j]
      /\ \A f \in Frame : f # m.win => q.mem[f] = m.mem[f]
  BY <1>0, <1>1, PokeEffect, SMTT(30)
<1> HIDE DEF q, i
<1>3. HasFreeList(q) /\ FreeFrames(q) = FreeFrames(m)
  <2>1. \A f \in FreeFrames(m) : q.mem[f] = m.mem[f]
    BY <1>0, <1>1, <1>2, UsableType
  <2> QED
    BY <1>0, <1>2, <2>1, SameFreeList
<1>4. SameUpper(q)
  BY <1>0, <1>1, <1>2, UpperIsNotUsable DEF SameUpper
<1>5. Entry(q, v) = w
  BY <1>2 DEF Entry, i
<1>6. ASSUME NEW u \in Page, u # v, Leaf(u) # NoFrame PROVE Entry(q, u) = Entry(m, u)
  <2>1. /\ Leaf(u) \in Frame /\ Index(u, 0) \in Slots
        /\ ~(Leaf(u) = Leaf(v) /\ Index(u, 0) = i)
    BY <1>6, LeafFacts DEF i
  <2> QED
    BY <1>2, <2>1 DEF Entry
<1> QED
  BY <1>0, <1>2, <1>3, <1>4, <1>5, <1>6 DEF Sound, q, i

\* What map_page does when it maps v to f: it keeps the frame v has, takes a
\* free one, or maps phys, and then may free the frame that it replaces.
MapsTo(m, q, v, phys, flags, f) ==
    LET e == Entry(m, v)
    IN  /\ Sound(q) /\ q.root = m.root /\ q.panic = m.panic
        /\ Entry(q, v) = PageEntry(f, flags)
        /\ \A u \in Page : u # v /\ Leaf(u) # NoFrame => Entry(q, u) = Entry(m, u)
        /\ \/ phys = 0 /\ HasP(e) /\ f = Addr(e) /\ FreeFrames(q) = FreeFrames(m)
           \/ /\ phys = 0 /\ ~HasP(e)
              /\ f \in FreeFrames(m) /\ FreeFrames(q) = FreeFrames(m) \ {f}
           \/ /\ phys # 0 /\ f = phys /\ phys # Addr(e) /\ HasF(e)
              /\ FreeFrames(q) = FreeFrames(m) \cup {Addr(e)}
           \/ phys # 0 /\ f = phys /\ FreeFrames(q) = FreeFrames(m)

LEMMA MapPresentEffect ==
  ASSUME NEW m, Sound(m), NEW v \in Page, Leaf(v) # NoFrame,
         NEW phys \in Frame, NEW flags \in {1, 3}, ~OutOfMemory(m, v, phys, flags),
         phys # 0 /\ phys # Addr(Entry(m, v)) /\ HasF(Entry(m, v))
             => Addr(Entry(m, v)) \in Usable \ FreeFrames(m)
  PROVE  \E f \in Nat : MapsTo(m, MapPresent(m, v, phys, flags), v, phys, flags, f)
<1> DEFINE D == Descent(m, v, flags)[Levels - 1]
           c == D.m
           t == Leaf(v)
           i == Index(v, 0)
           e == Entry(m, v)
           a == PhysLook(c, t)
<1>1. /\ Sound(c) /\ FreeFrames(c) = FreeFrames(m) /\ SameEntries(m, c)
      /\ c.free = m.free /\ c.root = m.root /\ c.panic = m.panic /\ D.table = t
  BY DescentSound
<1>2. t \in Frame /\ i \in Slots
  BY LeafFacts
<1>3. e \in Nat /\ Addr(e) \in Nat /\ m.free \in Nat /\ phys \in Nat
  <2>1. m \in Machine
    BY DEF Sound
  <2>2. e \in Nat /\ Addr(e) \in Nat
    BY <2>1, EntryType
  <2>3. m.free \in Nat /\ phys \in Nat
    BY <2>1, PageTablesAssumption DEF Machine, Frame
  <2> QED
    BY <2>2, <2>3
<1>4. Entry(c, v) = e /\ c.mem[t][i] = e
  BY <1>1 DEF SameEntries, Entry
<1> HIDE DEF D, c
<1>5. /\ Sound(a) /\ FreeFrames(a) = FreeFrames(m) /\ SameEntries(m, a)
      /\ a.win = t /\ a.mem = c.mem /\ a.free = m.free /\ a.root = m.root
      /\ a.panic = m.panic
  <2>1. /\ Sound(a) /\ FreeFrames(a) = FreeFrames(c) /\ SameEntries(c, a)
        /\ a.win = t /\ a.mem = c.mem /\ a.free = c.free /\ a.root = c.root
        /\ a.panic = c.panic
    BY <1>1, <1>2, LookSound
  <2> HIDE DEF a
  <2>2. SameEntries(m, a)
    BY <1>1, <2>1 DEF SameEntries
  <2> QED
    BY <1>1, <2>1, <2>2
<1> HIDE DEF a
<1>6. Peek(a, i) = e
  BY <1>4, <1>5 DEF Peek
<1> HIDE DEF t, i, e
<1> DEFINE b == IF phys = 0
                  THEN IF HasP(e) THEN a ELSE AllocPage(a)
                  ELSE IF phys # Addr(e) /\ HasF(e) THEN FreePage(a, Addr(e)) ELSE a
           f == IF phys # 0 THEN phys ELSE IF HasP(e) THEN Addr(e) ELSE m.free
           w == PageEntry(f, flags)
           x == PhysLook(b, t)
           q == Poke(x, i, w)
<1>7. MapPresent(m, v, phys, flags) = q
  <2>1. MapPresent(m, v, phys, flags) =
          LET cc  == Descent(m, v, flags)[Levels - 1]
              aa  == PhysLook(cc.m, cc.table)
              pte == Peek(aa, i)
              bb  == IF phys = 0
                       THEN IF HasP(pte) THEN aa ELSE AllocPage(aa)
                       ELSE IF phys # Addr(pte) /\ HasF(pte)
                              THEN FreePage(aa, Addr(pte))
                              ELSE aa
              ff  == IF phys # 0 THEN phys
                     ELSE IF HasP(pte) THEN Addr(pte) ELSE aa.free
          IN  Poke(PhysLook(bb, cc.table), i, PageEntry(ff, flags))
    BY DEF MapPresent, i
  <2>2. Descent(m, v, flags)[Levels - 1].m = c /\ Descent(m, v, flags)[Levels - 1].table = t
    BY <1>1 DEF D, c
  <2>3. PhysLook(c, t) = a
    BY DEF a
  <2> QED
    BY <1>5, <1>6, <2>1, <2>2, <2>3
<1>8. phys = 0 /\ ~HasP(e) => m.free # 0
  <2>1. HasP(flags)
    BY DEF HasP
  <2>2. Descent(m, v, flags)[Levels - 1].m.mem[Descent(m, v, flags)[Levels - 1].table][Index(v, 0)] = e
    BY <1>1, <1>4 DEF D, c, i
  <2> QED
    BY <2>1, <2>2 DEF OutOfMemory
<1>9. /\ f \in Nat
      /\ Sound(b) /\ b.root = m.root /\ b.panic = m.panic /\ SameEntries(m, b)
      /\ \/ phys = 0 /\ HasP(e) /\ f = Addr(e) /\ FreeFrames(b) = FreeFrames(m)
         \/ /\ phys = 0 /\ ~HasP(e)
            /\ f \in FreeFrames(m) /\ FreeFrames(b) = FreeFrames(m) \ {f}
         \/ /\ phys # 0 /\ f = phys /\ phys # Addr(e) /\ HasF(e)
            /\ FreeFrames(b) = FreeFrames(m) \cup {Addr(e)}
         \/ phys # 0 /\ f = phys /\ FreeFrames(b) = FreeFrames(m)
  <2>1. CASE phys = 0 /\ HasP(e)
    BY <1>3, <1>5, <2>1
  <2>2. CASE phys = 0 /\ ~HasP(e)
    <3>1. b = AllocPage(a) /\ f = m.free /\ a.free # 0
      BY <1>5, <1>8, <2>2
    <3>2. /\ Sound(b) /\ FreeFrames(b) = FreeFrames(a) \ {a.free}
          /\ a.free \in FreeFrames(a) /\ SameEntries(a, b) /\ b.root = a.root
          /\ b.panic = a.panic
      BY <1>5, <3>1, AllocSound
    <3> HIDE DEF b, f
    <3>3. SameEntries(m, b)
      BY <1>5, <3>2 DEF SameEntries
    <3> QED
      BY <1>3, <1>5, <2>2, <3>1, <3>2, <3>3
  <2>3. CASE phys # 0 /\ phys # Addr(e) /\ HasF(e)
    <3> DEFINE g == Addr(e)
    <3>1. b = PushBlock(a, g, 1) /\ f = phys
      BY <2>3 DEF FreePage
    <3>2. g \in Usable \ FreeFrames(a)
      BY <1>5, <2>3 DEF e
    <3>3. g..(g + 1 - 1) = {g} /\ 1 \in Nat /\ 1 >= 1 /\ g \in Nat
      BY <1>3
    <3> HIDE DEF b, f, g
    <3>4. g..(g + 1 - 1) \subseteq Usable \ FreeFrames(a)
      BY <3>2, <3>3
    <3>5. /\ Sound(b) /\ FreeFrames(b) = FreeFrames(a) \cup g..(g + 1 - 1)
          /\ SameEntries(a, b) /\ b.root = a.root /\ b.panic = a.panic
      BY <1>5, <3>1, <3>3, <3>4, PushSound
    <3>6. SameEntries(m, b)
      BY <1>5, <3>5 DEF SameEntries
    <3>7. FreeFrames(b) = FreeFrames(m) \cup {Addr(e)}
      BY <1>5, <3>3, <3>5 DEF g
    <3> QED
      BY <1>3, <1>5, <2>3, <3>1, <3>5, <3>6, <3>7
  <2>4. CASE phys # 0 /\ ~(phys # Addr(e) /\ HasF(e))
    BY <1>3, <1>5, <2>4
  <2> QED
    BY <2>1, <2>2, <2>3, <2>4
<1> HIDE DEF b, f
<1>10. /\ Sound(x) /\ FreeFrames(x) = FreeFrames(b) /\ SameEntries(m, x)
       /\ x.win = t /\ x.root = m.root /\ x.panic = m.panic
  <2>1. /\ Sound(x) /\ FreeFrames(x) = FreeFrames(b) /\ SameEntries(b, x)
        /\ x.win = t /\ x.root = b.root /\ x.panic = b.panic
    BY <1>2, <1>9, LookSound
  <2> HIDE DEF x
  <2>2. SameEntries(m, x)
    BY <1>9, <2>1 DEF SameEntries
  <2> QED
    BY <1>9, <2>1, <2>2
<1>11. w \in Nat
  BY <1>9, EntryParts
<1> HIDE DEF x, w
<1>12. /\ Sound(q) /\ FreeFrames(q) = FreeFrames(x) /\ q.root = x.root
       /\ q.panic = x.panic
       /\ Entry(q, v) = w
       /\ \A u \in Page : u # v /\ Leaf(u) # NoFrame => Entry(q, u) = Entry(x, u)
  BY <1>10, <1>11, WriteSound DEF t, i
<1> HIDE DEF q
<1>13. \A u \in Page : u # v /\ Leaf(u) # NoFrame => Entry(q, u) = Entry(m, u)
  BY <1>10, <1>12 DEF SameEntries
<1>14. MapsTo(m, q, v, phys, flags, f)
  BY <1>9, <1>10, <1>12, <1>13 DEF MapsTo, e, w
<1> QED
  BY <1>7, <1>9, <1>14

\* What unmap_page does to a page without PAGE_F_BIT.
Unmaps(m, q, v) ==
    /\ Sound(q) /\ q.root = m.root /\ q.panic = m.panic /\ FreeFrames(q) = FreeFrames(m)
    /\ Leaf(v) # NoFrame => ~HasP(Entry(q, v)) /\ ~HasF(Entry(q, v))
    /\ \A u \in Page : u # v /\ Leaf(u) # NoFrame => Entry(q, u) = Entry(m, u)

LEMMA UnmapPageEffect ==
  ASSUME NEW m, Sound(m), NEW v \in Page, Leaf(v) # NoFrame => ~HasF(Entry(m, v))
  PROVE  Unmaps(m, UnmapPage(m, v), v)
<1> DEFINE S == Search(m, v)[Levels - 1]
           c == S.m
           t == Leaf(v)
           i == Index(v, 0)
           e == Entry(m, v)
           q == UnmapPage(m, v)
<1>0. m \in Machine /\ SameUpper(m) /\ HasFreeList(m) /\ FreeFrames(m) \subseteq Usable
  BY DEF Sound
<1>1. /\ c \in Machine /\ c.mem = m.mem /\ c.free = m.free /\ c.root = m.root
      /\ c.panic = m.panic
      /\ S.found <=> t # NoFrame
      /\ S.found => S.table = t
  BY <1>0, SearchFinds
<1> HIDE DEF S, c
<1>2. Sound(c) /\ FreeFrames(c) = FreeFrames(m) /\ SameEntries(m, c)
  <2>1. HasFreeList(c) /\ FreeFrames(c) = FreeFrames(m)
    BY <1>0, <1>1, SameFreeList
  <2>2. SameUpper(c) /\ SameEntries(m, c)
    BY <1>0, <1>1, OutsideUsable
  <2> QED
    BY <1>0, <1>1, <2>1, <2>2 DEF Sound
<1>3. q = LET a   == PhysLook(c, S.table)
              pte == Peek(a, i)
              b   == IF HasF(pte) THEN FreePage(a, Addr(pte)) ELSE a
          IN  IF ~S.found THEN c
              ELSE IF HasP(pte) THEN Poke(b, i, ClearP(Peek(b, i))) ELSE a
  BY DEF UnmapPage, S, c
<1> HIDE DEF q
<1>4. CASE t = NoFrame
  <2>1. q = c
    BY <1>1, <1>3, <1>4
  <2> QED
    BY <1>1, <1>2, <1>4, <2>1 DEF Unmaps, SameEntries, q, t
<1>5. CASE t # NoFrame
  <2> DEFINE a == PhysLook(c, t)
  <2>1. t \in Frame /\ i \in Slots
    BY <1>5, LeafFacts
  <2>2. /\ Sound(a) /\ FreeFrames(a) = FreeFrames(m) /\ SameEntries(c, a)
        /\ a.win = t /\ a.mem = m.mem /\ a.root = m.root /\ a.panic = m.panic
    BY <1>1, <1>2, <2>1, LookSound
  <2>3. q = LET pte == Peek(a, i)
                b   == IF HasF(pte) THEN FreePage(a, Addr(pte)) ELSE a
            IN  IF HasP(pte) THEN Poke(b, i, ClearP(Peek(b, i))) ELSE a
    BY <1>1, <1>3, <1>5
  <2> HIDE DEF a
  <2>4. Peek(a, i) = e
    BY <2>2 DEF Peek, Entry
  <2>5. ~HasF(e) /\ e \in Nat
    BY <1>0, <1>5, EntryType
  <2>6. \A u \in Page : Leaf(u) # NoFrame => Entry(a, u) = Entry(m, u)
    BY <2>2 DEF Entry
  <2>7. q = IF HasP(e) THEN Poke(a, i, ClearP(e)) ELSE a
    BY <2>3, <2>4, <2>5
  <2>8. CASE ~HasP(e)
    <3>1. q = a
      BY <2>7, <2>8
    <3>2. Entry(a, v) = e
      BY <1>5, <2>6
    <3> QED
      BY <2>2, <2>5, <2>6, <2>8, <3>1, <3>2 DEF Unmaps, q
  <2>9. CASE HasP(e)
    <3> DEFINE w == ClearP(e)
    <3>1. w \in Nat /\ ~HasP(w) /\ ~HasF(w)
      BY <2>5, ClearPParts
    <3>2. q = Poke(a, Index(v, 0), w)
      BY <2>7, <2>9
    <3> HIDE DEF w
    <3>3. /\ Sound(q) /\ FreeFrames(q) = FreeFrames(a) /\ q.root = a.root
          /\ q.panic = a.panic
          /\ Entry(q, v) = w
          /\ \A u \in Page : u # v /\ Leaf(u) # NoFrame => Entry(q, u) = Entry(a, u)
      BY <1>5, <2>2, <3>1, <3>2, WriteSound
    <3>4. \A u \in Page : u # v /\ Leaf(u) # NoFrame => Entry(q, u) = Entry(m, u)
      BY <2>6, <3>3
    <3> QED
      BY <2>2, <3>1, <3>3, <3>4 DEF Unmaps, q
  <2> QED
    BY <2>8, <2>9
<1> QED
  BY <1>4, <1>5

-----------------------------------------------------------------------------
(***************************************************************************)
(* The invariant                                                           *)
(***************************************************************************)

\* The pages that are mapped with PAGE_F_BIT.
FreeBitPages == {p[1] : p \in {x \in Mappings : x[3] = 3}}

\* PAGE_F_BIT says that the frame of the page is map_page's to free.  It keeps
\* its meaning as long as such a page is not unmapped, which frees the frame and
\* leaves the bit, and is not mapped to one frame of a device after another,
\* which would free the first.
FreeBitKept ==
    \A v \in FreeBitPages :
        /\ v \notin UnmapPages
        /\ Translation(LoaderMach)[v] = NoFrame
        /\ \A p, x \in Mappings :
              p[1] = v /\ x[1] = v /\ p[2] # 0 /\ x[2] # 0 => p[2] = x[2]

AddedFrames == UNION {RegionFrames(r) : r \in added}

IsDevice(v, f) == f # 0 /\ \E p \in Mappings : p[1] = v /\ p[2] = f

EntryOk(v) ==
    LET e == Entry(mach, v)
    IN  /\ HasF(e) => HasP(e) /\ v \in FreeBitPages
        /\ HasP(e) => Addr(e) \in Frame
        /\ v \in FreeBitPages /\ HasP(e) => Addr(e) \in Usable \/ IsDevice(v, Addr(e))
        /\ HasP(e) /\ Addr(e) \in Usable =>
              /\ Addr(e) \in AddedFrames \ FreeFrames(mach)
              /\ \A u \in Page :
                    Leaf(u) # NoFrame /\ HasP(Entry(mach, u)) /\ Addr(Entry(mach, u)) = Addr(e)
                        => u = v

\* The free list is a list of added frames, and a page that maps to usable memory
\* has its frame for itself.
MapperInv ==
    /\ added \subseteq Regions
    /\ Sound(mach)
    /\ FreeFrames(mach) \subseteq AddedFrames
    /\ \A v \in Page : Leaf(v) # NoFrame => EntryOk(v)

LEMMA AddedUsable ==
  ASSUME added \subseteq Regions
  PROVE  AddedFrames \subseteq Usable /\ (added = Regions => AddedFrames = Usable)
  BY DEF AddedFrames, Usable

LEMMA InitHasFreeList ==
  ASSUME NEW m \in Machine, m.free = 0
  PROVE  HasFreeList(m) /\ FreeFrames(m) = {}
<1> DEFINE s == [k \in 0..0 |-> 0]
<1>1. 0 \in Frame
  BY PageTablesAssumption DEF Frame
<1>2. IsFreeList(m, s, 0)
  BY <1>1 DEF IsFreeList
<1>3. 0 \in Nat /\ ListFrames(m, s, 0) = {}
  BY DEF ListFrames
<1> HIDE DEF s
<1> QED
  BY <1>2, <1>3, ListIsFreeList DEF HasFreeList

LEMMA MapperInvInit ==
  ASSUME FreeBitKept, MapperInit
  PROVE  MapperInv
<1> DEFINE m == LoaderMach
<1>1. mach = m /\ added = {}
  BY DEF MapperInit
<1>2. m \in Machine /\ SameUpper(m)
  BY LoaderMachine
<1>3. HasFreeList(m) /\ FreeFrames(m) = {}
  BY <1>2, InitHasFreeList DEF LoaderMach
<1>4. ASSUME NEW v \in Page, Leaf(v) # NoFrame PROVE EntryOk(v)
  <2> DEFINE e == Entry(m, v)
  <2>1. ~HasF(e)
    BY <1>4, LoaderAssumption DEF Leaf, Path, LeafTable, LeafEntry, Entry
  <2>2. Translation(m)[v] = PageFrame(m, v)
    BY <1>2, SeenThroughTables
  <2>3. HasP(e) => Addr(e) \in (Frame \ Usable) \cup {NoFrame} /\ Addr(e) # NoFrame
    <3>1. Addr(e) # NoFrame
      <4>1. Addr(e) \in Nat
        BY <1>2, <1>4, EntryType
      <4> HIDE DEF e
      <4> QED
        BY <4>1 DEF NoFrame
    <3>2. HasP(e) => Translation(m)[v] = Addr(e)
      BY <1>4, <2>2 DEF PageFrame
    <3> QED
      BY <3>1, <3>2, LoaderAssumption
  <2>4. v \in FreeBitPages => ~HasP(e)
    BY <1>4, <2>2, <2>3 DEF PageFrame, FreeBitKept
  <2> QED
    BY <1>1, <2>1, <2>3, <2>4 DEF EntryOk
<1> QED
  BY <1>1, <1>2, <1>3, <1>4 DEF MapperInv, Sound

-----------------------------------------------------------------------------
(***************************************************************************)
(* What the steps do                                                       *)
(***************************************************************************)

LEMMA AddPhysMemEffect ==
  ASSUME MapperInv, NEW r \in Regions, AddPhysMem(r)
  PROVE  /\ r \notin added /\ added' = added \cup {r}
         /\ Sound(mach') /\ SameEntries(mach, mach')
         /\ FreeFrames(mach') = FreeFrames(mach) \cup RegionFrames(r)
         /\ RegionFrames(r) \cap AddedFrames = {}
<1>1. /\ r \in Regions \ added /\ mach' = PushBlock(mach, r[1], r[2])
      /\ added' = added \cup {r}
  BY DEF AddPhysMem
<1>2. /\ r[1] \in Nat /\ r[2] \in Nat /\ r[2] >= 1
      /\ RegionFrames(r) = r[1]..(r[1] + r[2] - 1)
  BY MapperAssumption DEF RegionFrames
<1>3. RegionFrames(r) \cap AddedFrames = {}
  <2> SUFFICES ASSUME NEW x \in added PROVE RegionFrames(r) \cap RegionFrames(x) = {}
    BY DEF AddedFrames
  <2>1. x \in Regions /\ x # r
    BY <1>1 DEF MapperInv
  <2> QED
    BY <2>1, MapperAssumption
<1>4. RegionFrames(r) \subseteq Usable \ FreeFrames(mach)
  BY <1>3 DEF MapperInv, Usable
<1>5. r[1]..(r[1] + r[2] - 1) \subseteq Usable \ FreeFrames(mach) /\ Sound(mach)
  BY <1>2, <1>4 DEF MapperInv
<1> DEFINE q == PushBlock(mach, r[1], r[2])
<1>6. /\ Sound(q) /\ FreeFrames(q) = FreeFrames(mach) \cup r[1]..(r[1] + r[2] - 1)
      /\ SameEntries(mach, q)
  <2> DEFINE f == r[1]
             z == r[2]
  <2>1. f \in Nat /\ z \in Nat /\ z >= 1 /\ f..(f + z - 1) \subseteq Usable \ FreeFrames(mach)
    BY <1>2, <1>5
  <2> HIDE DEF f, z
  <2>2. LET x == PushBlock(mach, f, z)
        IN  /\ Sound(x) /\ FreeFrames(x) = FreeFrames(mach) \cup f..(f + z - 1)
            /\ SameEntries(mach, x)
    BY <1>5, <2>1, PushSound
  <2> QED
    BY <2>2 DEF f, z
<1> HIDE DEF q
<1>7. mach' = q
  BY <1>1 DEF q
<1> QED
  BY <1>1, <1>2, <1>3, <1>6, <1>7

\* A step that changes nothing the processor or the allocator sees.
Silent(m, q) == Sound(q) /\ SameEntries(m, q) /\ FreeFrames(q) = FreeFrames(m)

LEMMA PanicIsSilent ==
  ASSUME NEW m, Sound(m)
  PROVE  Silent(m, [m EXCEPT !.panic = TRUE])
<1> DEFINE q == [m EXCEPT !.panic = TRUE]
<1>0. m \in Machine /\ SameUpper(m) /\ HasFreeList(m) /\ FreeFrames(m) \subseteq Usable
  BY DEF Sound
<1>1. q \in Machine /\ q.mem = m.mem /\ q.free = m.free /\ q.root = m.root
  BY <1>0 DEF Machine
<1> HIDE DEF q
<1>2. HasFreeList(q) /\ FreeFrames(q) = FreeFrames(m)
  BY <1>0, <1>1, SameFreeList
<1>3. SameUpper(q) /\ SameEntries(m, q)
  BY <1>0, <1>1, OutsideUsable
<1> QED
  BY <1>0, <1>1, <1>2, <1>3 DEF Silent, Sound, q

LEMMA MappingFacts ==
  ASSUME NEW p \in Mappings
  PROVE  /\ p[1] \in Page /\ p[2] \in Frame /\ p[3] \in {1, 3} /\ HasP(p[3])
         /\ Leaf(p[1]) # NoFrame
         /\ p[2] # 0 => p[2] \notin Usable /\ p[3] = 1 /\ IsDevice(p[1], p[2])
         /\ p[3] = 3 => p[1] \in FreeBitPages
<1>1. p \in Page \X Frame \X {1, 3}
  BY MapperAssumption
<1>2. p[1] \in Page /\ p[2] \in Frame /\ p[3] \in {1, 3}
  BY <1>1
<1>3. HasP(p[3])
  BY <1>2 DEF HasP
<1>4. Leaf(p[1]) # NoFrame /\ (p[2] # 0 => p[2] \notin Usable /\ p[3] = 1)
  BY LoaderAssumption DEF Leaf, Path, LeafTable
<1> QED
  BY <1>2, <1>3, <1>4 DEF IsDevice, FreeBitPages

LEMMA MapEffect ==
  ASSUME MapperInv, FreeBitKept, NEW p \in Mappings, CallMapPage(p[1], p[2], p[3])
  PROVE  /\ added = Regions /\ added' = added
         /\ \/ Silent(mach, mach')
            \/ \E f \in Nat : MapsTo(mach, mach', p[1], p[2], p[3], f)
<1> DEFINE v == p[1]
           phys == p[2]
           flags == p[3]
           e == Entry(mach, v)
<1>1. /\ v \in Page /\ phys \in Frame /\ flags \in {1, 3} /\ HasP(flags)
      /\ Leaf(v) # NoFrame
      /\ phys # 0 => phys \notin Usable /\ flags = 1 /\ IsDevice(v, phys)
      /\ flags = 3 => v \in FreeBitPages
  BY MappingFacts
<1>2. /\ added = Regions /\ added' = added
      /\ mach' = IF OutOfMemory(mach, v, phys, flags)
                   THEN [mach EXCEPT !.panic = TRUE]
                   ELSE MapPresent(mach, v, phys, flags)
  BY <1>1 DEF CallMapPage, MapPage
<1> HIDE DEF v, phys, flags
<1>3. Sound(mach) /\ EntryOk(v)
  BY <1>1 DEF MapperInv
<1>4. CASE OutOfMemory(mach, v, phys, flags)
  BY <1>2, <1>3, <1>4, PanicIsSilent
<1>5. CASE ~OutOfMemory(mach, v, phys, flags)
  <2>1. phys # 0 /\ phys # Addr(e) /\ HasF(e) => Addr(e) \in Usable \ FreeFrames(mach)
    <3> SUFFICES ASSUME phys # 0, phys # Addr(e), HasF(e)
                 PROVE  Addr(e) \in Usable \ FreeFrames(mach)
      OBVIOUS
    <3>1. HasP(e) /\ v \in FreeBitPages
      BY <1>3 DEF EntryOk
    <3>2. ~IsDevice(v, Addr(e))
      <4> SUFFICES ASSUME IsDevice(v, Addr(e)) PROVE FALSE
        OBVIOUS
      <4>1. PICK x \in Mappings : x[1] = v /\ x[2] = Addr(e)
        BY DEF IsDevice
      <4>2. Addr(e) # 0
        BY DEF IsDevice
      <4>3. p[1] = v /\ p[2] = phys
        BY DEF v, phys
      <4> QED
        BY <3>1, <4>1, <4>2, <4>3 DEF FreeBitKept
    <3> QED
      BY <1>3, <3>1, <3>2 DEF EntryOk
  <2>2. \E f \in Nat : MapsTo(mach, MapPresent(mach, v, phys, flags), v, phys, flags, f)
    BY <1>1, <1>3, <1>5, <2>1, MapPresentEffect
  <2>3. \E f \in Nat : MapsTo(mach, mach', v, phys, flags, f)
    BY <1>2, <1>5, <2>2
  <2> QED
    BY <1>2, <2>3 DEF v, phys, flags
<1> QED
  BY <1>2, <1>4, <1>5

LEMMA UnmapEffect ==
  ASSUME MapperInv, FreeBitKept, NEW v \in UnmapPages, CallMapPage(v, 0, 0)
  PROVE  /\ v \in Page /\ added = Regions /\ added' = added
         /\ Unmaps(mach, mach', v)
<1>1. ~HasP(0) /\ v \in Page
  BY MapperAssumption DEF HasP
<1>2. added = Regions /\ added' = added /\ mach' = UnmapPage(mach, v)
  BY <1>1 DEF CallMapPage, OutOfMemory, MapPage
<1>3. Sound(mach) /\ (Leaf(v) # NoFrame => ~HasF(Entry(mach, v)))
  BY <1>1 DEF MapperInv, EntryOk, FreeBitKept
<1>4. Unmaps(mach, UnmapPage(mach, v), v)
  BY <1>1, <1>3, UnmapPageEffect
<1> QED
  BY <1>1, <1>2, <1>4

-----------------------------------------------------------------------------
(***************************************************************************)
(* The invariant holds                                                     *)
(***************************************************************************)

LEMMA InvSilent ==
  ASSUME MapperInv, Silent(mach, mach'), added' = added
  PROVE  MapperInv'
<1>1. /\ Sound(mach') /\ FreeFrames(mach') = FreeFrames(mach)
      /\ \A v \in Page : Leaf(v) # NoFrame => Entry(mach', v) = Entry(mach, v)
  BY DEF Silent, SameEntries
<1>2. ASSUME NEW v \in Page, Leaf(v) # NoFrame PROVE EntryOk(v)'
  <2>1. EntryOk(v)
    BY <1>2 DEF MapperInv
  <2> QED
    BY <1>1, <1>2, <2>1 DEF EntryOk, AddedFrames
<1> QED
  BY <1>1, <1>2 DEF MapperInv, AddedFrames

LEMMA InvAddPhysMem ==
  ASSUME MapperInv, NEW r \in Regions, AddPhysMem(r)
  PROVE  MapperInv'
<1>1. /\ added' = added \cup {r} /\ Sound(mach')
      /\ \A v \in Page : Leaf(v) # NoFrame => Entry(mach', v) = Entry(mach, v)
      /\ FreeFrames(mach') = FreeFrames(mach) \cup RegionFrames(r)
      /\ RegionFrames(r) \cap AddedFrames = {}
  BY AddPhysMemEffect DEF SameEntries
<1>2. AddedFrames' = AddedFrames \cup RegionFrames(r)
  BY <1>1 DEF AddedFrames
<1>3. ASSUME NEW v \in Page, Leaf(v) # NoFrame PROVE EntryOk(v)'
  <2>1. EntryOk(v)
    BY <1>3 DEF MapperInv
  <2> QED
    BY <1>1, <1>2, <1>3, <2>1 DEF EntryOk
<1> QED
  BY <1>1, <1>2, <1>3 DEF MapperInv

LEMMA InvUnmap ==
  ASSUME MapperInv, FreeBitKept, NEW v \in UnmapPages, CallMapPage(v, 0, 0)
  PROVE  MapperInv'
<1>1. /\ v \in Page /\ added' = added
      /\ Sound(mach') /\ FreeFrames(mach') = FreeFrames(mach)
      /\ Leaf(v) # NoFrame => ~HasP(Entry(mach', v)) /\ ~HasF(Entry(mach', v))
      /\ \A u \in Page : u # v /\ Leaf(u) # NoFrame => Entry(mach', u) = Entry(mach, u)
  BY UnmapEffect DEF Unmaps
<1>2. ASSUME NEW u \in Page, Leaf(u) # NoFrame PROVE EntryOk(u)'
  <2>1. CASE u = v
    BY <1>1, <1>2, <2>1 DEF EntryOk
  <2>2. CASE u # v
    <3>1. EntryOk(u) /\ Entry(mach', u) = Entry(mach, u)
      BY <1>1, <1>2, <2>2 DEF MapperInv
    <3> QED
      BY <1>1, <1>2, <3>1 DEF EntryOk, AddedFrames
  <2> QED
    BY <2>1, <2>2
<1> QED
  BY <1>1, <1>2 DEF MapperInv, AddedFrames

LEMMA InvMap ==
  ASSUME MapperInv, FreeBitKept, NEW p \in Mappings, CallMapPage(p[1], p[2], p[3])
  PROVE  MapperInv'
<1> DEFINE v == p[1]
           phys == p[2]
           flags == p[3]
           e == Entry(mach, v)
<1>1. /\ added = Regions /\ added' = added
      /\ \/ Silent(mach, mach')
         \/ \E f \in Nat : MapsTo(mach, mach', v, phys, flags, f)
  BY MapEffect
<1>2. /\ v \in Page /\ phys \in Frame /\ flags \in {1, 3} /\ Leaf(v) # NoFrame
      /\ phys # 0 => phys \notin Usable /\ flags = 1 /\ IsDevice(v, phys)
      /\ flags = 3 => v \in FreeBitPages
  BY MappingFacts
<1> HIDE DEF v, phys, flags
<1>3. CASE Silent(mach, mach')
  BY <1>1, <1>3, InvSilent
<1>4. ASSUME NEW f \in Nat, MapsTo(mach, mach', v, phys, flags, f) PROVE MapperInv'
  <2> DEFINE Cases ==
         \/ phys = 0 /\ HasP(e) /\ f = Addr(e) /\ FreeFrames(mach') = FreeFrames(mach)
         \/ /\ phys = 0 /\ ~HasP(e)
            /\ f \in FreeFrames(mach) /\ FreeFrames(mach') = FreeFrames(mach) \ {f}
         \/ /\ phys # 0 /\ f = phys /\ phys # Addr(e) /\ HasF(e)
            /\ FreeFrames(mach') = FreeFrames(mach) \cup {Addr(e)}
         \/ phys # 0 /\ f = phys /\ FreeFrames(mach') = FreeFrames(mach)
  <2>1. /\ Sound(mach') /\ Entry(mach', v) = PageEntry(f, flags)
        /\ \A u \in Page : u # v /\ Leaf(u) # NoFrame => Entry(mach', u) = Entry(mach, u)
        /\ Cases
    BY <1>4 DEF MapsTo
  <2>2. /\ Addr(PageEntry(f, flags)) = f /\ HasP(PageEntry(f, flags))
        /\ HasF(PageEntry(f, flags)) => v \in FreeBitPages
    BY <1>2, EntryParts
  <2>3. AddedFrames = Usable /\ AddedFrames' = Usable /\ FreeFrames(mach) \subseteq Usable
    BY <1>1 DEF AddedFrames, Usable, MapperInv, Sound
  <2>4. FreeFrames(mach') \subseteq Usable
    BY <2>1 DEF Sound
  <2>5. EntryOk(v)
    BY <1>2 DEF MapperInv
  <2>6. ASSUME NEW u \in Page, u # v, Leaf(u) # NoFrame,
               HasP(Entry(mach, u)), Addr(Entry(mach, u)) \in Usable
        PROVE  Addr(Entry(mach, u)) # f /\ Addr(Entry(mach, u)) \notin FreeFrames(mach')
    <3>1. /\ Addr(Entry(mach, u)) \notin FreeFrames(mach)
          /\ HasP(e) => Addr(e) # Addr(Entry(mach, u))
      BY <1>2, <2>6 DEF MapperInv, EntryOk
    <3>2. HasF(e) => HasP(e)
      BY <2>5 DEF EntryOk
    <3> QED
      BY <1>2, <2>1, <2>6, <3>1, <3>2
  <2>7. ASSUME NEW u \in Page, Leaf(u) # NoFrame PROVE EntryOk(u)'
    <3>1. CASE u = v
      <4>1. f \in Frame
        BY <1>2, <2>1, <2>3, <2>5, UsableType DEF EntryOk
      <4>2. v \in FreeBitPages => f \in Usable \/ IsDevice(v, f)
        BY <1>2, <2>1, <2>3, <2>5 DEF EntryOk
      <4>3. f \in Usable => f \notin FreeFrames(mach')
        BY <1>2, <2>1, <2>3, <2>5 DEF EntryOk
      <4>4. ASSUME f \in Usable, NEW x \in Page, Leaf(x) # NoFrame, HasP(Entry(mach', x)),
                   Addr(Entry(mach', x)) = f
            PROVE  x = v
        BY <2>1, <2>6, <4>4
      <4> QED
        BY <2>1, <2>2, <2>3, <3>1, <4>1, <4>2, <4>3, <4>4 DEF EntryOk
    <3>2. CASE u # v
      <4> DEFINE d == Entry(mach, u)
      <4>1. EntryOk(u) /\ Entry(mach', u) = d
        BY <2>1, <2>7, <3>2 DEF MapperInv
      <4>2. HasP(d) /\ Addr(d) \in Usable => Addr(d) \notin FreeFrames(mach')
        BY <2>6, <2>7, <3>2
      <4>3. ASSUME HasP(d), Addr(d) \in Usable, NEW x \in Page, Leaf(x) # NoFrame,
                   HasP(Entry(mach', x)), Addr(Entry(mach', x)) = Addr(d)
            PROVE  x = u
        <5>1. x # v
          BY <2>1, <2>2, <2>6, <2>7, <3>2, <4>3
        <5>2. Entry(mach', x) = Entry(mach, x)
          BY <2>1, <4>3, <5>1
        <5> QED
          BY <4>1, <4>3, <5>2 DEF EntryOk
      <4> QED
        BY <2>3, <4>1, <4>2, <4>3 DEF EntryOk
    <3> QED
      BY <3>1, <3>2
  <2> QED
    BY <1>1, <2>1, <2>3, <2>4, <2>7 DEF MapperInv
<1> QED
  BY <1>1, <1>3, <1>4

LEMMA MapperInvNext ==
  ASSUME MapperInv, FreeBitKept, [MapperNext]_mapperVars
  PROVE  MapperInv'
<1>1. ASSUME NEW r \in Regions, AddPhysMem(r) PROVE MapperInv'
  BY <1>1, InvAddPhysMem
<1>2. ASSUME NEW p \in Mappings, CallMapPage(p[1], p[2], p[3]) PROVE MapperInv'
  BY <1>2, InvMap
<1>3. ASSUME NEW v \in UnmapPages, CallMapPage(v, 0, 0) PROVE MapperInv'
  BY <1>3, InvUnmap
<1>4. CASE UNCHANGED mapperVars
  <2>1. mach' = mach /\ added' = added
    BY <1>4 DEF mapperVars
  <2>2. Silent(mach, mach')
    BY <2>1 DEF Silent, SameEntries, MapperInv
  <2> QED
    BY <2>1, <2>2, InvSilent
<1> QED
  BY <1>1, <1>2, <1>3, <1>4 DEF MapperNext

\* The free list stays a list of frames of added memory, whatever map_page does
\* to its headers, as long as PAGE_F_BIT keeps its meaning.
THEOREM MapperInvariant ==
  ASSUME FreeBitKept
  PROVE  MapperSpec => []MapperInv
<1>1. MapperInit => MapperInv
  BY MapperInvInit
<1>2. MapperInv /\ [MapperNext]_mapperVars => MapperInv'
  BY MapperInvNext
<1> QED
  BY <1>1, <1>2, PTL DEF MapperSpec

LEMMA InvFrames ==
  ASSUME MapperInv
  PROVE  /\ FrameOf = [v \in Page |-> PageFrame(mach, v)]
         /\ Tables(mach) \subseteq Frame \ Usable
         /\ AddedFrames \subseteq Usable
         /\ \A v \in Page : PageFrame(mach, v) # NoFrame =>
               Leaf(v) # NoFrame /\ HasP(Entry(mach, v)) /\ PageFrame(mach, v) = Addr(Entry(mach, v))
<1>1. mach \in Machine /\ SameUpper(mach)
  BY DEF MapperInv, Sound
<1>2. FrameOf = [v \in Page |-> PageFrame(mach, v)] /\ Tables(mach) = Tables(LoaderMach)
  BY <1>1, SeenThroughTables DEF FrameOf
<1> QED
  BY <1>2, LoaderAssumption, AddedUsable DEF PageFrame, MapperInv

\* The free list that add_phys_mem, alloc_page and free_page keep in the free
\* frames themselves ends, and its blocks are disjoint pieces of added memory.
THEOREM FreeListIsSound ==
  ASSUME FreeBitKept
  PROVE  MapperSpec => []FreeListSound
<1>1. MapperInv => FreeListSound
  <2> SUFFICES ASSUME MapperInv PROVE FreeListSound
    OBVIOUS
  <2>1. mach \in Machine /\ HasFreeList(mach) /\ FreeFrames(mach) \subseteq AddedFrames
    BY DEF MapperInv, Sound
  <2> QED
    BY <2>1, FreeListFacts DEF FreeListSound, AddedFrames
<1> QED
  BY <1>1, MapperInvariant, PTL

\* alloc_page never hands out a frame that a page or a page table is in.
THEOREM FreeFramesAreUnused ==
  ASSUME FreeBitKept
  PROVE  MapperSpec => []FreeFramesUnused
<1>1. MapperInv => FreeFramesUnused
  <2> SUFFICES ASSUME MapperInv, NEW f \in FreeFrames(mach)
               PROVE  f \notin Tables(mach) /\ \A v \in Page : FrameOf[v] # f
    BY DEF FreeFramesUnused
  <2>1. f \in Usable /\ f # NoFrame
    BY UsableType, NoFrameIsNone DEF MapperInv, Sound
  <2>2. f \notin Tables(mach)
    BY <2>1, InvFrames
  <2>3. ASSUME NEW v \in Page, FrameOf[v] = f PROVE FALSE
    <3>1. Leaf(v) # NoFrame /\ HasP(Entry(mach, v)) /\ Addr(Entry(mach, v)) = f
      BY <2>1, <2>3, InvFrames
    <3> QED
      BY <2>1, <3>1 DEF MapperInv, EntryOk
  <2> QED
    BY <2>2, <2>3
<1> QED
  BY <1>1, MapperInvariant, PTL

\* Two pages that map_page gave usable memory never share a frame.
THEOREM AnonFramesArePrivate ==
  ASSUME FreeBitKept
  PROVE  MapperSpec => []AnonFramesPrivate
<1>1. MapperInv => AnonFramesPrivate
  <2> SUFFICES ASSUME MapperInv, NEW v \in Page, FrameOf[v] \in AddedFrames
               PROVE  /\ FrameOf[v] \notin Tables(mach)
                      /\ \A u \in Page : FrameOf[u] = FrameOf[v] => u = v
    BY DEF AnonFramesPrivate, AddedFrames
  <2> DEFINE f == FrameOf[v]
  <2>1. f \in Usable /\ f # NoFrame
    BY InvFrames, UsableType, NoFrameIsNone
  <2>2. f \notin Tables(mach)
    BY <2>1, InvFrames
  <2>3. \A u \in Page : FrameOf[u] = f =>
          Leaf(u) # NoFrame /\ HasP(Entry(mach, u)) /\ Addr(Entry(mach, u)) = f
    BY <2>1, InvFrames
  <2> HIDE DEF f
  <2>4. FrameOf[v] = f
    BY DEF f
  <2>5. EntryOk(v) /\ HasP(Entry(mach, v)) /\ Addr(Entry(mach, v)) = f
    BY <2>3, <2>4 DEF MapperInv
  <2>6. ASSUME NEW u \in Page, FrameOf[u] = f PROVE u = v
    BY <2>1, <2>3, <2>5, <2>6 DEF EntryOk
  <2> QED
    BY <2>2, <2>4, <2>6
<1> QED
  BY <1>1, MapperInvariant, PTL

-----------------------------------------------------------------------------
(***************************************************************************)
(* The refinement of AddressSpace                                          *)
(***************************************************************************)

\* Where the entries of all pages but v are the same, v alone is translated anew.
LEMMA TranslationChanges ==
  ASSUME MapperInv, MapperInv', NEW v \in Page, NEW f,
         \A u \in Page : u # v /\ Leaf(u) # NoFrame => Entry(mach', u) = Entry(mach, u),
         PageFrame(mach', v) = f
  PROVE  FrameOf' = [FrameOf EXCEPT ![v] = f]
<1>1. mach' \in Machine /\ SameUpper(mach')
  BY DEF MapperInv, Sound
<1>2. FrameOf' = [u \in Page |-> PageFrame(mach', u)]
  <2>1. Translation(mach') = [u \in Page |-> PageFrame(mach', u)]
    BY <1>1, SeenThroughTables
  <2> QED
    BY <2>1 DEF FrameOf
<1>3. FrameOf = [u \in Page |-> PageFrame(mach, u)]
  BY InvFrames
<1>4. \A u \in Page : u # v => PageFrame(mach', u) = PageFrame(mach, u)
  BY DEF PageFrame
<1> QED
  BY <1>2, <1>3, <1>4

LEMMA SilentStutters ==
  ASSUME MapperInv, MapperInv', SameEntries(mach, mach')
  PROVE  FrameOf' = FrameOf
<1>1. mach' \in Machine /\ SameUpper(mach')
  BY DEF MapperInv, Sound
<1>2. FrameOf' = [u \in Page |-> PageFrame(mach', u)]
  <2>1. Translation(mach') = [u \in Page |-> PageFrame(mach', u)]
    BY <1>1, SeenThroughTables
  <2> QED
    BY <2>1 DEF FrameOf
<1>3. \A u \in Page : PageFrame(mach', u) = PageFrame(mach, u)
  BY DEF PageFrame, SameEntries
<1> QED
  BY <1>2, <1>3, InvFrames

LEMMA InitRefines ==
  ASSUME FreeBitKept, MapperInit
  PROVE  AS!Init
<1>1. MapperInv
  BY MapperInvInit
<1>2. FrameOf \in [Page -> Frame \cup {NoFrame}]
  BY LoaderAssumption DEF MapperInit, FrameOf, Translation
<1>3. FreeFrames(mach) = {}
  BY <1>1 DEF MapperInv, MapperInit, AddedFrames
<1> QED
  BY <1>2, <1>3 DEF AS!Init

\* What joins the free list is mapped by no page: nothing free is.
LEMMA JoinsUnused ==
  ASSUME FreeFramesUnused'
  PROVE  AS!FreesUnused
BY DEF FreeFramesUnused, AS!FreesUnused

LEMMA MapRefines ==
  ASSUME MapperInv, MapperInv', FreeFramesUnused', FreeBitKept,
         NEW p \in Mappings, CallMapPage(p[1], p[2], p[3])
  PROVE  [AS!Next]_<<FrameOf, FreeFrames(mach)>>
<1> DEFINE v == p[1]
           phys == p[2]
           flags == p[3]
           e == Entry(mach, v)
<1>1. \/ Silent(mach, mach')
      \/ \E f \in Nat : MapsTo(mach, mach', v, phys, flags, f)
  BY MapEffect
<1>2. /\ v \in Page /\ phys \in Frame /\ flags \in {1, 3} /\ Leaf(v) # NoFrame
      /\ phys # 0 => phys \notin Usable
  BY MappingFacts
<1> HIDE DEF v, phys, flags
<1>3. CASE Silent(mach, mach')
  <2>1. FrameOf' = FrameOf /\ FreeFrames(mach') = FreeFrames(mach)
    BY <1>3, SilentStutters DEF Silent
  <2>2. FreeFrames(mach)' = FreeFrames(mach')
    BY DEF FreeFrames, Blocks, BlockFrames, FreeList, NextBlock
  <2> QED
    BY <2>1, <2>2
<1>4. ASSUME NEW f \in Nat, MapsTo(mach, mach', v, phys, flags, f)
      PROVE  [AS!Next]_<<FrameOf, FreeFrames(mach)>>
  <2> DEFINE old == FrameOf[v]
             free == FreeFrames(mach)
             next == FreeFrames(mach')
  <2>1. /\ Entry(mach', v) = PageEntry(f, flags)
        /\ \A u \in Page : u # v /\ Leaf(u) # NoFrame => Entry(mach', u) = Entry(mach, u)
        /\ \/ phys = 0 /\ HasP(e) /\ f = Addr(e) /\ next = free
           \/ phys = 0 /\ ~HasP(e) /\ f \in free /\ next = free \ {f}
           \/ /\ phys # 0 /\ f = phys /\ phys # Addr(e) /\ HasF(e)
              /\ next = free \cup {Addr(e)}
           \/ phys # 0 /\ f = phys /\ next = free
    BY <1>4 DEF MapsTo
  <2>2. PageFrame(mach', v) = f
    BY <1>2, <2>1, EntryParts DEF PageFrame
  <2>3. FrameOf' = [FrameOf EXCEPT ![v] = f]
    BY <1>2, <2>1, <2>2, TranslationChanges
  <2>4. /\ FrameOf = [u \in Page |-> PageFrame(mach, u)]
        /\ old = IF HasP(e) THEN Addr(e) ELSE NoFrame
        /\ free \subseteq Usable
        /\ HasF(e) => HasP(e)
        /\ Addr(e) # NoFrame
    <3>1. FrameOf = [u \in Page |-> PageFrame(mach, u)]
      BY InvFrames
    <3>2. Addr(e) # NoFrame
      <4>1. mach \in Machine
        BY DEF MapperInv, Sound
      <4>2. Addr(e) \in Nat
        BY <1>2, <4>1, EntryType
      <4> HIDE DEF e
      <4> QED
        BY <4>2 DEF NoFrame
    <3>3. old = IF HasP(e) THEN Addr(e) ELSE NoFrame
      BY <1>2, <3>1 DEF PageFrame
    <3>4. free \subseteq Usable /\ (HasF(e) => HasP(e))
      BY <1>2 DEF MapperInv, Sound, EntryOk
    <3> QED
      BY <3>1, <3>2, <3>3, <3>4
  <2>5. free' = next
    BY DEF FreeFrames, Blocks, BlockFrames, FreeList, NextBlock
  <2> HIDE DEF e
  <2>6. CASE phys = 0 /\ HasP(e) /\ f = Addr(e) /\ next = free
    <3>1. FrameOf' = FrameOf
      BY <1>2, <2>3, <2>4, <2>6
    <3> QED
      BY <2>5, <2>6, <3>1
  <2>7. CASE phys = 0 /\ ~HasP(e) /\ f \in free /\ next = free \ {f}
    <3>1. AS!MapFresh(v)
      BY <2>3, <2>4, <2>5, <2>7 DEF AS!MapFresh
    <3> QED
      BY <1>2, <3>1 DEF AS!Next
  <2>8. CASE /\ phys # 0 /\ f = phys /\ phys # Addr(e) /\ HasF(e)
             /\ next = free \cup {Addr(e)}
    <3>1. next = free \cup ({old} \ {NoFrame, f}) /\ f \notin free
      BY <1>2, <2>4, <2>8
    <3> HIDE DEF free, next, old
    <3>2. AS!MapFrame(v, f)
      BY <2>3, <2>5, <3>1, JoinsUnused DEF AS!MapFrame, old, free
    <3> QED
      BY <1>2, <2>8, <3>2 DEF AS!Next
  <2>9. CASE phys # 0 /\ f = phys /\ next = free
    <3>1. AS!MapFrame(v, f)
      BY <1>2, <2>3, <2>4, <2>5, <2>9, JoinsUnused DEF AS!MapFrame
    <3> QED
      BY <1>2, <2>9, <3>1 DEF AS!Next
  <2> QED
    BY <2>1, <2>6, <2>7, <2>8, <2>9
<1> QED
  BY <1>1, <1>3, <1>4

LEMMA UnmapRefines ==
  ASSUME MapperInv, MapperInv', FreeBitKept, NEW v \in UnmapPages, CallMapPage(v, 0, 0)
  PROVE  AS!Next
<1>1. /\ v \in Page /\ FreeFrames(mach') = FreeFrames(mach)
      /\ Leaf(v) # NoFrame => ~HasP(Entry(mach', v))
      /\ \A u \in Page : u # v /\ Leaf(u) # NoFrame => Entry(mach', u) = Entry(mach, u)
  BY UnmapEffect DEF Unmaps
<1>2. PageFrame(mach', v) = NoFrame
  BY <1>1 DEF PageFrame
<1>3. FrameOf' = [FrameOf EXCEPT ![v] = NoFrame]
  BY <1>1, <1>2, TranslationChanges
<1>4. FreeFrames(mach)' = FreeFrames(mach)
  BY <1>1 DEF FreeFrames, Blocks, BlockFrames, FreeList, NextBlock
<1>5. AS!Unmap(v)
  BY <1>3, <1>4 DEF AS!Unmap
<1> QED
  BY <1>1, <1>5 DEF AS!Next

\* mapper.c implements AddressSpace: map_page changes the translation of its page
\* only, an anonymous page gets a free frame, nothing else leaves the list, and a
\* frame joins it only when no page maps to it.
THEOREM MapperRefinesAddressSpace ==
  ASSUME FreeBitKept
  PROVE  MapperSpec => MapperIsAddressSpace
<1>1. MapperInit => AS!Init
  BY InitRefines
<1>2. MapperInv /\ MapperInv' /\ FreeFramesUnused' /\ [MapperNext]_mapperVars
        => [AS!Next]_<<FrameOf, FreeFrames(mach)>>
  <2> SUFFICES ASSUME MapperInv, MapperInv', FreeFramesUnused',
                      [MapperNext]_mapperVars
               PROVE  [AS!Next]_<<FrameOf, FreeFrames(mach)>>
    OBVIOUS
  <2>1. ASSUME NEW r \in Regions, AddPhysMem(r) PROVE AS!Next
    <3>1. /\ SameEntries(mach, mach')
          /\ FreeFrames(mach') = FreeFrames(mach) \cup RegionFrames(r)
      BY <2>1, AddPhysMemEffect
    <3>2. FrameOf' = FrameOf
      BY <3>1, SilentStutters
    <3>3. FreeFrames(mach)' = FreeFrames(mach')
      BY DEF FreeFrames, Blocks, BlockFrames, FreeList, NextBlock
    <3>4. AS!AddMemory
      BY <3>1, <3>2, <3>3, JoinsUnused DEF AS!AddMemory
    <3> QED
      BY <3>4 DEF AS!Next
  <2>2. ASSUME NEW p \in Mappings, CallMapPage(p[1], p[2], p[3])
        PROVE  [AS!Next]_<<FrameOf, FreeFrames(mach)>>
    BY <2>2, MapRefines
  <2>3. ASSUME NEW v \in UnmapPages, CallMapPage(v, 0, 0) PROVE AS!Next
    BY <2>3, UnmapRefines
  <2>4. CASE UNCHANGED mapperVars
    BY <2>4 DEF mapperVars, FrameOf, Translation, Walk, Child, FreeFrames, Blocks,
                BlockFrames, FreeList, NextBlock
  <2> QED
    BY <2>1, <2>2, <2>3, <2>4 DEF MapperNext
<1> QED
  BY <1>1, <1>2, MapperInvariant, FreeFramesAreUnused, PTL
  DEF MapperSpec, MapperIsAddressSpace, AS!Spec
=============================================================================
