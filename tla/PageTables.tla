----------------------------- MODULE PageTables -----------------------------
(***************************************************************************)
(* Physical memory with the page tables and the list of free blocks in it, *)
(* and the operations of src/src/memory/mapper.c on them.                  *)
(*                                                                         *)
(* A frame of physical memory has Entries words.  In a page table a word   *)
(* is an entry, in the first frame of a free block words 0 and 1 are the   *)
(* size and next of a page_header_t; the same word can be read as either,  *)
(* as in the code.  An entry is 4 * frame + 2 * F + P, with the frame      *)
(* address, PAGE_F_BIT and PAGE_P_BIT; the other flags do not matter here. *)
(* An address of a frame is an entry without flags; NULL is 0.             *)
(*                                                                         *)
(* The operators work on a machine m: its memory mem, the frame win in the *)
(* window, the list free, the pml4 root, and whether it has panicked.      *)
(***************************************************************************)
EXTENDS Integers, Sequences

CONSTANTS
    Entries,    \* words of a frame, PAGE_TABLE_SIZE, scaled
    Levels,     \* levels of page tables: 4 in the code
    Frames      \* number of physical frames

\* The number of pages below an entry of level l; 0 is the last.
Span[l \in 0..Levels] == IF l = 0 THEN 1 ELSE Entries * Span[l - 1]

Frame == 0..(Frames - 1)
Page == 0..(Span[Levels] - 1)

ASSUME PageTablesAssumption ==
    /\ Entries \in Nat /\ Entries >= 2
    /\ Levels \in Nat \ {0}
    /\ Frames \in Nat \ {0}

-----------------------------------------------------------------------------
(***************************************************************************)
(* Words                                                                   *)
(***************************************************************************)

HasP(w) == w % 2 = 1
HasF(w) == (w \div 2) % 2 = 1
Addr(w) == w \div 4
PageEntry(f, flags) == 4 * f + flags

\* w |= flags
SetFlags(w, flags) ==
    4 * Addr(w) + (IF HasF(w) \/ HasF(flags) THEN 2 ELSE 0)
                + (IF HasP(w) \/ HasP(flags) THEN 1 ELSE 0)

\* w &= ~PAGE_P_BIT
ClearP(w) == IF HasP(w) THEN w - 1 ELSE w

\* BITS(virt, ...): the index of a page in its table of level l.
Index(v, l) == (v \div Span[l]) % Entries

-----------------------------------------------------------------------------
(***************************************************************************)
(* The window.  Every access goes to the frame looked at last.             *)
(***************************************************************************)

PhysLook(m, f) == [m EXCEPT !.win = f]
Peek(m, i) == m.mem[m.win][i]
Poke(m, i, w) == [m EXCEPT !.mem[m.win][i] = w]

-----------------------------------------------------------------------------
(***************************************************************************)
(* The allocator of frames: a list of blocks, the header in the first      *)
(* frame of each.                                                          *)
(***************************************************************************)

\* Push a block of n frames that begins at frame f.
PushBlock(m, f, n) ==
    LET w == Poke(Poke(PhysLook(m, f), 0, n), 1, PageEntry(m.free, 0))
    IN  [w EXCEPT !.free = f]

FreePage(m, f) == PushBlock(m, f, 1)

\* Mutation of AllocPage: the header is moved, the list still begins before it.
AllocPageStuck(m) ==
    LET a == PhysLook(m, m.free)
        b == PhysLook(a, m.free + 1)
    IN  IF Peek(a, 0) = 1
          THEN [a EXCEPT !.free = Addr(Peek(a, 1))]
          ELSE Poke(Poke(b, 0, Peek(a, 0) - 1), 1, Peek(a, 1))

\* Take the first frame of the first block, which is m.free.
AllocPage(m) ==
    LET a == PhysLook(m, m.free)
        b == PhysLook(a, m.free + 1)
    IN  IF Peek(a, 0) = 1
          THEN [a EXCEPT !.free = Addr(Peek(a, 1))]
          ELSE [Poke(Poke(b, 0, Peek(a, 0) - 1), 1, Peek(a, 1))
                  EXCEPT !.free = m.free + 1]

-----------------------------------------------------------------------------
(***************************************************************************)
(* unmap_page and map_page                                                 *)
(***************************************************************************)

\* One level of unmap_page: stop at an entry that is not present.
StepDown(c, i) ==
    IF ~c.found THEN c
    ELSE LET a == PhysLook(c.m, c.table)
         IN  [m |-> a, table |-> Addr(Peek(a, i)), found |-> HasP(Peek(a, i))]

Search(m, v) ==
    LET S[k \in 0..(Levels - 1)] ==
            IF k = 0 THEN [m |-> m, table |-> m.root, found |-> TRUE]
            ELSE StepDown(S[k - 1], Index(v, Levels - k))
    IN  S

\* Mutation of UnmapPage: it stops one level too early and clears the entry of
\* the last table.
UnmapPageLevel(m, v) ==
    LET c == Search(m, v)[Levels - 2]
        i == Index(v, 1)
        a == PhysLook(c.m, c.table)
    IN  IF ~c.found THEN c.m ELSE Poke(a, i, ClearP(Peek(a, i)))

\* free_page moves the window, so that pte points into the freed frame after it.
UnmapPage(m, v) ==
    LET c   == Search(m, v)[Levels - 1]
        i   == Index(v, 0)
        a   == PhysLook(c.m, c.table)
        pte == Peek(a, i)
        b   == IF HasF(pte) THEN FreePage(a, Addr(pte)) ELSE a
    IN  IF ~c.found THEN c.m
        ELSE IF HasP(pte) THEN Poke(b, i, ClearP(Peek(b, i))) ELSE a

\* One level of map_page.  The flags, which include P here, are set before the
\* test for P: a missing table is never allocated, and the address 0 of the
\* empty entry is taken for it.
Descend(c, i) ==
    LET a == PhysLook(c.m, c.table)
        w == SetFlags(Peek(a, i), c.flags)
    IN  [m |-> Poke(a, i, w), table |-> Addr(w), flags |-> c.flags]

Descent(m, v, flags) ==
    LET D[k \in 0..(Levels - 1)] ==
            IF k = 0 THEN [m |-> m, table |-> m.root, flags |-> flags]
            ELSE Descend(D[k - 1], Index(v, Levels - k))
    IN  D

\* Is there a frame for map_page to allocate where it needs one?
OutOfMemory(m, v, phys, flags) ==
    LET c == Descent(m, v, flags)[Levels - 1]
    IN  /\ HasP(flags)
        /\ phys = 0
        /\ ~HasP(c.m.mem[c.table][Index(v, 0)])
        /\ m.free = 0

\* Mutations of MapPresent: the entry that a frame replaces is always freed;
\* it is freed if it has F, whether it is replaced or not.
MapPresentFreeAlways(m, v, phys, flags) ==
    LET c   == Descent(m, v, flags)[Levels - 1]
        i   == Index(v, 0)
        a   == PhysLook(c.m, c.table)
        pte == Peek(a, i)
        b   == IF phys # 0 THEN FreePage(a, Addr(pte))
               ELSE IF HasP(pte) THEN a ELSE AllocPage(a)
        f   == IF phys # 0 THEN phys
               ELSE IF HasP(pte) THEN Addr(pte) ELSE a.free
    IN  Poke(PhysLook(b, c.table), i, PageEntry(f, flags))
MapPresentFreeEarly(m, v, phys, flags) ==
    LET c   == Descent(m, v, flags)[Levels - 1]
        i   == Index(v, 0)
        a   == PhysLook(c.m, c.table)
        pte == Peek(a, i)
        b   == IF HasF(pte) THEN FreePage(a, Addr(pte))
               ELSE IF phys # 0 \/ HasP(pte) THEN a ELSE AllocPage(a)
        f   == IF phys # 0 THEN phys
               ELSE IF HasP(pte) THEN Addr(pte) ELSE a.free
    IN  Poke(PhysLook(b, c.table), i, PageEntry(f, flags))

\* map_page with PAGE_P_BIT in flags.
MapPresent(m, v, phys, flags) ==
    LET c   == Descent(m, v, flags)[Levels - 1]
        i   == Index(v, 0)
        a   == PhysLook(c.m, c.table)
        pte == Peek(a, i)
        b   == IF phys = 0
                 THEN IF HasP(pte) THEN a ELSE AllocPage(a)
                 ELSE IF phys # Addr(pte) /\ HasF(pte)
                        THEN FreePage(a, Addr(pte))
                        ELSE a
        f   == IF phys # 0 THEN phys
               ELSE IF HasP(pte) THEN Addr(pte) ELSE a.free
    IN  Poke(PhysLook(b, c.table), i, PageEntry(f, flags))

MapPage(m, v, phys, flags) ==
    IF HasP(flags) THEN MapPresent(m, v, phys, flags) ELSE UnmapPage(m, v)

-----------------------------------------------------------------------------
(***************************************************************************)
(* What the processor and the allocator see                                *)
(***************************************************************************)

NoFrame == -1

\* What the entries with index i say of the tables they are in.
Child(m, i) ==
    [t \in Frame \cup {NoFrame} |->
        IF t # NoFrame /\ HasP(m.mem[t][i]) THEN Addr(m.mem[t][i]) ELSE NoFrame]

\* The page walk of the processor: after k levels it is at table Walk(m, v)[k].
Walk(m, v) ==
    LET T[k \in 0..Levels] ==
            IF k = 0 THEN m.root ELSE Child(m, Index(v, Levels - k))[T[k - 1]]
    IN  T

Translation(m) == [v \in Page |-> Walk(m, v)[Levels]]

\* The frames that hold page tables: reached through present entries.
Tables(m) ==
    {Walk(m, v)[k] : v \in Page, k \in 0..(Levels - 1)} \ {NoFrame}

\* The n-th block of the free list, 0 behind its end.
NextBlock(m) == [b \in Frame |-> IF b = 0 THEN 0 ELSE Addr(m.mem[b][1])]
FreeList(m) ==
    LET B[n \in 0..Frames] == IF n = 0 THEN m.free ELSE NextBlock(m)[B[n - 1]]
    IN  B

Blocks(m) == {FreeList(m)[n] : n \in 0..Frames} \ {0}
BlockFrames(m, b) == b..(b + m.mem[b][0] - 1)
FreeFrames(m) == UNION {BlockFrames(m, b) : b \in Blocks(m)}
=============================================================================
