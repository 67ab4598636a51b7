------------------------------- MODULE Malloc -------------------------------
(***************************************************************************)
(* The kernel heap: dlmalloc.c as this kernel builds it (no locks, no      *)
(* footers, no mmap, no mspaces) on top of sbrk of memory.c.  Addresses    *)
(* and sizes of chunks are counted in units of MALLOC_ALIGNMENT (16 bytes, *)
(* two words), requests in bytes.  A block's address mem is one unit above *)
(* its chunk's.                                                            *)
(*                                                                         *)
(* One record m is the whole state: the boundary tags in memory and the    *)
(* malloc_state gm.  m.head holds only the headers of existing chunks and  *)
(* m.foot only the prev_foot fields of chunks that follow a free one: any  *)
(* other such word is a caller's data, and reading it is an error of the   *)
(* model.  A circular list is a sequence in fd order.  A treebin is a      *)
(* function from the child indices that lead to a node to the ring of that *)
(* node's size, the node itself first.                                     *)
(***************************************************************************)
EXTENDS Integers, Sequences, SequencesExt, FiniteSets, FiniteSetsExt, TLC

CONSTANTS
  SIZE_T_BITSIZE,   \* the width of size_t
  TREEBIN_SHIFT,    \* log2 of the least tree-binned size, in units
  NTREEBINS,
  Page,             \* page size and granularity, in units
  prog_break_begin, prog_break_end,
  TrimThreshold,    \* DEFAULT_TRIM_THRESHOLD, in units
  Requests,         \* the sizes callers ask for, in bytes
  Callocs,          \* pairs <<n_elements, elem_size>>
  Alignments,       \* alignments of memalign, in units
  PosixAligns,      \* alignments of posix_memalign, in bytes
  AlignedRequests,  \* requests of the aligned allocations, in bytes
  Comallocs,        \* sequences of element sizes for independent_comalloc
  Mallopts,         \* pairs <<param_number, value>>
  Pads,             \* arguments of malloc_trim, in units
  Limits,           \* arguments of malloc_set_footprint_limit, in bytes
  MaxLive           \* bound on the number of allocated blocks

IsPowerOfTwo(x) == \E k \in 0..SIZE_T_BITSIZE : x = 2^k

\* init_mparams aborts unless the page size is a power of two; the break begins on a page
ASSUME MallocAssumption ==
  /\ IsPowerOfTwo(Page)
  /\ prog_break_begin % Page = 0

VARIABLES m, live

vars == <<m, live>>

----------------------------------------------------------------------------
(* Sizes *)

Unit == 16
CHUNK_OVERHEAD == 8
MIN_CHUNK_SIZE == 2
TOP_FOOT_SIZE == 5
SYS_ALLOC_PADDING == TOP_FOOT_SIZE + 1
MIN_LARGE_SIZE == 2^TREEBIN_SHIFT
MAX_SMALL_REQUEST == MIN_LARGE_SIZE * Unit - 1 - (Unit - 1) - CHUNK_OVERHEAD

\* size_t arithmetic: 2^SIZE_T_BITSIZE bytes, counted in bytes and in units
SizeT == 2^SIZE_T_BITSIZE
Units == SizeT \div Unit
MAX_SIZE_T == Units - 1
HALF_MAX_SIZE_T == MAX_SIZE_T \div 2
MAX_REQUEST == SizeT - 4 * MIN_CHUNK_SIZE * Unit
MIN_REQUEST == MIN_CHUNK_SIZE * Unit - CHUNK_OVERHEAD - 1

pad_request(req) == (req + CHUNK_OVERHEAD + Unit - 1) \div Unit

request2size(req) ==
  IF req < MIN_REQUEST THEN MIN_CHUNK_SIZE ELSE pad_request(req)

granularity_align(mm, s) ==
  (((s + mm.granularity - 1) % Units) \div mm.granularity) * mm.granularity

----------------------------------------------------------------------------
(* Boundary tags *)

Tag(s, pin, cin) == [size |-> s, pinuse |-> pin, cinuse |-> cin]

chunksize(mm, p) == mm.head[p].size
next_chunk(mm, p) == p + chunksize(mm, p)
is_inuse(mm, p) == mm.head[p].cinuse \/ ~mm.head[p].pinuse

Keep(f, D) == [x \in DOMAIN f \intersect D |-> f[x]]

\* Writing the header of a chunk: the words inside the chunk are headers no more.
PutHead(mm, p, h) ==
  [mm EXCEPT !.head = (p :> h) @@ Keep(@, {q \in DOMAIN @ : q < p \/ q >= p + h.size}),
             !.foot = Keep(@, {q \in DOMAIN @ : q <= p \/ q > p + h.size})]

clear_pinuse(mm, p) == [mm EXCEPT !.head[p].pinuse = FALSE]

\* p->head |= PINUSE_BIT, where p may be a remainder that has no header yet
SetPinuse(mm, p) ==
  IF p \in DOMAIN mm.head
  THEN [mm EXCEPT !.head[p].pinuse = TRUE]
  ELSE [mm EXCEPT !.head = (p :> Tag(0, TRUE, FALSE)) @@ @]

set_size_and_pinuse_of_free_chunk(mm, p, s) ==
  LET m1 == PutHead(mm, p, Tag(s, TRUE, FALSE))
  IN  [m1 EXCEPT !.foot = ((p + s) :> s) @@ @]

set_free_with_pinuse(mm, p, s, n) ==
  set_size_and_pinuse_of_free_chunk(clear_pinuse(mm, n), p, s)

set_inuse(mm, p, s) ==
  SetPinuse(PutHead(mm, p, Tag(s, mm.head[p].pinuse, TRUE)), p + s)

set_inuse_and_pinuse(mm, p, s) == SetPinuse(PutHead(mm, p, Tag(s, TRUE, TRUE)), p + s)

set_size_and_pinuse_of_inuse_chunk(mm, p, s) == PutHead(mm, p, Tag(s, TRUE, TRUE))

----------------------------------------------------------------------------
(* Small bins: a stack of chunks for every small size *)

is_small(s) == s < MIN_LARGE_SIZE

insert_small_chunk(mm, p, s) ==
  [mm EXCEPT !.smallbins[s] = <<p>> \o (IF s \in mm.smallmap THEN @ ELSE <<>>),
             !.smallmap = @ \union {s}]

unlink_small_chunk(mm, p, s) ==
  LET rest == Remove(mm.smallbins[s], p)
  IN  [mm EXCEPT !.smallbins[s] = rest,
                 !.smallmap = IF rest = <<>> THEN @ \ {s} ELSE @]

unlink_first_small_chunk(mm, s) == unlink_small_chunk(mm, mm.smallbins[s][1], s)

replace_dv(mm, p, s) ==
  [(IF mm.dvsize # 0 THEN insert_small_chunk(mm, mm.dv, mm.dvsize) ELSE mm)
    EXCEPT !.dv = p, !.dvsize = s]

----------------------------------------------------------------------------
(* Tree bins: bitwise tries *)

Log2(x) == CHOOSE k \in 0..SIZE_T_BITSIZE : 2^k <= x /\ x < 2^(k + 1)

compute_tree_index(s) ==
  LET x == s \div MIN_LARGE_SIZE
      k == Log2(x)
  IN  IF x = 0 THEN 0
      ELSE IF x >= 2^(NTREEBINS \div 2) THEN NTREEBINS - 1
      ELSE 2 * k + ((s \div 2^(k + TREEBIN_SHIFT - 1)) % 2)

bit_for_tree_index(i) ==
  IF i = NTREEBINS - 1 THEN SIZE_T_BITSIZE - 5 ELSE i \div 2 + TREEBIN_SHIFT - 2

minsize_for_tree_index(i) ==
  2^(i \div 2 + TREEBIN_SHIFT) + (i % 2) * 2^(i \div 2 + TREEBIN_SHIFT - 1)

\* the child indices that S << leftshift_for_tree_index(I) selects, from bit b on
TreePath(s, b, n) == [k \in 1..n |-> (s \div 2^(b + 1 - k)) % 2]

Treebin(mm, i) == IF i \in mm.treemap THEN mm.treebins[i] ELSE <<>>

NodeSize(mm, t, q) == chunksize(mm, t[q][1])

\* how far a search for size s walks down t: to a node of that size, or off the tree
WalkLength(mm, t, s, b) ==
  Min({k \in 0..(b + 1) : \/ TreePath(s, b, k) \notin DOMAIN t
                          \/ NodeSize(mm, t, TreePath(s, b, k)) = s})

\* where that search ends in the tree of bin i
SearchEnd(mm, i, s) ==
  LET b == bit_for_tree_index(i)
  IN  TreePath(s, b, WalkLength(mm, Treebin(mm, i), s, b))

\* the nodes met from q downwards when child b is taken wherever there is one
Walk(t, q, b) ==
  {r \in DOMAIN t :
     /\ IsPrefix(q, r)
     /\ \A k \in (Len(q) + 1)..Len(r) :
          r[k] = b \/ Append(SubSeq(r, 1, k - 1), b) \notin DOMAIN t}

IsLeaf(t, q) == \A b \in {0, 1} : Append(q, b) \notin DOMAIN t

\* a new node, or second in the ring of chunks of the same size
Linked(t, q, x) ==
  (q :> IF q \in DOMAIN t THEN <<t[q][1], x>> \o Tail(t[q]) ELSE <<x>>) @@ t

InsertInBin(mm, i, x, s) ==
  [mm EXCEPT !.treebins[i] = Linked(Treebin(mm, i), SearchEnd(mm, i, s), x),
             !.treemap = @ \union {i}]

insert_large_chunk(mm, x, s) == InsertInBin(mm, compute_tree_index(s), x, s)

\* Mutant of Unlinked: a child takes the place of x, not a leaf.
UnlinkedByChild(t, q, x) ==
  LET child == IF Append(q, 1) \in DOMAIN t THEN Append(q, 1)
               ELSE IF Append(q, 0) \in DOMAIN t THEN Append(q, 0) ELSE q
  IN  IF Len(t[q]) > 1 THEN [t EXCEPT ![q] = Remove(@, x)]
      ELSE Keep([t EXCEPT ![q] = t[child]], DOMAIN t \ {child})

\* The tree t without chunk x, the node or a ring member at q.
Unlinked(t, q, x) ==
  LET ring == t[q]
      n == Len(ring)
      leaf == CHOOSE r \in Walk(t, q, 1) : IsLeaf(t, r)
  IN  IF n > 1
      THEN [t EXCEPT ![q] = IF x = ring[1] THEN <<ring[n]>> \o SubSeq(ring, 2, n - 1)
                            ELSE Remove(ring, x)]
      ELSE Keep([t EXCEPT ![q] = t[leaf]], DOMAIN t \ {leaf})

PutTree(mm, i, t) ==
  [mm EXCEPT !.treebins[i] = t, !.treemap = IF DOMAIN t = {} THEN @ \ {i} ELSE @]

UnlinkFromBin(mm, i, x) ==
  LET t == mm.treebins[i]
  IN  PutTree(mm, i, Unlinked(t, CHOOSE q \in DOMAIN t : x \in ToSet(t[q]), x))

unlink_large_chunk(mm, x) == UnlinkFromBin(mm, compute_tree_index(chunksize(mm, x)), x)

insert_chunk(mm, p, s) ==
  IF is_small(s) THEN insert_small_chunk(mm, p, s) ELSE insert_large_chunk(mm, p, s)

unlink_chunk(mm, p, s) ==
  IF is_small(s) THEN unlink_small_chunk(mm, p, s) ELSE unlink_large_chunk(mm, p)

----------------------------------------------------------------------------
(* The system: sbrk, and how the heap grows and shrinks *)

sbrk(mm, difference) ==
  LET new == ((mm.prog_break + difference + Page - 1) \div Page) * Page
  IN  IF new > prog_break_end \/ new < prog_break_begin
      THEN [mm EXCEPT !.panic = TRUE]
      ELSE [mm EXCEPT !.prog_break = new,
                      !.head = Keep(@, {q \in DOMAIN @ : q < new}),
                      !.foot = Keep(@, {q \in DOMAIN @ : q < new})]

init_top(mm, p, psize) ==
  LET m1 == PutHead([mm EXCEPT !.top = p, !.topsize = psize, !.trim_check = mm.trim_threshold],
                    p, Tag(psize, TRUE, FALSE))
  IN  PutHead(m1, p + psize, Tag(TOP_FOOT_SIZE, FALSE, FALSE))

Allocated(mm, p) == [m |-> mm, p |-> p]
Failed(mm) == Allocated(mm, 0)

\* MALLOC_FAILURE_ACTION is PANIC in this kernel
Panics(mm) == Failed([mm EXCEPT !.panic = TRUE])

\* nb units from the beginning of top
SplitTop(mm, nb) ==
  LET p == mm.top
      r == p + nb
      rsize == mm.topsize - nb
      m1 == PutHead([mm EXCEPT !.top = r, !.topsize = rsize], r, Tag(rsize, TRUE, FALSE))
  IN  Allocated(set_size_and_pinuse_of_inuse_chunk(m1, p, nb), p)

\* sys_alloc returns 0 before it asks for memory: the size wraps, or passes the limit
GivesUpEarly(mm, nb) ==
  LET asize == granularity_align(mm, nb + SYS_ALLOC_PADDING)
  IN  \/ asize <= nb
      \/ mm.footprint_limit # 0 /\ mm.footprint + asize > mm.footprint_limit

\* The size sys_alloc asks sbrk for.  The break is where the segment ends, nobody else
\* moves it: sbrk always extends the segment.
MorecoreSize(mm, nb) ==
  granularity_align(mm, nb - mm.topsize + SYS_ALLOC_PADDING)

\* tsize more units at the end of the segment belong to top
ExtendSegment(mm, tsize) ==
  LET fp == mm.footprint + tsize
  IN  init_top([mm EXCEPT !.footprint = fp,
                          !.max_footprint = IF fp > @ THEN fp ELSE @,
                          !.segsize = @ + tsize],
               IF mm.top = 0 THEN prog_break_begin ELSE mm.top,
               IF mm.top = 0 THEN tsize - TOP_FOOT_SIZE ELSE mm.topsize + tsize)

FromTop(mm, nb) == IF nb < mm.topsize THEN SplitTop(mm, nb) ELSE Panics(mm)

FromMorecore(mm, tsize, nb) ==
  IF mm.panic THEN Failed(mm) ELSE FromTop(ExtendSegment(mm, tsize), nb)

sys_alloc(mm, nb) ==
  LET tsize == MorecoreSize(mm, nb)
  IN  IF GivesUpEarly(mm, nb) THEN Failed(mm)
      ELSE IF tsize >= HALF_MAX_SIZE_T THEN Panics(mm)
      ELSE FromMorecore(sbrk(mm, tsize), tsize, nb)

\* Mutants of sys_trim: the footprint is not reduced; the last unit is released too.
sys_trimKeepFootprint(mm, pad) ==
  LET extra == ((mm.topsize - pad - TOP_FOOT_SIZE + mm.granularity - 1)
                 \div mm.granularity - 1) * mm.granularity
  IN  IF mm.top = 0 \/ extra <= 0 THEN mm
      ELSE init_top([sbrk(mm, -extra) EXCEPT !.segsize = @ - extra],
                    mm.top, mm.topsize - extra)

sys_trimLastUnit(mm, pad) ==
  LET extra == ((mm.topsize - pad - TOP_FOOT_SIZE + mm.granularity - 1)
                 \div mm.granularity) * mm.granularity
  IN  IF mm.top = 0 \/ extra <= 0 THEN mm
      ELSE init_top([sbrk(mm, -extra) EXCEPT !.segsize = @ - extra, !.footprint = @ - extra],
                    mm.top, mm.topsize - extra)

sys_trim(mm, pad) ==
  LET keep == pad + TOP_FOOT_SIZE
      unit == mm.granularity
      extra == IF mm.top # 0 /\ mm.topsize > keep
               THEN ((mm.topsize - keep + unit - 1) \div unit - 1) * unit ELSE 0
      m1 == sbrk(mm, -extra)
      ignored == pad * Unit >= MAX_REQUEST \/ mm.top = 0
  IN  CASE ignored -> mm
        [] ~ignored /\ extra # 0 ->
             init_top([m1 EXCEPT !.segsize = @ - extra, !.footprint = @ - extra],
                      mm.top, mm.topsize - extra)
        [] OTHER -> [mm EXCEPT !.trim_check =
                                 IF mm.topsize > @ THEN MAX_SIZE_T ELSE @]

should_trim(mm, s) == s > mm.trim_check

----------------------------------------------------------------------------
(* free *)

\* Merge the free chunk at p with the one behind it, next, and put the result where free
\* chunks are kept.
MergeForward(mm, p, psize, next) ==
  LET isdv == p = mm.dv
      size == psize + chunksize(mm, next)
  IN  IF isdv /\ mm.head[next].cinuse /\ mm.head[next].pinuse
      THEN set_free_with_pinuse([mm EXCEPT !.dvsize = psize], p, psize, next)
      ELSE IF mm.head[next].cinuse
      THEN insert_chunk(set_free_with_pinuse(mm, p, psize, next), p, psize)
      ELSE IF next = mm.top
      THEN PutHead([mm EXCEPT !.top = p, !.topsize = @ + psize,
                              !.dv = IF isdv THEN 0 ELSE @,
                              !.dvsize = IF isdv THEN 0 ELSE @],
                   p, Tag(mm.topsize + psize, TRUE, FALSE))
      ELSE IF next = mm.dv
      THEN set_size_and_pinuse_of_free_chunk([mm EXCEPT !.dv = p, !.dvsize = @ + psize],
                                             p, mm.dvsize + psize)
      ELSE IF isdv
      THEN set_size_and_pinuse_of_free_chunk(
             [unlink_chunk(mm, next, chunksize(mm, next)) EXCEPT !.dvsize = size], p, size)
      ELSE insert_chunk(set_size_and_pinuse_of_free_chunk(
                          unlink_chunk(mm, next, chunksize(mm, next)), p, size), p, size)

\* The chunk at p is given up: merge it with its free neighbours.
dispose_chunk(mm, p, psize) ==
  LET prevsize == IF mm.head[p].pinuse THEN 0 ELSE mm.foot[p]
      prev == p - prevsize
  IN  MergeForward(IF prevsize # 0 /\ prev # mm.dv THEN unlink_chunk(mm, prev, prevsize) ELSE mm,
                   prev, psize + prevsize, p + psize)

TrimIfLarge(mm) == IF should_trim(mm, mm.topsize) THEN sys_trim(mm, 0) ELSE mm

dlfree(mm, mem) ==
  LET p == mem - 1
      m1 == dispose_chunk(mm, p, chunksize(mm, p))
  IN  IF next_chunk(mm, p) = mm.top THEN TrimIfLarge(m1) ELSE m1

----------------------------------------------------------------------------
(* malloc *)

\* the first of the smallest chunks in S, 0 when there is none
Smallest(mm, S) ==
  IF S = {} THEN 0 ELSE CHOOSE v \in S : \A w \in S : chunksize(mm, v) <= chunksize(mm, w)

\* the chunks for nb that tmalloc_large meets in t, whose top bit is b: the nodes on its
\* way down and, unless one fits exactly, the leftmost ones of the last right subtree that
\* it has passed by
FitsIn(mm, t, nb, b) ==
  LET n == WalkLength(mm, t, nb, b)
      met == {TreePath(nb, b, k) : k \in 0..n} \intersect DOMAIN t
      turns == {k \in 0..(n - 1) : /\ TreePath(nb, b, k + 1)[k + 1] = 0
                                   /\ Append(TreePath(nb, b, k), 1) \in DOMAIN t}
      rst == IF TreePath(nb, b, n) \in DOMAIN t \/ turns = {} THEN {}
             ELSE Walk(t, Append(TreePath(nb, b, Max(turns)), 1), 0)
  IN  {t[q][1] : q \in {q \in met : NodeSize(mm, t, q) >= nb} \union rst}

Leftmost(t) == {t[q][1] : q \in Walk(t, <<>>, 0)}

BestFromBin(mm, nb, i) ==
  LET here == FitsIn(mm, Treebin(mm, i), nb, bit_for_tree_index(i))
      later == {j \in mm.treemap : j > i}
  IN  Smallest(mm, IF here # {} THEN here
                   ELSE IF later = {} THEN {} ELSE Leftmost(Treebin(mm, Min(later))))

\* The chunk tmalloc_large settles on, 0 when no tree chunk is large enough.
TreeBest(mm, nb) == BestFromBin(mm, nb, compute_tree_index(nb))

\* Split nb units off the unlinked free chunk v; the remainder becomes dv or goes to a bin.
SplitChunk(mm, v, nb, toDv) ==
  LET rsize == chunksize(mm, v) - nb
      m1 == set_size_and_pinuse_of_free_chunk(
              set_size_and_pinuse_of_inuse_chunk(mm, v, nb), v + nb, rsize)
  IN  Allocated(IF rsize < MIN_CHUNK_SIZE THEN set_inuse_and_pinuse(mm, v, rsize + nb)
                ELSE IF toDv THEN replace_dv(m1, v + nb, rsize)
                ELSE insert_chunk(m1, v + nb, rsize), v)

\* Mutant of TreeBeatsDv: the comparison with dv is missing.
TreeBeatsDvAlways(mm, nb) == TreeBest(mm, nb) # 0

\* whether the best tree chunk leaves less over than dv would
TreeBeatsDv(mm, nb) ==
  LET v == TreeBest(mm, nb)
  IN  v # 0 /\ (mm.dvsize < nb \/ chunksize(mm, v) < mm.dvsize)

tmalloc_large(mm, nb) ==
  LET v == TreeBest(mm, nb)
  IN  SplitChunk(unlink_large_chunk(mm, v), v, nb, FALSE)

tmalloc_small(mm, nb) ==
  LET v == Smallest(mm, Leftmost(Treebin(mm, Min(mm.treemap))))
  IN  SplitChunk(unlink_large_chunk(mm, v), v, nb, TRUE)

\* the chunk of an exactly fitting small bin
FromSmallbin(mm, nb) ==
  Allocated(set_inuse_and_pinuse(unlink_first_small_chunk(mm, nb), mm.smallbins[nb][1], nb),
            mm.smallbins[nb][1])

\* the chunk of the next non-empty small bin, split
FromNextSmallbin(mm, nb) ==
  LET s == Min({s \in mm.smallmap : s > nb})
  IN  SplitChunk(unlink_first_small_chunk(mm, s), mm.smallbins[s][1], nb, TRUE)

FromDv(mm, nb) ==
  SplitChunk([mm EXCEPT !.dv = 0, !.dvsize = 0], mm.dv, nb, TRUE)

FromDvTopOrSystem(mm, nb) ==
  IF nb <= mm.dvsize THEN FromDv(mm, nb)
  ELSE IF nb < mm.topsize THEN SplitTop(mm, nb)
  ELSE sys_alloc(mm, nb)

SmallRequest(mm, nb) ==
  IF nb \in mm.smallmap THEN FromSmallbin(mm, nb)
  ELSE IF nb > mm.dvsize /\ \E s \in mm.smallmap : s > nb THEN FromNextSmallbin(mm, nb)
  ELSE IF nb > mm.dvsize /\ mm.treemap # {} THEN tmalloc_small(mm, nb)
  ELSE FromDvTopOrSystem(mm, nb)

LargeRequest(mm, nb) ==
  IF nb < MAX_SIZE_T /\ mm.treemap # {} /\ TreeBeatsDv(mm, nb)
  THEN tmalloc_large(mm, nb) ELSE FromDvTopOrSystem(mm, nb)

dlmalloc(mm, bytes) ==
  IF bytes <= MAX_SMALL_REQUEST THEN SmallRequest(mm, request2size(bytes))
  ELSE LargeRequest(mm, IF bytes >= MAX_REQUEST THEN MAX_SIZE_T ELSE pad_request(bytes))

----------------------------------------------------------------------------
(* realloc, memalign, the independent allocations and bulk_free *)

\* keep nb units of the chunk at p, whose extent is size, and give the rest back
GiveBack(mm, p, nb, size) ==
  LET m1 == set_inuse(set_inuse(mm, p, nb), p + nb, size - nb)
  IN  dispose_chunk(m1, p + nb, size - nb)

try_realloc_chunk(mm, p, nb) ==
  LET oldsize == chunksize(mm, p)
      next == p + oldsize
      whole == oldsize + chunksize(mm, next)
  IN  IF oldsize >= nb
      THEN Allocated(IF oldsize - nb >= MIN_CHUNK_SIZE THEN GiveBack(mm, p, nb, oldsize)
                     ELSE mm, p)
      ELSE IF next = mm.top
      THEN IF oldsize + mm.topsize > nb
           THEN Allocated(PutHead([set_inuse(mm, p, nb) EXCEPT !.top = p + nb,
                                                              !.topsize = whole - nb],
                                  p + nb, Tag(whole - nb, TRUE, FALSE)), p)
           ELSE Failed(mm)
      ELSE IF mm.head[next].cinuse \/ whole < nb THEN Failed(mm)
      ELSE IF next = mm.dv
      THEN Allocated(
             IF whole - nb >= MIN_CHUNK_SIZE
             THEN clear_pinuse([set_size_and_pinuse_of_free_chunk(set_inuse(mm, p, nb),
                                  p + nb, whole - nb) EXCEPT !.dv = p + nb,
                                                             !.dvsize = whole - nb],
                               p + whole)
             ELSE [set_inuse(mm, p, whole) EXCEPT !.dv = 0, !.dvsize = 0], p)
      ELSE LET m1 == unlink_chunk(mm, next, whole - oldsize)
           IN  Allocated(IF whole - nb < MIN_CHUNK_SIZE THEN set_inuse(m1, p, whole)
                         ELSE GiveBack(m1, p, nb, whole), p)

\* the old block is freed once a new one is there
Move(got, oldmem) == IF got.p = 0 THEN got ELSE Allocated(dlfree(got.m, oldmem), got.p)

dlrealloc(mm, oldmem, bytes) ==
  LET r == try_realloc_chunk(mm, oldmem - 1, request2size(bytes))
  IN  IF bytes >= MAX_REQUEST THEN Panics(mm)
      ELSE IF r.p # 0 THEN r ELSE Move(dlmalloc(mm, bytes), oldmem)

dlrealloc_in_place(mm, oldmem, bytes) ==
  IF bytes >= MAX_REQUEST THEN Panics(mm)
  ELSE try_realloc_chunk(mm, oldmem - 1, request2size(bytes))

\* Mutant of CallocRequest: no overflow test.
CallocRequestUnchecked(n, e) == (n * e) % SizeT

\* size_t product of calloc, with its overflow test: 16 of the 64 bits need none
CallocRequest(n, e) ==
  LET req == (n * e) % SizeT
      narrow == 2^(SIZE_T_BITSIZE \div 4)
  IN  IF n # 0 /\ (n >= narrow \/ e >= narrow) /\ req \div n # e THEN SizeT - 1 ELSE req

dlcalloc(mm, n, e) == dlmalloc(mm, CallocRequest(n, e))

\* the alignment internal_memalign works with: a power of two, a chunk at least
UsedAlignment(a) == CHOOSE b \in {2^k : k \in 1..SIZE_T_BITSIZE} : b >= a /\ (b = 2 \/ b < 2 * a)

\* where the aligned chunk begins in the chunk at p: a leader is large enough for a chunk
AlignedStart(p, al) ==
  LET br == ((p + al) \div al) * al - 1
  IN  IF (p + 1) % al = 0 THEN p ELSE IF br - p >= MIN_CHUNK_SIZE THEN br ELSE br + al

\* Give back the leader.  The word that becomes the header of the aligned chunk holds
\* whatever was there: its PINUSE_BIT is junk.
CutLeader(mm, p, newp, junk) ==
  IF newp = p THEN mm
  ELSE LET m1 == set_inuse([mm EXCEPT !.head = (newp :> Tag(0, junk, FALSE)) @@ @],
                           newp, chunksize(mm, p) - (newp - p))
       IN  dispose_chunk(set_inuse(m1, p, newp - p), p, newp - p)

CutTrailer(mm, p, nb) ==
  Allocated(IF chunksize(mm, p) > nb + MIN_CHUNK_SIZE
            THEN GiveBack(mm, p, nb, chunksize(mm, p)) ELSE mm, p)

\* the aligned part of what malloc gave
Aligned(got, al, nb, junk) ==
  LET newp == AlignedStart(got.p, al)
  IN  IF got.p = 0 THEN got ELSE CutTrailer(CutLeader(got.m, got.p, newp, junk), newp, nb)

internal_memalign(mm, alignment, bytes, junk) ==
  LET al == UsedAlignment(alignment)
      nb == request2size(bytes)
      req == (nb + al + MIN_CHUNK_SIZE) * Unit - CHUNK_OVERHEAD
  IN  IF bytes >= MAX_REQUEST - al * Unit THEN Panics(mm)
      ELSE Aligned(dlmalloc(mm, req), al, nb, junk)

dlmemalign(mm, alignment, bytes, junk) ==
  IF alignment <= 1 THEN dlmalloc(mm, bytes)
  ELSE internal_memalign(mm, alignment, bytes, junk)

\* posix_memalign takes bytes; what it refuses itself it refuses without a panic
dlposix_memalign(mm, alignment, bytes, junk) ==
  IF alignment = Unit THEN dlmalloc(mm, bytes)
  ELSE IF \/ alignment % 8 # 0 \/ ~IsPowerOfTwo(alignment)
          \/ bytes > MAX_REQUEST - alignment THEN Failed(mm)
  ELSE internal_memalign(mm, alignment \div Unit, bytes, junk)

dlvalloc(mm, bytes, junk) == dlmemalign(mm, Page, bytes, junk)

dlpvalloc(mm, bytes, junk) ==
  LET pagesz == Page * Unit
  IN  dlmemalign(mm, Page, (((bytes + pagesz - 1) % SizeT) \div pagesz) * pagesz, junk)

\* ialloc with different element sizes and the pointer array chunk at the end: the sizes
\* of the chunks that one chunk of the given size is cut into
IallocSizes(sizes, size) ==
  LET want == [k \in 1..Len(sizes) |-> request2size(sizes[k])]
  IN  Append(want, size - FoldSeq(+, 0, want))

Offsets(sizes) == [k \in 1..Len(sizes) |-> FoldSeq(+, 0, SubSeq(sizes, 1, k - 1))]

\* the chunk that malloc gave, cut into chunks of these sizes
CutInto(got, cut) ==
  LET at == Offsets(cut)
  IN  Allocated(FoldLeftDomain(LAMBDA mk, k :
                  set_size_and_pinuse_of_inuse_chunk(mk, got.p + at[k], cut[k]),
                  got.m, cut), got.p)

Cut(got, sizes) ==
  IF got.p = 0 THEN got ELSE CutInto(got, IallocSizes(sizes, chunksize(got.m, got.p)))

ialloc(mm, sizes) ==
  LET want == FoldSeq(+, 0, [k \in 1..Len(sizes) |-> request2size(sizes[k])])
      req == (want + request2size(Len(sizes) * 8)) * Unit - CHUNK_OVERHEAD
  IN  IF sizes = <<>> THEN dlmalloc(mm, 0) ELSE Cut(dlmalloc(mm, req), sizes)

\* bulk_free: a pointer followed in the array by the block right behind it is merged
\* into that next entry instead of being freed
BulkStep(acc, k, array) ==
  LET p == acc.p[k]
      next == next_chunk(acc.m, p)
  IN  IF k < Len(array) /\ acc.p[k + 1] = next
      THEN [m |-> set_inuse(acc.m, p, chunksize(acc.m, p) + chunksize(acc.m, next)),
            p |-> [acc.p EXCEPT ![k + 1] = p]]
      ELSE [m |-> dispose_chunk(acc.m, p, chunksize(acc.m, p)), p |-> acc.p]

internal_bulk_free(mm, array) ==
  LET start == [m |-> mm, p |-> [k \in 1..Len(array) |-> array[k] - 1]]
  IN  TrimIfLarge(FoldLeftDomain(LAMBDA acc, k : BulkStep(acc, k, array), start, array).m)

dlmalloc_usable_size(mm, mem) ==
  IF is_inuse(mm, mem - 1) THEN chunksize(mm, mem - 1) * Unit - CHUNK_OVERHEAD ELSE 0

\* bytes = MAX_SIZE_T disables the limit; the "minimal size" of bytes = 0 is overwritten
set_footprint_limit(mm, bytes) ==
  [mm EXCEPT !.footprint_limit =
     IF bytes = SizeT - 1 THEN 0
     ELSE granularity_align(mm, (bytes + Unit - 1) \div Unit)]

\* mallopt; an mmap threshold has no effect without mmap
change_mparam(mm, param_number, value) ==
  LET val == IF value = -1 THEN SizeT - 1 ELSE value
  IN  CASE param_number = "M_TRIM_THRESHOLD" -> [mm EXCEPT !.trim_threshold = val \div Unit]
        [] param_number = "M_GRANULARITY" /\ val >= Page * Unit /\ IsPowerOfTwo(val) ->
             [mm EXCEPT !.granularity = val \div Unit]
        [] OTHER -> mm

----------------------------------------------------------------------------
(* The callers: any sequence of calls that frees only what it was given *)

\* init_mparams, which the first call of any function runs
init_mparams == [granularity |-> Page, trim_threshold |-> TrimThreshold]

Init ==
  /\ m = init_mparams @@
         [head |-> <<>>, foot |-> <<>>,
          smallbins |-> [s \in MIN_CHUNK_SIZE..(MIN_LARGE_SIZE - 1) |-> <<>>],
          treebins |-> [i \in 0..(NTREEBINS - 1) |-> <<>>],
          smallmap |-> {}, treemap |-> {},
          dv |-> 0, dvsize |-> 0, top |-> 0, topsize |-> 0, trim_check |-> 0,
          footprint |-> 0, max_footprint |-> 0, footprint_limit |-> 0,
          segsize |-> 0, prog_break |-> prog_break_begin, panic |-> FALSE]
  /\ live = <<>>

\* r is what a call returned: the block it allocated joins live
Gives(r, bytes, alignment) ==
  /\ m' = r.m
  /\ live' = IF r.p = 0 THEN live
             ELSE ((r.p + 1) :> [bytes |-> bytes, align |-> alignment]) @@ live

Room(n) == ~m.panic /\ Cardinality(DOMAIN live) + n <= MaxLive

Malloc(bytes) == Room(1) /\ Gives(dlmalloc(m, bytes), bytes, 1)

Calloc(c) == Room(1) /\ Gives(dlcalloc(m, c[1], c[2]), c[1] * c[2], 1)

Memalign(alignment, bytes, junk) ==
  Room(1) /\ Gives(dlmemalign(m, alignment, bytes, junk), bytes, UsedAlignment(alignment))

PosixMemalign(alignment, bytes, junk) ==
  /\ Room(1)
  /\ Gives(dlposix_memalign(m, alignment, bytes, junk), bytes, UsedAlignment(alignment \div Unit))

Valloc(bytes, junk) == Room(1) /\ Gives(dlvalloc(m, bytes, junk), bytes, Page)

Pvalloc(bytes, junk) == Room(1) /\ Gives(dlpvalloc(m, bytes, junk), bytes, Page)

Free(mem) ==
  /\ ~m.panic
  /\ m' = dlfree(m, mem)
  /\ live' = Keep(live, DOMAIN live \ {mem})

\* the block at mem is now the one at r.p, unless the call failed
Replaces(r, mem, bytes) ==
  /\ m' = r.m
  /\ live' = IF r.p = 0 THEN live
             ELSE ((r.p + 1) :> [bytes |-> bytes, align |-> 1])
                    @@ Keep(live, DOMAIN live \ {mem})

Realloc(mem, bytes) == ~m.panic /\ Replaces(dlrealloc(m, mem, bytes), mem, bytes)

ReallocInPlace(mem, bytes) ==
  ~m.panic /\ Replaces(dlrealloc_in_place(m, mem, bytes), mem, bytes)

\* the caller has the elements and, behind them, the array of pointers to them
GivesAll(r, sizes) ==
  LET n == Len(sizes)
      at == Offsets(IallocSizes(sizes, 0))
  IN  /\ m' = r.m
      /\ live' = IF r.p = 0 THEN live
                 ELSE [q \in {r.p + at[k] + 1 : k \in 1..(n + 1)} |->
                         LET k == CHOOSE k \in 1..(n + 1) : q = r.p + at[k] + 1
                         IN  [bytes |-> IF k <= n THEN sizes[k] ELSE n * 8, align |-> 1]]
                        @@ live

IndependentComalloc(sizes) == Room(Len(sizes) + 1) /\ GivesAll(ialloc(m, sizes), sizes)

\* independent_calloc: n elements of one size
IndependentCalloc(c) == IndependentComalloc([k \in 1..c[1] |-> c[2]])

BulkFree(array) ==
  /\ ~m.panic
  /\ m' = internal_bulk_free(m, array)
  /\ live' = Keep(live, DOMAIN live \ ToSet(array))

MallocTrim(pad) == ~m.panic /\ m' = sys_trim(m, pad) /\ UNCHANGED live

SetFootprintLimit(bytes) ==
  ~m.panic /\ m' = set_footprint_limit(m, bytes) /\ UNCHANGED live

Mallopt(param_number, value) ==
  ~m.panic /\ m' = change_mparam(m, param_number, value) /\ UNCHANGED live

Next ==
  \/ \E b \in Requests : Malloc(b)
  \/ \E c \in Callocs : Calloc(c)
  \/ \E a \in Alignments, b \in AlignedRequests, junk \in BOOLEAN : Memalign(a, b, junk)
  \/ \E a \in PosixAligns, b \in AlignedRequests, junk \in BOOLEAN : PosixMemalign(a, b, junk)
  \/ \E b \in AlignedRequests, junk \in BOOLEAN : Valloc(b, junk)
  \/ \E b \in AlignedRequests, junk \in BOOLEAN : Pvalloc(b, junk)
  \/ \E mem \in DOMAIN live : Free(mem)
  \/ \E mem \in DOMAIN live, b \in Requests : Realloc(mem, b)
  \/ \E mem \in DOMAIN live, b \in Requests : ReallocInPlace(mem, b)
  \/ \E sizes \in Comallocs : IndependentComalloc(sizes)
  \/ \E c \in Callocs : IndependentCalloc(c)
  \/ \E x, y \in DOMAIN live : x # y /\ BulkFree(<<x, y>>)
  \/ \E pad \in Pads : MallocTrim(pad)
  \/ \E b \in Limits : SetFootprintLimit(b)
  \/ \E o \in Mallopts : Mallopt(o[1], o[2])

Spec == Init /\ [][Next]_vars

----------------------------------------------------------------------------
(* The allocator's own debugging checks *)

\* The chunks from the beginning of the segment up to top.
Chunks(mm) == {p \in DOMAIN mm.head : p < mm.top}

InBin(mm, x) ==
  LET s == chunksize(mm, x)
      i == compute_tree_index(s)
      t == Treebin(mm, i)
      q == SearchEnd(mm, i, s)
  IN  IF is_small(s) THEN s \in mm.smallmap /\ x \in ToSet(mm.smallbins[s])
      ELSE q \in DOMAIN t /\ x \in ToSet(t[q])

do_check_top_chunk(mm) ==
  /\ mm.top \in prog_break_begin..(prog_break_begin + mm.segsize - 1)
  /\ chunksize(mm, mm.top) = mm.topsize
  /\ mm.topsize > 0
  /\ mm.topsize = prog_break_begin + mm.segsize - mm.top - TOP_FOOT_SIZE
  /\ mm.head[mm.top].pinuse
  /\ ~mm.head[mm.top + mm.topsize].pinuse

do_check_inuse_chunk(mm, p) ==
  /\ is_inuse(mm, p)
  /\ next_chunk(mm, p) \in DOMAIN mm.head /\ mm.head[next_chunk(mm, p)].pinuse
  /\ \/ mm.head[p].pinuse
     \/ p \in DOMAIN mm.foot /\ next_chunk(mm, p - mm.foot[p]) = p

do_check_free_chunk(mm, p) ==
  LET next == next_chunk(mm, p)
  IN  /\ ~is_inuse(mm, p)
      /\ next \in DOMAIN mm.head /\ ~mm.head[next].pinuse
      /\ chunksize(mm, p) >= MIN_CHUNK_SIZE
      /\ next \in DOMAIN mm.foot /\ mm.foot[next] = chunksize(mm, p)
      /\ next = mm.top \/ is_inuse(mm, next)

do_check_tree(mm, i) ==
  LET t == Treebin(mm, i)
  IN  \A q \in DOMAIN t :
        LET s == NodeSize(mm, t, q) IN
        /\ compute_tree_index(s) = i
        /\ s >= MIN_LARGE_SIZE /\ s >= minsize_for_tree_index(i)
        /\ i = NTREEBINS - 1 \/ s < minsize_for_tree_index(i + 1)
        /\ q # <<>> => Front(q) \in DOMAIN t
        /\ \A k \in 1..Len(t[q]) :
             chunksize(mm, t[q][k]) = s /\ do_check_free_chunk(mm, t[q][k])
        /\ Append(q, 0) \in DOMAIN t /\ Append(q, 1) \in DOMAIN t =>
             NodeSize(mm, t, Append(q, 0)) < NodeSize(mm, t, Append(q, 1))

do_check_smallbin(mm, s) ==
  /\ s \in mm.smallmap <=> mm.smallbins[s] # <<>>
  /\ \A k \in 1..Len(mm.smallbins[s]) :
       LET p == mm.smallbins[s][k]
       IN  /\ do_check_free_chunk(mm, p)
           /\ chunksize(mm, p) = s
           /\ do_check_inuse_chunk(mm, next_chunk(mm, p))

\* what traverse_and_check adds up
Traversed(mm) ==
  IF mm.top = 0 THEN 0
  ELSE mm.topsize + TOP_FOOT_SIZE + MapThenSumSet(LAMBDA p : chunksize(mm, p), Chunks(mm))

traverse_and_check(mm) ==
  \A p \in Chunks(mm) :
    IF is_inuse(mm, p) THEN ~InBin(mm, p) /\ do_check_inuse_chunk(mm, p)
    ELSE (p = mm.dv \/ InBin(mm, p)) /\ do_check_free_chunk(mm, p)

do_check_malloc_state(mm) ==
  /\ \A s \in DOMAIN mm.smallbins : do_check_smallbin(mm, s)
  /\ \A i \in DOMAIN mm.treebins : do_check_tree(mm, i)
  /\ mm.dvsize # 0 => /\ mm.dvsize = chunksize(mm, mm.dv)
                      /\ mm.dvsize >= MIN_CHUNK_SIZE
                      /\ ~InBin(mm, mm.dv)
  /\ mm.top # 0 => do_check_top_chunk(mm) /\ ~InBin(mm, mm.top)
  /\ traverse_and_check(mm)
  /\ Traversed(mm) <= mm.footprint
  /\ mm.footprint <= mm.max_footprint

\* The statistics of mallinfo, in units.
internal_mallinfo(mm) ==
  LET free == {p \in Chunks(mm) : ~is_inuse(mm, p)}
      mfree == mm.topsize + TOP_FOOT_SIZE + MapThenSumSet(LAMBDA p : chunksize(mm, p), free)
  IN  IF mm.top = 0
      THEN [arena |-> 0, ordblks |-> 0, hblkhd |-> 0, uordblks |-> 0, fordblks |-> 0]
      ELSE [arena |-> Traversed(mm), ordblks |-> Cardinality(free) + 1,
            hblkhd |-> mm.footprint - Traversed(mm),
            uordblks |-> mm.footprint - mfree, fordblks |-> mfree]

----------------------------------------------------------------------------
(* Properties *)

\* do_check_malloc_state, which a debug build runs inside mallinfo, holds after every call.
CheckMallocState == do_check_malloc_state(m)

\* The chunks in use are exactly the callers' blocks: none is lost, and each has the room
\* and the alignment its caller asked for.
BlocksAreChunks ==
  /\ {p \in Chunks(m) : is_inuse(m, p)} = {mem - 1 : mem \in DOMAIN live}
  /\ \A mem \in DOMAIN live : /\ dlmalloc_usable_size(m, mem) >= live[mem].bytes
                              /\ mem % live[mem].align = 0

\* Footprint, segment and break agree, and mallinfo accounts for every unit of the
\* segment: arena is the footprint, nothing is mapped outside (hblkhd), and uordblks is
\* what the chunks of the callers' blocks take.
FootprintAccounts ==
  LET info == internal_mallinfo(m)
  IN  /\ m.footprint = m.segsize
      /\ m.prog_break = prog_break_begin + m.segsize
      /\ info.arena = m.footprint /\ info.hblkhd = 0
      /\ info.uordblks = MapThenSumSet(LAMBDA mem : chunksize(m, mem - 1), DOMAIN live)

\* Where malloc places a block: a large request goes to the smallest free chunk that
\* fits, whichever bin or dv holds it, and the break moves only when no free chunk, top
\* included, can serve the request.
PlacementPolicy ==
  [][\A b \in Requests :
       Malloc(b) =>
         LET nb == request2size(b)
             fits == {p \in Chunks(m) : ~is_inuse(m, p) /\ chunksize(m, p) >= nb}
             new == DOMAIN live' \ DOMAIN live
         IN  /\ m'.prog_break > m.prog_break => fits = {} /\ m.topsize <= nb
             /\ b > MAX_SMALL_REQUEST /\ fits # {} =>
                  \A mem \in new : /\ mem - 1 \in fits
                                   /\ \A p \in fits :
                                        chunksize(m, mem - 1) <= chunksize(m, p)]_vars

\* The allocator implements the callers' view of it.
Blocks == INSTANCE BlockHeap
  WITH Begin <- prog_break_begin, End <- prog_break_end,
       blocks <- live, brk <- m.prog_break
HeapIsBlockHeap == Blocks!Spec
=============================================================================
