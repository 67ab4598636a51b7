----------------------------- MODULE BlockHeap -----------------------------
(***************************************************************************)
(* What the callers of the kernel heap rely on: every block they hold      *)
(* keeps its place until they give it up, and no two blocks share a byte.  *)
(* blocks maps the address of a block, in units of 16 bytes, to what was   *)
(* asked for.                                                              *)
(***************************************************************************)
EXTENDS Integers

CONSTANTS Begin, End    \* the address range of the heap, in units
VARIABLES blocks, brk

Without(p) == [q \in DOMAIN blocks \ {p} |-> blocks[q]]

\* b extends a: the blocks of a are blocks of b, unchanged
Extends(b, a) == DOMAIN a \subseteq DOMAIN b /\ \A p \in DOMAIN a : b[p] = a[p]

Apart(b) ==
  \A p, q \in DOMAIN b : p < q => 16 * p + b[p].bytes <= 16 * q

\* every block lies above its header and below the mapped end of the heap
Inside(b, e) == \A p \in DOMAIN b : p > Begin /\ 16 * p + b[p].bytes <= 16 * e

Aligned(b) == \A p \in DOMAIN b : p % b[p].align = 0

Init == blocks = <<>> /\ brk = Begin

\* malloc, calloc, memalign, independent_comalloc: new blocks, or none on failure
Allocate == brk' \in brk..End /\ Extends(blocks', blocks)

\* free, bulk_free, malloc_trim
Release == brk' \in Begin..brk /\ Extends(blocks, blocks')

\* realloc: one block is replaced by one other
Resize ==
  /\ brk' \in Begin..End
  /\ \E p \in DOMAIN blocks, q \in DOMAIN blocks' :
       /\ q \in DOMAIN blocks => q = p
       /\ DOMAIN blocks' = (DOMAIN blocks \ {p}) \union {q}
       /\ Extends(blocks', Without(p))

Next ==
  /\ Allocate \/ Release \/ Resize
  /\ Apart(blocks') /\ Inside(blocks', brk') /\ Aligned(blocks')

Spec == Init /\ [][Next]_<<blocks, brk>>
=============================================================================
