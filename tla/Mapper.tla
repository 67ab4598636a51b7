------------------------------- MODULE Mapper -------------------------------
(***************************************************************************)
(* The page mapper of src/src/memory/mapper.c as the kernel uses it: the   *)
(* usable memory is added, then pages are mapped and unmapped.             *)
(***************************************************************************)
EXTENDS PageTables

CONSTANTS
    Root,       \* the frame of the pml4, from cr3
    InitMem,    \* physical memory as the loader leaves it
    Regions,    \* the usable memory: pairs <<first frame, frames>>
    Mappings,   \* what the kernel maps: triples <<page, frame, flags>>; frame
                \* 0 is MAP_ANON, the flags are P (1) or P and F (3)
    UnmapPages  \* the pages it unmaps

RegionFrames(r) == r[1]..(r[1] + r[2] - 1)

ASSUME MapperAssumption ==
    /\ Root \in Frame
    /\ InitMem \in [Frame -> [0..(Entries - 1) -> Nat]]
    /\ Regions \subseteq (Nat \ {0}) \X (Nat \ {0})
    /\ \A r \in Regions : RegionFrames(r) \subseteq Frame
    /\ \A r, q \in Regions : r # q => RegionFrames(r) \cap RegionFrames(q) = {}
    /\ Mappings \subseteq Page \X Frame \X {1, 3}
    /\ UnmapPages \subseteq Page

Usable == UNION {RegionFrames(r) : r \in Regions}

\* The machine when the loader jumps to the kernel.
LoaderMach ==
    [mem |-> InitMem, win |-> 0, free |-> 0, root |-> Root, panic |-> FALSE]

\* The table of the last level that v is in, and its entry there.
LeafTable(m, v) == Walk(m, v)[Levels - 1]
LeafEntry(m, v) == m.mem[LeafTable(m, v)][Index(v, 0)]

\* The loader has built a table of the last level for every page the kernel
\* maps.  The tables of the last level are not tables of another one, none of
\* their entries serves two pages or has PAGE_F_BIT, and neither the tables nor
\* what the loader has mapped is usable memory.  The kernel maps frames that are
\* not usable memory (devices) and lets map_page find the others.
ASSUME LoaderAssumption ==
    /\ Tables(LoaderMach) \subseteq Frame \ Usable
    /\ \A u, v \in Page : \A k \in 0..(Levels - 2) :
          LeafTable(LoaderMach, v) = Walk(LoaderMach, u)[k] =>
              LeafTable(LoaderMach, v) = NoFrame
    /\ \A v \in Page :
          LeafTable(LoaderMach, v) # NoFrame =>
              /\ \A u \in Page :
                    /\ LeafTable(LoaderMach, u) = LeafTable(LoaderMach, v)
                    /\ Index(u, 0) = Index(v, 0)
                    => u = v
              /\ ~HasF(LeafEntry(LoaderMach, v))
    /\ \A v \in Page : Translation(LoaderMach)[v] \in (Frame \ Usable) \cup {NoFrame}
    /\ \A p \in Mappings :
          /\ LeafTable(LoaderMach, p[1]) # NoFrame
          /\ p[2] # 0 => p[2] \notin Usable /\ p[3] = 1

VARIABLES
    mach,    \* the memory, the window and first_free_block
    added    \* the regions add_phys_mem was called for

mapperVars == <<mach, added>>

-----------------------------------------------------------------------------
(***************************************************************************)
(* The kernel: early_main adds the usable memory, then pages are mapped.   *)
(***************************************************************************)

MapperInit ==
    /\ mach = LoaderMach
    /\ added = {}

AddPhysMem(r) ==
    /\ r \in Regions \ added
    /\ mach' = PushBlock(mach, r[1], r[2])
    /\ added' = added \cup {r}

\* PANIC("no memory availible") stops the machine; what map_page did before it
\* does not matter then.
CallMapPage(v, phys, flags) ==
    /\ added = Regions
    /\ ~mach.panic
    /\ mach' = IF OutOfMemory(mach, v, phys, flags)
                 THEN [mach EXCEPT !.panic = TRUE]
                 ELSE MapPage(mach, v, phys, flags)
    /\ UNCHANGED added

MapperNext ==
    \/ \E r \in Regions : AddPhysMem(r)
    \/ \E p \in Mappings : CallMapPage(p[1], p[2], p[3])
    \/ \E v \in UnmapPages : CallMapPage(v, 0, 0)

MapperSpec == MapperInit /\ [][MapperNext]_mapperVars

-----------------------------------------------------------------------------
(***************************************************************************)
(* Properties                                                              *)
(***************************************************************************)

FrameOf == Translation(mach)

\* The free list ends, and its blocks are disjoint pieces of usable memory.
FreeListSound ==
    /\ FreeList(mach)[Frames] = 0
    /\ \A b, c \in Blocks(mach) :
          b # c => BlockFrames(mach, b) \cap BlockFrames(mach, c) = {}
    /\ FreeFrames(mach) \subseteq UNION {RegionFrames(r) : r \in added}

\* No frame is free and in use at the same time, as a page or as a page table:
\* alloc_page would hand it out a second time.
FreeFramesUnused ==
    \A f \in FreeFrames(mach) :
        /\ f \notin Tables(mach)
        /\ \A v \in Page : FrameOf[v] # f

\* Two anonymous pages never share a frame, and none is a page table.
AnonFramesPrivate ==
    \A v \in Page : FrameOf[v] \in UNION {RegionFrames(r) : r \in added} =>
        /\ FrameOf[v] \notin Tables(mach)
        /\ \A u \in Page : FrameOf[u] = FrameOf[v] => u = v

AS == INSTANCE AddressSpace WITH frameOf <- FrameOf, free <- FreeFrames(mach)

\* map_page changes the translation of its page and of no other; a new
\* anonymous frame leaves the free list, and nothing else does; added memory and
\* the frame a mapping replaces may join it, and only when no page maps to them.
MapperIsAddressSpace == AS!Spec
=============================================================================
