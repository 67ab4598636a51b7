-------------------------------- MODULE Boot --------------------------------
(***************************************************************************)
(* From the boot loader's entry to the running kernel: loader_main,        *)
(* load_kernel and the loader's own paging (src/src/loader), then          *)
(* early_main and main (src/src/boot/main.c) on the tables the loader left *)
(* behind, with map_page of the kernel from PageTables.                    *)
(*                                                                         *)
(* Addresses are counted in frames, sizes inside the ELF image in halves   *)
(* of a page, so that a segment may end inside one.  A machine is what the *)
(* firmware hands over: the multiboot2 tags and the modules in memory.     *)
(***************************************************************************)
EXTENDS PageTables

CONSTANTS
    Machines,      \* the machines: see MCBoot
    Garbage,       \* the word memory is full of at power-on
    LoaderEnd,     \* the first frame behind the loader
    FirstMb,       \* frames of the first megabyte
    WindowPage,    \* _phys_window_pages (one page here)
    WindowPt,      \* _phys_window_pt
    StackPage,     \* _kernel_stack_bottom
    TablePages,    \* _gdt_page, _idt_page, _isr_stack_bottom
    ApicPage, ApicFrame,
    FirstMbPage    \* _first_mb

ASSUME BootAssumption ==
    /\ Garbage \in Nat
    /\ LoaderEnd \in Frame \ {0} /\ FirstMb \in 1..LoaderEnd
    /\ {WindowPage, WindowPt, StackPage, ApicPage, FirstMbPage} \cup TablePages
         \cup {FirstMbPage + k : k \in 0..(FirstMb - 1)} \subseteq Page
    /\ ApicFrame \in Frame \ {0}

\* Pages u and v are in the same table of the last level.
SameTable(u, v) == \A l \in 1..(Levels - 1) : Index(u, l) = Index(v, l)

FirstMbPages == {FirstMbPage + k : k \in 0..(FirstMb - 1)}
SpecialPages == {WindowPage, WindowPt, StackPage, ApicPage} \cup TablePages \cup FirstMbPages

\* linker.ld puts the special pages behind each other at the end of the address
\* space, where one table of the last level has room for them, each has its own,
\* and they are far above the physical memory.
ASSUME LinkerAssumption ==
    /\ Frames <= Span[Levels]
    /\ \A v \in SpecialPages : v >= Frames /\ SameTable(v, WindowPage)
    /\ WindowPage \notin {WindowPt, StackPage, ApicPage} \cup TablePages \cup FirstMbPages
    /\ WindowPt \notin {StackPage, ApicPage} \cup TablePages \cup FirstMbPages
    /\ StackPage \notin {ApicPage} \cup TablePages \cup FirstMbPages
    /\ ApicPage \notin TablePages \cup FirstMbPages
    /\ TablePages \cap FirstMbPages = {}

\* The pages that the image in a module asks for: pairs <<segment, page of it>>.
PagesOf(t) ==
    {p \in (1..Len(t.segments)) \X Page :
        t.segments[p[1]].load /\ 2 * p[2] < t.segments[p[1]].memsz}
VirtOf(t, p) == t.segments[p[1]].vaddr + p[2]

\* A kernel: what is loaded of it from the file is in the module, and its pages
\* are above the physical memory, apart from each other and from the special pages.
KernelSound(t) ==
    /\ t.start \in Nat /\ t.end \in Nat /\ Len(t.segments) \in Nat
    /\ \A n \in 1..Len(t.segments) :
          LET s == t.segments[n]
          IN  s.load => /\ {s.vaddr, s.offset, s.filesz, s.memsz} \subseteq Nat
                        /\ Frames <= s.vaddr
                        /\ 2 * s.vaddr + s.memsz <= 2 * Span[Levels]
                        /\ s.filesz <= s.memsz
                        /\ 2 * (t.start + s.offset) + s.filesz <= 2 * t.end
    /\ \A p \in PagesOf(t) : ~SameTable(VirtOf(t, p), WindowPage)
    /\ \A p, q \in PagesOf(t) : VirtOf(t, p) = VirtOf(t, q) => p = q

\* The usable entries of the memory maps: pairs <<tag, entry>>, and their frames.
UsableEntries(m) ==
    UNION {{<<t, n>> : n \in {x \in 1..Len(m.tags[t].entries) :
                                m.tags[t].entries[x].type = 1}} :
             t \in {u \in 1..Len(m.tags) : m.tags[u].type = "memory_map"}}
EntryFrames(m, e) ==
    LET r == m.tags[e[1]].entries[e[2]] IN r.base..(r.base + r.length - 1)

\* Usable memory comes in whole pages, exists, is listed once, and is not the
\* device's.
MapsSound(m) ==
    /\ \A t \in 1..Len(m.tags) :
          m.tags[t].type = "memory_map" =>
              /\ Len(m.tags[t].entries) \in Nat
              /\ \A n \in 1..Len(m.tags[t].entries) :
                    /\ m.tags[t].entries[n].base \in Nat
                    /\ m.tags[t].entries[n].length \in Nat
    /\ \A e \in UsableEntries(m) :
          EntryFrames(m, e) # {} /\ EntryFrames(m, e) \subseteq Frame \ {ApicFrame}
    /\ \A e, d \in UsableEntries(m) :
          e # d => EntryFrames(m, e) \cap EntryFrames(m, d) = {}

ASSUME MachinesAssumption ==
    \A m \in Machines :
        /\ m.infoEnd \in Nat /\ Len(m.tags) \in Nat
        /\ \A t \in 1..Len(m.tags) :
              m.tags[t].type = "module" /\ m.tags[t].beaveros => KernelSound(m.tags[t])
        /\ MapsSound(m)

VARIABLES
    in,        \* the machine that boots
    stage,     \* where the boot is; "panic" if it has given up
    mach,      \* memory, page tables, window and free list
    used,      \* used_memory; in the kernel, used_mem
    tag,       \* the index of the current multiboot2 tag
    kernel,    \* the module tag of the kernel, or NoKernel
    seg, i,    \* the current program header or map entry, and its loop index
    cleared    \* halves of pages of the image that were cleared

bootVars == <<in, stage, mach, used, tag, kernel, seg, i, cleared>>

NoKernel == [type |-> "none"]
ZeroFrame == [k \in 0..(Entries - 1) |-> 0]

BootInit ==
    /\ in \in Machines
    /\ stage = "check"
    /\ mach = [mem |-> [f \in Frame |-> [k \in 0..(Entries - 1) |-> Garbage]],
               win |-> 0, free |-> 0, root |-> 0, panic |-> FALSE]
    /\ used = LoaderEnd
    /\ tag = 1 /\ kernel = NoKernel /\ seg = 1 /\ i = 0 /\ cleared = {}

-----------------------------------------------------------------------------
(***************************************************************************)
(* The loader's allocator and its map_page (src/src/loader/paging.c)       *)
(***************************************************************************)

ExtendUsed(u, f) == IF f > u THEN f ELSE u

\* new_phys_zero_page
ZeroPage(m, u) ==
    [m |-> [m EXCEPT !.mem[u] = ZeroFrame], used |-> u + 1, page |-> u]

\* One level: a missing table is allocated.
Deepen(c, k) ==
    LET e == c.m.mem[c.table][k]
        z == ZeroPage(c.m, c.used)
    IN  IF HasP(e) THEN [c EXCEPT !.table = Addr(e)]
        ELSE [m |-> [z.m EXCEPT !.mem[c.table][k] = PageEntry(z.page, 1)],
              used |-> z.used, table |-> z.page]

\* The pml4, which is allocated as well.
Top(m, u) ==
    LET z == ZeroPage(m, u)
    IN  IF m.root # 0 THEN [m |-> m, used |-> u, table |-> m.root]
        ELSE [m |-> [z.m EXCEPT !.root = z.page], used |-> z.used, table |-> z.page]

Deepening(m, u, v) ==
    LET D[k \in 0..(Levels - 1)] ==
            IF k = 0 THEN Top(m, u) ELSE Deepen(D[k - 1], Index(v, Levels - k))
    IN  D

LoaderMap(m, u, v, phys) ==
    LET c == Deepening(m, u, v)[Levels - 1]
    IN  [m |-> [c.m EXCEPT !.mem[c.table][Index(v, 0)] = PageEntry(phys, 1)],
         used |-> c.used]

\* The step maps page v to frame phys with the loader's map_page.
DoLoaderMap(m, u, v, phys) ==
    LET r == LoaderMap(m, u, v, phys) IN mach' = r.m /\ used' = r.used

-----------------------------------------------------------------------------
(***************************************************************************)
(* loader_main: the tags                                                   *)
(***************************************************************************)

Goto(s) == stage' = s

Check ==
    /\ stage = "check"
    /\ Goto(IF in.bootable THEN "tags" ELSE "panic")
    /\ used' = IF in.bootable THEN ExtendUsed(used, in.infoEnd) ELSE used
    /\ UNCHANGED <<in, mach, tag, kernel, seg, i, cleared>>

ReadTag ==
    /\ stage = "tags" /\ tag <= Len(in.tags)
    /\ kernel' = IF in.tags[tag].type = "module" /\ in.tags[tag].beaveros
                   THEN in.tags[tag] ELSE kernel
    /\ tag' = tag + 1
    /\ UNCHANGED <<in, stage, mach, used, seg, i, cleared>>

\* The end tag: the kernel must be there, at the beginning of a page, and have
\* an acceptable ELF header.
FoundKernel ==
    /\ stage = "tags" /\ tag > Len(in.tags)
    /\ IF kernel = NoKernel \/ ~kernel.aligned
         THEN Goto("panic") /\ UNCHANGED used
         ELSE /\ Goto(IF kernel.header THEN "load" ELSE "panic")
              /\ used' = ExtendUsed(used, kernel.end)
    /\ tag' = 1
    /\ UNCHANGED <<in, mach, kernel, seg, i, cleared>>

-----------------------------------------------------------------------------
(***************************************************************************)
(* load_kernel: map_page for every page of the PT_LOAD segments            *)
(***************************************************************************)

Segments == kernel.segments

\* The rest of a page behind the end of the file part is cleared; pages behind
\* it are new.
LoadPage ==
    /\ stage = "load" /\ seg <= Len(Segments)
    /\ Segments[seg].load /\ 2 * i < Segments[seg].memsz
    /\ LET s == Segments[seg]
           z == ZeroPage(mach, used)
       IN  IF 2 * i < s.filesz
             THEN LET f == kernel.start + s.offset + i
                  IN  /\ DoLoaderMap(mach, used, s.vaddr + i, f)
                      /\ cleared' = IF s.filesz < (2 * i) + 2
                                      THEN cleared \cup {(2 * f) + 1}
                                      ELSE cleared
             ELSE /\ DoLoaderMap(z.m, z.used, s.vaddr + i, z.page)
                  /\ UNCHANGED cleared
    /\ i' = i + 1
    /\ UNCHANGED <<in, stage, tag, kernel, seg>>

NextSegment ==
    /\ stage = "load" /\ seg <= Len(Segments)
    /\ ~Segments[seg].load \/ 2 * i >= Segments[seg].memsz
    /\ seg' = seg + 1 /\ i' = 0
    /\ UNCHANGED <<in, stage, mach, used, tag, kernel, cleared>>

\* The symbols of the window are looked up in the section headers, .symtab and
\* .strtab, which are in the module as well; they are not found if they are
\* missing or behind the end of a segment in a page that was cleared.
FindSymbols ==
    /\ stage = "load" /\ seg > Len(Segments)
    /\ Goto(IF kernel.symbols # {} /\ kernel.symbols \cap cleared = {}
              THEN "window" ELSE "panic")
    /\ UNCHANGED <<in, mach, used, tag, kernel, seg, i, cleared>>

MapWindow ==
    /\ stage = "window"
    /\ DoLoaderMap(mach, used, WindowPage, 0)
    /\ Goto("window_pt")
    /\ UNCHANGED <<in, tag, kernel, seg, i, cleared>>

\* The page taken last is supposed to be the table of the window.
MapWindowPt ==
    /\ stage = "window_pt"
    /\ DoLoaderMap(mach, used, WindowPt, used - 1)
    /\ Goto("identity") /\ i' = 0
    /\ UNCHANGED <<in, tag, kernel, seg, cleared>>

\* Mutation of IdentityBound: the page tables are left out.
IdentityBoundImage == mach.root

IdentityBound == used

\* setup_identity_paging: used_memory may grow in every round.
IdentityPage ==
    /\ stage = "identity"
    /\ i < IdentityBound
    /\ DoLoaderMap(mach, used, i, i)
    /\ i' = i + 1
    /\ UNCHANGED <<in, stage, tag, kernel, seg, cleared>>

\* enable_long_mode jumps to the kernel: vga_init and mapper_init, then the tags.
EnterKernel ==
    /\ stage = "identity"
    /\ i >= IdentityBound
    /\ Goto("early") /\ tag' = 1 /\ seg' = 1 /\ i' = 0
    /\ UNCHANGED <<in, mach, used, kernel, cleared>>

-----------------------------------------------------------------------------
(***************************************************************************)
(* early_main: the memory map                                              *)
(***************************************************************************)

Entry == in.tags[tag].entries[seg]

\* Mutation of UsablePart: the memory in use is not cut off.
UsablePartAll(e) == [start |-> e.base, length |-> e.length]

\* The part of an entry above the memory in use.
UsablePart(e) ==
    LET start == IF e.base > used THEN e.base ELSE used
    IN  [start |-> start, length |-> e.base + e.length - start]

AddEntry ==
    /\ stage = "early" /\ tag <= Len(in.tags)
    /\ in.tags[tag].type = "memory_map" /\ in.tags[tag].known
    /\ seg <= Len(in.tags[tag].entries)
    /\ mach' = IF Entry.type = 1 /\ Entry.base + Entry.length > used
                 THEN PushBlock(mach, UsablePart(Entry).start,
                                UsablePart(Entry).length)
                 ELSE mach
    /\ seg' = seg + 1
    /\ UNCHANGED <<in, stage, used, tag, kernel, i, cleared>>

\* An entry size or version the kernel does not know.
UnknownMap ==
    /\ stage = "early" /\ tag <= Len(in.tags)
    /\ in.tags[tag].type = "memory_map" /\ ~in.tags[tag].known
    /\ Goto("panic")
    /\ UNCHANGED <<in, mach, used, tag, kernel, seg, i, cleared>>

\* Mutation of SkipTag: only the tags that were handled are left behind.
SkipTagHandled ==
    /\ stage = "early" /\ tag <= Len(in.tags)
    /\ in.tags[tag].type = "memory_map"
    /\ in.tags[tag].known /\ seg > Len(in.tags[tag].entries)
    /\ tag' = tag + 1 /\ seg' = 1
    /\ UNCHANGED <<in, stage, mach, used, kernel, i, cleared>>

SkipTag ==
    /\ stage = "early" /\ tag <= Len(in.tags)
    /\ in.tags[tag].type = "memory_map" =>
          in.tags[tag].known /\ seg > Len(in.tags[tag].entries)
    /\ tag' = tag + 1 /\ seg' = 1
    /\ UNCHANGED <<in, stage, mach, used, kernel, i, cleared>>

-----------------------------------------------------------------------------
(***************************************************************************)
(* The kernel's map_page, in early_main and in main                        *)
(***************************************************************************)

\* map_page(v, phys, flags), then stage s.
KernelMap(v, phys, flags, s) ==
    IF OutOfMemory(mach, v, phys, flags)
      THEN Goto("panic") /\ UNCHANGED mach
      ELSE Goto(s) /\ mach' = MapPage(mach, v, phys, flags)

MapStack ==
    /\ stage = "early" /\ tag > Len(in.tags)
    /\ KernelMap(StackPage, 0, 1, "first_mb")
    /\ UNCHANGED <<in, used, tag, kernel, seg, i, cleared>>

\* main: the first megabyte, whose first page has the address MAP_ANON
MapFirstMb ==
    /\ stage = "first_mb" /\ i < FirstMb
    /\ KernelMap(FirstMbPage + i, i, 1, "first_mb")
    /\ i' = i + 1
    /\ UNCHANGED <<in, used, tag, kernel, seg, cleared>>

FirstMbDone ==
    /\ stage = "first_mb" /\ i = FirstMb
    /\ Goto("unmap") /\ i' = 0
    /\ UNCHANGED <<in, mach, used, tag, kernel, seg, cleared>>

\* Mutation of UnmapIdentity: it begins at the end of the first megabyte.
UnmapIdentityLate ==
    /\ stage = "unmap" /\ i < used
    /\ IF i >= FirstMb THEN KernelMap(i, 0, 0, "unmap") ELSE UNCHANGED <<mach, stage>>
    /\ i' = i + 1
    /\ UNCHANGED <<in, used, tag, kernel, seg, cleared>>

UnmapIdentity ==
    /\ stage = "unmap" /\ i < used
    /\ KernelMap(i, 0, 0, "unmap")
    /\ i' = i + 1
    /\ UNCHANGED <<in, used, tag, kernel, seg, cleared>>

UnmapDone ==
    /\ stage = "unmap" /\ i = used
    /\ Goto("devices")
    /\ UNCHANGED <<in, mach, used, tag, kernel, seg, i, cleared>>

\* gdt_init and isr_init: a page each, and one for the stack of handlers
MapTables ==
    /\ stage = "devices"
    /\ \E v \in TablePages :
          /\ Translation(mach)[v] = NoFrame
          /\ \A u \in TablePages : u > v => Translation(mach)[u] # NoFrame
          /\ KernelMap(v, 0, 1, "devices")
    /\ UNCHANGED <<in, used, tag, kernel, seg, i, cleared>>

\* apic_init: the page of the device
MapApic ==
    /\ stage = "devices"
    /\ \A v \in TablePages : Translation(mach)[v] # NoFrame
    /\ KernelMap(ApicPage, ApicFrame, 1, "running")
    /\ UNCHANGED <<in, used, tag, kernel, seg, i, cleared>>

BootNext ==
    \/ Check \/ ReadTag \/ FoundKernel \/ LoadPage \/ NextSegment \/ FindSymbols
    \/ MapWindow \/ MapWindowPt \/ IdentityPage \/ EnterKernel
    \/ AddEntry \/ UnknownMap \/ SkipTag \/ MapStack
    \/ MapFirstMb \/ FirstMbDone \/ UnmapIdentity \/ UnmapDone
    \/ MapTables \/ MapApic

BootSpec == BootInit /\ [][BootNext]_bootVars

-----------------------------------------------------------------------------
(***************************************************************************)
(* Properties                                                              *)
(***************************************************************************)

ImagePages == PagesOf(kernel)
ImageVirt(p) == VirtOf(kernel, p)
InFile(p) == 2 * p[2] < Segments[p[1]].filesz
FilePage(p) == kernel.start + Segments[p[1]].offset + p[2]

\* Every page of a PT_LOAD segment is at its address: in the module as far as
\* the file goes, with a cleared end, and private and zero behind it.
ImageMapped ==
    LET T == Translation(mach)
    IN  \A p \in ImagePages :
          IF InFile(p)
            THEN /\ T[ImageVirt(p)] = FilePage(p)
                 /\ (Segments[p[1]].filesz < (2 * p[2]) + 2
                       => (2 * FilePage(p)) + 1 \in cleared)
            ELSE /\ T[ImageVirt(p)] \in kernel.end..(used - 1)
                 /\ T[ImageVirt(p)] \notin Tables(mach)
                 /\ mach.mem[T[ImageVirt(p)]] = ZeroFrame
                 /\ \A q \in ImagePages :
                      q # p => T[ImageVirt(q)] # T[ImageVirt(p)]

\* new_phys_zero_page does not ask how much memory there is: what bounds
\* used_memory, while load_kernel and setup_identity_paging go on mapping what
\* they have allocated themselves, is that a table serves all pages of its range.
LoaderFits == used <= Frames

\* When the loader jumps to the kernel, all memory in use exists and is mapped to
\* itself, the page tables that were allocated meanwhile included, the image is where
\* its headers say, _phys_window_pt is the table the window's page is in, and
\* nothing else is mapped.
LoaderHandsOver ==
    (stage = "early" /\ tag = 1 /\ seg = 1) =>
        LET T == Translation(mach)
        IN  /\ LoaderFits
            /\ \A v \in 0..(used - 1) : T[v] = v
            /\ ImageMapped
            /\ T[WindowPt] = Walk(mach, WindowPage)[Levels - 1]
            /\ \A v \in Page :
                  v >= used /\ v \notin {ImageVirt(p) : p \in ImagePages}
                            /\ v \notin {WindowPage, WindowPt}
                      => T[v] = NoFrame

\* The memory the firmware says is usable.
Usable == UNION {EntryFrames(in, e) : e \in UsableEntries(in)}

\* The free list never holds a frame that the loader has used, a page table, a
\* mapped page or memory the firmware has not released.
FreeMemoryIsFree ==
    stage \in {"early", "first_mb", "unmap", "devices", "running"} =>
        LET T    == Translation(mach)
            free == FreeFrames(mach)
        IN  /\ \A f \in free : f >= used /\ f \in Usable
            /\ free \cap Tables(mach) = {}
            /\ \A v \in Page \ {WindowPage} : T[v] \notin free

\* When the kernel runs, the identity mapping is gone to the last page, the
\* image is still there, the rest of the first megabyte is mapped, and the
\* stack, the descriptor tables and the page for address 0 have frames of their
\* own (MAP_ANON is address 0).
KernelAddressSpace ==
    stage = "running" =>
        LET T    == Translation(mach)
            anon == {StackPage, FirstMbPage} \cup TablePages
            firstMb == {FirstMbPage + k : k \in 1..(FirstMb - 1)}
        IN  /\ ImageMapped
            /\ \A v \in firstMb : T[v] = v - FirstMbPage
            /\ T[ApicPage] = ApicFrame
            /\ \A v \in anon :
                  /\ T[v] \in Usable /\ T[v] >= used /\ T[v] \notin Tables(mach)
                  /\ \A u \in Page : T[u] = T[v] => u = v
            /\ \A v \in Page :
                  v \notin anon \cup firstMb \cup {ApicPage, WindowPage, WindowPt}
                             \cup {ImageVirt(p) : p \in ImagePages}
                      => T[v] = NoFrame
=============================================================================
