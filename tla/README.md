# A TLA+ model of Beaver OS

Beaver OS is a small 64-bit kernel for one x86 processor: a 32-bit loader that
builds page tables and loads the kernel image, and a kernel with a page mapper,
an allocator, a preemptive scheduler, a sleeping mutex, a console and drivers.
This directory holds TLA+ modules of it, the TLC configurations that check
them, and proofs that TLAPS checks. Paths below are relative to `src/src/`.

## 1. The system

| Part | State | Operations | Used by, and how |
|---|---|---|---|
| loader `loader/*.c` | the first page tables, `used_memory` | `loader_main`, `load_kernel`, `map_page`, `setup_identity_paging`; 64-bit division | hands the tables and `used_memory` to the kernel |
| boot `boot/main.c` | - | `early_main`, `main` | feeds the memory map to the mapper, maps the first megabyte and the devices, removes the identity mapping, searches the ACPI tables |
| mapper `memory/mapper.c` | page tables and free blocks, both in physical memory; the window; `first_free_block` | `add_phys_mem`, `map_page` (and inside it unmap, alloc, free) | boot code, `sbrk`, ACPI (the window) |
| `sbrk` `memory/memory.c` | `prog_break` | `sbrk` | malloc |
| malloc `memory/dlmalloc.c` | boundary tags, small bins, tries, `dv`, `top`, footprint, parameters | `malloc`, `free`, `realloc`, `memalign`, ... | everybody; not reentrant |
| scheduler `sched.c` | `task_queue`, `queue_lock`, `num_tasks`, `total_vtime`; per task `state`, `saved_state`, `vtime`, extended registers; per processor `current_task`, `sse_state_owner` | `start_task`, `terminate_task`, `yield`, `main_loop`; handlers of the timer, of `yield` and of the FPU trap | tasks call it; the timer enters it between any two instructions |
| heap `data/heap.c` | an array, `size`, `capacity` | `make_heap`, `heap_push`, `heap_pop` | the scheduler, under `queue_lock`, also inside the handler |
| spinlock `include/threading/spinlock.h` | one word | lock, unlock | scheduler and mutex |
| mutex `mutex.c` | `lock`, `locked`, `waiting_tasks` | `mutex_lock`, `mutex_unlock` | tasks; writes `task->state` behind the back of the scheduler |
| queue `data/queue.c` | a list of cells | `enqueue`, `dequeue` | the mutex |
| console `io/vga.c` | cursor, colour, screen | put, scroll, clear | everybody, with nothing to protect it |
| printf `io/printf.c`, `string.c` | - | format, copy, compare | everybody |
| ACPI `acpi/` | `sdt`, `xsdt` | `find_sdt`, `find_madt`, `find_mcfg` | `main` |
| interrupts `isr/`, GDT | IDT, vector table, APIC registers | `install_isr`, timer, end of interrupt | scheduler |

At this commit `main` ends in `intloop` and nobody calls `main_loop`: the
scheduler, the mutex and the preemption of the console are modelled as the code
has them, for the kernel that calls `main_loop`.

What is hard here:

* **Preemption.** Interrupts are enabled in tasks. `start_task`,
  `terminate_task`, the mutex and the console touch shared state without masking
  them, with one exception: `start_task` masks interrupts around `queue_lock`.
* **The lazy queue.** The handler pushes every interrupted task, whatever its
  state, and drops entries that are not `IN_QUEUE` when it pops them. Whether a
  task is lost or doubled depends on when others write its state.
* **Lazy registers.** The extended registers of a task stay in the processor
  until another task uses them.
* **The window.** The mapper sees physical memory through one window; a pointer
  into it is stale after the next `phys_look`, and any `malloc` may call it.
* **Data in free memory.** A free block keeps its header in its first frame,
  which is the frame handed out next; the allocator keeps its tags, lists and
  tries in the chunks themselves.
* **Moving bounds.** The loader maps the memory in use to itself while doing so
  allocates tables; it takes the page allocated last for the window's table.
* **Numbers.** A 0-based heap with the index rules of a 1-based one; a 64-bit
  difference returned as `int`; counters and sizes that wrap; the least value of
  a signed type; addresses for which 0 means something else.

What makes each part correct: the loader hands over tables in which everything
in use is mapped; the kernel ends up with exactly the address space it asked
for; the mapper changes one translation at a time and never has a frame in two
uses; blocks of the heap never overlap; the scheduler loses, doubles and revives
no task and never blocks inside its handler, and a task finds its own registers;
the mutex excludes and wakes; the heap is a priority queue; the screen shows
what was printed. `PROJECT.json` lists the hazards line by line.

## 2. The modules

| Module | Models | Extends |
|---|---|---|
| `Sched` | `sched.c`: the queue and the states of tasks, `MASK_INTERRUPTS`, `queue_lock` | - |
| `Mutex` | `mutex.c`, `spinlock.h`, `data/queue.c`, composed with the scheduler | `Sched` |
| `TaskContext` | `sched.c`: extended registers and virtual time | - |
| `MinHeap` | `data/heap.c` | - |
| `PriorityQueue` | abstract: what the users of the heap rely on | - |
| `VTime` | `compare_tasks` with its conversion to `int` | - |
| `PageTables` | the operations of `memory/mapper.c` on a machine | - |
| `Mapper` | the mapper with any caller | `PageTables` |
| `AddressSpace` | abstract: what the users of the mapper rely on | - |
| `Boot` | `loader/` and `boot/main.c` up to the devices | `PageTables` |
| `Acpi` | `acpi/` | - |
| `Startup` | all of `main`: `Boot`, then `Acpi` | `Boot`, `Acpi` |
| `Malloc` | `memory/dlmalloc.c` on `memory/memory.c` | - |
| `BlockHeap` | abstract: what the callers of malloc rely on | - |
| `Console` | `io/vga.c` and `PANIC` | - |
| `Division` | `loader/divdi3.c` | - |
| `Printf` | `io/printf.c`, with the division of the loader | `Division` |
| `Strings` | `string.c` | - |
| `Lib` | a printf, a division or a string function at work | `Printf`, `Strings` |
| `*Proofs` (eight) | theorems | the modules they are about |
| `MC*` | instances for TLC | |

### Sched

A *context* is a task, or the boot thread. `pc` says where it is in the
scheduler's code, `arg` which task the call it is in is about, `iflag` whether
its interrupts are enabled, `flags` the local variable of `MASK_INTERRUPTS`.
`tstate` is `task->state`, with `UNBORN` before `start_task` allocates the
task. `heap[t]` counts the entries of `t` in `task_queue`. Each access to shared
state is one step: `StCheck`, `StDiv` (two reads of `num_tasks` in line 154;
a build with `-O0` makes both, the default `-O2` may make one), `StCount`,
`StCli`, `StLock`, `StPush`, `StUnlock`, `StSti` for `start_task`, and `TeState`,
`TeCount`, `TeCheck` for `terminate_task`. Between two of them `TimerFires` may
happen if interrupts are enabled. `MainLoop` and `MlCurrent` are `main_loop`.

`task_switch_isr` is one step, `TaskSwitch`: handlers run behind interrupt gates
and there is one processor. Its three outcomes are: `Dispatch` (some entries are
dropped, one is resumed), `Underflow` (no entry is `IN_QUEUE`: `heap_pop` runs
the queue empty and beyond; `cpu = "corrupt"`), and spinning on a lock that
nobody can release (`cpu = "hung"`). After such an end no
action of `Sched` is enabled, and the deadlock check of `sched` shows that none is
reached while some task never ends; `Mutex`, where every task may end, adds `Stopped`.
`cpu = "panic"` is the end the code intends for an empty queue; no step leads to
it, which is the finding of `sched_empty`.

Which entry is popped is left open, so that the properties hold for every order
of vtimes; `MinHeap` and `VTime` give the order.

### TaskContext

The other half of `sched.c`. `mode` is what `cpuid` tells `main_loop`; `ts` is
the bit of CR0 that makes the next use of the registers trap (`NmIsr`, the #NM
handler); `owner` is `sse_state_owner`; `regs` and `area[t]` are the registers
and the memory of a task, each one value; `wrote[t]` records what the task last
wrote. `Switch` goes to any task that is `IN_QUEUE`, which is what `Sched` shows
the run queue to amount to. `Charge` adds the cycles used to `vtime` and
`total_vtime`, modulo the word. `start_task` is two steps (`StartTask` fills in
the task, `StartCount` counts it) and `terminate_task` three (`TerminateTask`,
`TerminateTotal`, `TerminateNum`); `job` says which of them a context has yet to
do, and its caller may be switched out between them, for ever if it terminates
itself. `given` and `used` record what `start_task` has given away as initial
vtimes, which it never adds to `total_vtime`, and the cycles charged.

### Mutex

One mutex used by all tasks. The labels of `mutex_lock` and `mutex_unlock`
extend `pc`; the `yield` in `mutex_lock` is the `TaskSwitch` of `Sched`. A failed
test-and-set changes nothing and is not a step. `enqueue` and `dequeue` are
`Append` and `Head`/`Tail` of `waiting`. In the loop of `mutex_unlock` every
round is a step.

### MinHeap, VTime, PriorityQueue

One step per round of `sift_up` and `sift_down`. `data` is a function on
`0..capacity-1`, with `Nothing` in elements never written, so that an access out
of bounds or to unwritten memory shows. The order `Less` is a parameter, assumed
to be a strict weak order; the TLC instance takes it from `compare_tasks`.

### PageTables, Mapper, AddressSpace

A machine is `mem` (frames of words), the window `win`, `first_free_block`, the
root of the tables and whether it has panicked. The words of a frame are read as
page-table entries or as a block header, like in the code, so that a write
through a stale pointer does to the tables or to the list what it does in the
program. `map_page` is one step: the models have one caller at a time, as at
boot. The four blocks that `unmap_page` and `map_page` repeat level by level are
the recursive functions `Search` and `Descent`. The page walk of the processor
(`Walk`), the free frames (`FreeFrames`) and the tables in use are computed from
`mem`.

`LoaderAssumption` says what the mapper is handed: tables the loader has built
and filled as it likes, outside the memory the kernel will add, each table of the
last level used once; and a table for every page the kernel maps. That the boot
ends up there is what `LoaderHandsOver` and `FreeMemoryIsFree` say.

The calls of `calloc_page` in `map_page` are not in the model because they
cannot happen: the flags, `P` among them, are or-ed into the entry just before
it is tested for `P`. Its consequence, frame 0 taken for a table, is in
`Descend`.

### Boot, Acpi, Startup

A *machine* of `Boot` is what the firmware hands over: the multiboot2 tags, the
modules with their ELF segments and the memory map. Memory is full of `Garbage`
at first, so that a table that was not cleared shows. One step is one round of a
loop of the loader or the kernel: a tag, a page of a segment, a page of the
identity mapping (whose bound `used_memory` grows as it goes), an entry of the
memory map, a page of the first megabyte, a page unmapped, a device page. The
kernel's `map_page` is the one of `PageTables`, on the tables the loader built.
Sizes within the ELF image are halves of a page, so that the file part of a
segment may end inside one; the half behind it is cleared in the module itself,
which may hold the symbols looked up later (`FindSymbols`). Header checks are
one bit. The loader's `map_page` is `LoaderMap`: the recursive function
`Deepening` goes down from the pml4 and allocates what is missing.

What the boot relies on and nothing tests is in two assumptions, which TLC
evaluates for the machines of the run. `LinkerAssumption`: the special pages of
`linker.ld` are different pages in one table of the last level, above all physical
memory (266 pages, one after the other, at the end of the address space).
`MachinesAssumption`: a kernel's file parts are inside its module, its pages are
above the physical memory, apart from each other and in other tables than the
special pages (`KernelSound`); usable memory exists, comes in pages, is listed
once and is not the APIC's (`MapsSound`).

`Acpi` takes the root pointers of the first megabyte with the outcomes of their
checksums, and tables with signatures. A search reads entry after entry through
the window; when it enlarges its array, `malloc` may leave the window elsewhere
(`HeapFrame`). `find_mcfg` allocates one byte per entry and steps over every
second entry: `McfgEntry` and `McfgOverrun` follow the code, and with more than
one entry `pc = "damaged"` stands for whatever the overwritten heap leads to.

### Malloc, BlockHeap

The allocator as this kernel builds it: no locks, no footers, no mmap, no
mspaces. Addresses and chunk sizes are counted in units of 16 bytes, requests in
bytes; `size_t` is 12 bits wide in the instance. The record `m` holds the tags
that exist as such in memory and the fields of `malloc_state` and `mparams`. A
call is one step. A list is a sequence in `fd` order; a tree bin is a function
from the child indices on the way to a node to the ring of chunks of the node's
size. `live` holds the callers' blocks; they free only what they were given.

`MALLOC_FAILURE_ACTION` is `PANIC` in `dlmalloc_config.h`, and `sbrk` panics
instead of failing; only a size that wraps and the footprint limit make a call
return NULL. Since nobody else calls `sbrk`, the segment is contiguous:
`prepend_alloc`, `add_segment` and `release_unused_segments` are unreachable.
The word that becomes the header of the chunk that memalign cuts off holds
anything: its `PINUSE_BIT` is the parameter `junk`. The checks of dlmalloc's own
debugging code (`do_check_malloc_state` and what it calls, compiled in with
`DEBUG=1`) are operators, and `mallinfo` is one.

### Console

A step is one access to `vga_x`, `vga_y`, the colour or the screen, except that
the loops that copy, blank and clear rows are one step each, and so are the two
writes of the colour. A value that a task has read or written before is in its
register (`-O2`); `Reload`, which may come before any use of it, reads it from
memory again (`-O0`). So a backspace may test one `vga_x` (`Back`) and decrement
another (`Decrement`), which may be 0 by then. `todo` is what a task is still to print, `Preempt`
is the timer, `page` is what was printed, as long as one task prints. `PANIC` is
a new line, colours, its message and the halt.

### Division, Printf, Strings, Lib

The loops of `__udivmoddi4` one round at a time, on words of `2 * Half` values;
`__divdi3`, `__moddi3`, `__udivdi3`, `__umoddi3` around it. `Printf` parses a
directive (flags, width, precision, length, specifier), converts the argument to
its type, and produces one digit per round; the digits of a `long long` come
from calls of `Division`, as in the loader. `d = -d` for the least value is what
the C code does with it: for `int` and wider types any outcome. `Strings` does
one byte per step of `memcpy`, `memmove`, `memset`, `strcmp`, `strncmp`, `strlen`
and `strchr`. Its bytes are signed, as `char` is on x86, and the `int` arguments
of `strchr` and `memset` go beyond them on both sides.

## 3. The runs

| Run | Instance | Result |
|---|---|---|
| `sched` | 3 workers, one immortal; tasks may terminate one another | pass, 300,000 states |
| `sched_empty` | 2 mortal workers | violation of `NothingToDoPanics` |
| `mutex` | 3 workers, which may terminate themselves | pass, 87,000 states |
| `mutex_wake` | 2 workers | violation of `InQueueMeansQueued` |
| `context` | 2 workers and the boot task, three save modes, words of 6 values, up to 5 cycles | pass, 4,031,000 states |
| `min_heap` | up to 6 entries of 4 tasks, two of them tied | pass, 208,000 states |
| `mapper` | 3 levels of 2 entries, 9 frames, 3 pages; a page with the F bit is replaced, not unmapped | pass, 15,500 states |
| `mapper_free_bit` | the page with the F bit is unmapped | violation of `FreeFramesUnused` |
| `malloc` | 3 calls on an empty heap, 2 or 3 after one of four scripts | pass, 118,000 states |
| `console` | 2 tasks, 4 calls, 3 preemptions, a screen of 2 by 2 | pass, 4,973,000 states |
| `boot` | 100 machines and 9 firmwares; 3 levels of 8 entries, 41 frames | pass, 5,800 states |
| `lib` | several thousand calls of printf, all divisions of 6 bits, all calls on 5 bytes of 4 values | pass, 602,000 states |

What they show:

* `sched`: no task is lost, doubled or revived (`NoTaskLost`,
  `OneContextPerTask`); a terminated one stays terminated, and once it is off the
  processor it stays off and its entries in the queue only get fewer
  (`TerminatedStaysOff`, a property of every step that adds up to "never again");
  it does not come back from its `yield`; the handler never spins and never pops an empty queue.
* `mutex`: mutual exclusion; the spinlock has one owner; waiters are in the
  queue of the mutex and frozen (`WaitersAreParked`); only a task inside
  `mutex_lock` can fall out of the run queue (`LostOnlyInWait`); `num_tasks`
  covers the live tasks, so that the unlocked division of `start_task` is safe.
* `context`: a running task that can reach the registers finds its own values;
  `total_vtime`, plus what `start_task` has given away, covers the vtimes of the
  tasks that are started and not yet subtracted (`TotalCoversTasks`), whoever is
  preempted in `start_task` or `terminate_task`. It may still wrap below zero,
  for what was given away was never added; the property says that nothing else
  makes it.
* `min_heap`: the array is a priority queue for users of `heap_push` and
  `heap_pop`, which returns a least item, and the loops end.
* `mapper`: a call changes the translation of its page only
  and frees only a frame that no page maps to any more
  (`MapperIsAddressSpace`); the free list is sound, and a free frame is neither
  mapped nor a table; anonymous frames have one page.
* `malloc`: dlmalloc's own checks hold after every call; chunks in use are
  exactly the callers' blocks, large and aligned enough; footprint, segment,
  break and `mallinfo` agree; a large request goes to the smallest free chunk
  that fits, and the break moves only if nothing free fits (`PlacementPolicy`);
  blocks keep their place, never overlap and lie in mapped memory
  (`HeapIsBlockHeap`).
* `console`: with one task the screen shows the end of what was printed; with
  two, each preemption moves the cursor at most one cell further out
  (`DriftIsBounded`), to the right, below, or to the left of column 0, where
  `vga_x` counts down from 65535; and it is back when both have left
  (`CursorReturns`). The cell stored to with such an `x` is far outside the screen.
* `boot`: at the jump to the kernel all memory in use is mapped to itself, the
  image is in place and the window's table is the right one (`LoaderHandsOver`);
  no frame in use is ever on the free list; the running kernel has exactly the
  pages it asked for; the ACPI search finds all tables and only those, though
  `malloc` may move its window, and `main`, which tests the room in the array and
  not the number of tables, goes on with exactly one of each
  (`AcpiTablesFound`); every boot ends.
* `lib`: what printf prints reads back as its argument, in the field asked for;
  quotients and remainders are exact, up to the sign of the remainder of a
  negative divisor, which is stated as the code has it; the string functions do
  what their reference definitions say. These give overlapping copies, the order
  of signed bytes and `strchr` of an `int` beyond `CHAR_MAX` as the code has them.

**Bounds.** Three workers are one that runs, one that is preempted inside a call
and one that is its target; the boot thread is a fourth. `NumTasksMod = 8` is
above the number of tasks, so that `num_tasks` wraps only downwards, by a double
termination. In the heap, six entries give a tree with three inner nodes, two
growths of the array and an inner node with one child; vtimes stay within half
the range of an `int`: beyond, `compare_tasks` is no order. In the mapper a
block of two frames and one of a single frame give both branches of
`alloc_page`; two pages share a table and one does not; memory runs out. In
`malloc` the scripts build a trie with a ring and two subtrees, two tree bins
with a large `dv`, and several small bins, so that two or three further calls
reach every branch; the address space runs out, and sizes reach the wrap of
`size_t`. Two rows and two columns make the console wrap and scroll with every
few characters; three preemptions let a task overtake the other, be overtaken and
overtake it again. Bytes of four values, two of them negative, and `int`s from
`CHAR_MIN` to beyond `UCHAR_MAX` are all the string functions tell apart. The
machines of `boot` have kernels whose segments end at and inside pages, with and
without zeroed pages behind, and memory maps with regions below, across and
above the memory in use, or too little memory.

**Symmetry.** Workers of equal mortality, and tasks of the console, are
interchangeable; no liveness property is checked with symmetry.

**Fairness.** `HeapSpec` assumes weak fairness of `SiftUp` and `SiftDown`, for
`SiftingEnds`: they are the rounds of a loop in a function that runs to its end
with interrupts masked. `StartupSpec` assumes weak fairness of its next step,
for `BootEnds`: one thread runs, interrupts are off, and nothing waits for
anything. No other property needs fairness.

**Deadlock** is checked in `sched`, `mutex` and `min_heap`. The other runs end
where the system does (a panic, the end of a call or of the boot) or at a bound
on calls.

## 4. What the runs found

* **`sched_empty`**: when the last task ends, `heap_pop` is called on an empty
  heap. It has no test and never returns `NULL`, so that `PANIC("NOTHING TO DO")`
  is unreachable; `size` wraps. With one task that never ends this cannot happen
  (`QueueNeverUnderflows`, proved).
* **`mutex_wake`**: `mutex_unlock` sets a waiter `IN_QUEUE` but does not push it.
  The waiter's entry was pushed by its `yield`, and the scheduler may have thrown
  it away while the task was frozen. Then the task never runs again.
  `LostOnlyInWait` bounds this: it happens only inside `mutex_lock`, after the
  task froze itself. If it happens before the task has released the spinlock,
  everybody else spins.
* **`mapper_free_bit`**: `unmap_page` of a page with `PAGE_F_BIT` frees the frame
  and leaves the page mapped, since `free_page` moves the window before the entry
  is cleared. The kernel never sets this bit at present. Replacing such a page
  with `map_page` is right, unless its frame was not the mapper's to begin with:
  an anonymous mapping with the bit keeps the frame the page has, so that a
  device frame gets the bit, and the next replacement frees it. The proofs of
  the mapper need a hypothesis against both (`FreeBitKept`).

Met while modelling, and in the models as the code has it: `memmove` copies in
the order that suits neither overlap (`Overwritten` says what is lost); a processor with XSAVEOPT
gets a mode in which nothing is saved; the first page of the first megabyte is
an anonymous one, since physical address 0 is `MAP_ANON`; flag `0` of printf pads
before the sign; `__moddi3` gives the remainder the sign of the quotient; bytes
beyond 127 are negative for `strcmp`, and `strchr` never finds one that is given
as 128 to 255; a task that starts with the average vtime takes it from nowhere,
so that `total_vtime` may wrap below zero when it ends; `find_mcfg` overwrites
the heap when there is more than one entry; `malloc_set_footprint_limit(0)` sets
no limit; printing the least value of a type gives no digits, or depends on the
optimiser; a region of less than a page gives a free block of size 0 and a
format that ends in `%` is read beyond its end (neither is among the inputs of
the models; `Printf` stops there).

## 5. The proofs

All theorems hold for every value of the constants under the named assumptions
of the modules.

**Scheduler** (in `MutexProofs`). Assumed: `SchedAssumption` (the boot task is not
a worker, immortal tasks are workers). `OneContextPerTask` and `NoTaskLost` are
not inductive: whether a popped entry is the only one depends on what an
unfinished `start_task` or `main_loop` will still push. `SchedInv` adds, while
the processor runs: `LockInv` (`queue_lock` is taken exactly by the current
context, between `StLock` and `StUnlock`, with interrupts masked), `BootInv` (how
far `main_loop` is, and that the boot thread runs alone until it has terminated
its own task, with interrupts masked throughout: the loader's and the kernel's
`boot.s` clear IF), `StartInv` (a task has one starter, no entry and no context
before it is pushed), `StateInv` (only the current task is `RUNNING`) and
`ImmortalInv`. From it follow `SchedTypeCorrect`, `SchedOneContext`,
`SchedLosesNoTask`, `SchedIsrNeverSpins`, `SchedQueueNeverUnderflows`,
`SchedTerminateNeverReturns` and `SchedTerminatedStaysOff`: every step keeps
`TERMINATED` and, of a task that is off the processor (`Gone`), adds no entry; and
so `[](Gone(t) => []Gone(t))`. The induction has one step per action.

While tasks terminate only themselves, `num_tasks` covers the live tasks and is
never the 0 that `start_task` would divide by (`SchedCountsLiveTasks`,
`SchedNeverDividesByZero`). The counter is changed apart from the states, so the
invariant `CountInv` says exactly whom it counts: `Booked`, the tasks past the
increment of `start_task` and before the decrement of `terminate_task`, a task
preempted between its change of state and the decrement among them. A running
task is in `Booked` itself, and the boot thread runs alone; that is why the
second read of `num_tasks` finds what the first one found, or more. Assumed:
`TaskCountAssumption` (the tasks are finitely many and fit the counter, which has
64 bits in the code). The proof is about cardinalities of `Booked` before and
after each step.

**Mutex** (`MutexProofs`). `MutexInv` says which labels hold the spinlock and
which the mutex, and relates both to `spin` and `locked`. A switch leaves the
labels of all contexts alone except that of the one that called `yield`, which is
why mutual exclusion does not depend on the scheduler at all:
`MutexExcludes` and `SpinlockHasOneOwner` hold with any termination allowed.

Where the waiters are does depend on the scheduler, whose `NoTaskLost` the mutex
breaks. `WaitInv` keeps the parts of `SchedInv` that stay true (`CoreInv`, over
the labels of both) and `CountInv`, and adds `LabelInv` (only a task inside the
wait of `mutex_lock` is frozen), `LiveInv` (a task outside of it is in one place)
and `WakerInv` (nobody waits without a task that will empty the queue: why a
waiter's `yield` always finds somebody to switch to). `MutexWaitersAreParked`,
`MutexLosesOnlyWaiters`, `MutexCountsLiveTasks` and `MutexNeverDividesByZero`
follow, for any number of tasks that terminate only themselves.

**Registers** (`TaskContextProofs`, `RegistersAreFound`). `FindsOwnRegisters`
speaks of the running task only. The invariant adds where the values of every
other task are: in the processor if the task is the owner and the mode is lazy,
in its area otherwise; that `ts` is clear only while the current task is the
owner; and that a task not yet started has written nothing. It speaks of live
tasks: termination leaves the owner in place, and nothing is claimed of the
registers while the owner is a terminated task.

`TotalCoversLiveTasks`: the sum of the vtimes owed is a fold over the set of
tasks. `SumUpdate`, that changing one of them changes the sum by the difference,
is proved by induction over finite sets, with a set in the place of the predicate.
`TimeInv` keeps a multiple `K` of the word, by which `total_vtime` has wrapped
below zero (`Covers`): `total_vtime - K` is at most what was charged (`used`, which
stays below one word), and the sum owed plus `K` is at most `total_vtime + given`.
So it wraps back only to where nothing is missing any more. `JobInv` adds that a
task's time is subtracted by one context only. A task charged after it was
subtracted leaves `total_vtime` too large, which the inequality allows. Assumed
besides: no task is terminated twice, which `terminate_task` does not ask, and no
more than one word of cycles is ever charged.

**Heap** (`MinHeapProofs`). Assumed: `LessAssumption` (a strict weak order).
`HeapOrder` is the invariant of both loops; the proof rests on lemmas about
`Parent` and the children in 0-based indexing. `HeapRefinesPriorityQueue` maps
the array to the multiset `Contents`. It needs that the root is least
(`RootLeast`), which is an induction over indices by a least counterexample, and
that a swap leaves the cardinalities as they are.

**Console** (`ConsoleProofs`: `CursorComesBack`), for any number of tasks, any
screen and any number of preemptions. The position may be off the screen as long
as somebody is inside; the invariant says who will still test it: if `x` (or `y`)
is out of its range, some task is at a label from which it passes the test
before it leaves, with a value in its register or in memory that makes the test
succeed. For `DriftBounded`, `DriftInv` lets the task on the processor, and no
other, be one cell further out than the preemptions allow, while it is about to
test the value; `DriftXY` and `LateRow` exclude that one character is paid for by
one preemption and moves two rows, and `BackInTime` that a `vga_x` below zero costs
none. Assumed: the sides of the screen are below 65536. `Reload` may come between
any two steps, so the theorems hold for every build in between `-O0` and `-O2`.

`ScreenIsPage` is about a single task. `Stage` says for every label of `vga_putc`,
`vga_scroll` and `vga_clear` what the screen shows and which page `p` it has
reached: the recorded page is ahead of `p` by the rest of the character and of the
tabulator (`Pending`, `Goal`). While a new last row is below the screen the screen
shows `p` from one row higher up (`Below`), and in between the copy and the blanks
all of it but the last row (`Copied`). The lemmas are about indices (a cell is one
row and one column, `CellOf`, `CellBelow`), pages (`NextText`, `PokedText`) and
tabulators: as the width is a multiple of `Tab`, a loop of blanks ends in its row
and is the `Spaces` of the page (`TabLoop`).

**Division** (`LibProofs`, `DivisionIsExact`), for every word size
and all arguments, negative ones included. `num0 = quot * d + num` and `den = d * qbit`
hold in both loops, `num < 2 * den` in the second one; `den` never overflows,
since the first loop stops at the top bit. Powers of two are the least set with
1 that is closed under doubling, as the provers have no induction to offer.

**Strings** (`LibProofs`, `StringsAreExact`), for every memory of signed
bytes and any argument. Copies (`CopiesAreExact`): after `k` rounds `k` bytes at
one end of the destination are those of the source as it was before the call, but
for those that were `Overwritten` before they were read, which equal what was put
there; the rest of the memory is as it was. Scans (`ScanInv`): the `k` bytes passed so far hold neither the end of
the string nor, as the function has it, a difference or the character sought, so
that the byte where the loop stops is the one the reference definition chooses.

**Mapper** (`PageTablesProofs` for the operators, `MapperProofs`), for any number of levels, entries, frames and pages.
Assumed: `PageTablesAssumption`, `MapperAssumption`, `LoaderAssumption` (see
Mapper in section 2; it leaves out the heap beyond its first table of the last
level, for which `map_page` would take frame 0), and as a hypothesis of each theorem
`FreeBitKept`: a page mapped with `PAGE_F_BIT` is not unmapped and has at most one
frame of a device. The first part is what `mapper_free_bit` violates; without the
second one the list would get a frame of a device. The `mapper` instance satisfies
all of them, and the kernel, which never sets the bit, satisfies `FreeBitKept`.

The argument has three layers. (1) What the recursive functions are: a recursive
function on `0..n` exists (`RecursionIsDefined`), from which `Walk`, `Search`,
`Descent` and `FreeList` unfold level by level. (2) Single operations. `SameUpper`
says that entries of upper tables lead where they led at the start; `Descent` only
sets flags that are set, so that the walk stays `Path` and a page's translation is
decided by its one entry (`SeenThroughTables`). `IsFreeList` is the free list as a
sequence without repetition, hence shorter than `Frames` (`ListIsShort`), and it is
what `FreeList` computes (`ListIsFreeList`); pushing and taking a frame change it at
its head (`PushList`, `AllocLast`, `AllocFirst`). Tables are not usable memory
and free frames are, so neither kind of write disturbs the other (`Sound`). (3) The
invariant `MapperInv`: the machine is sound, free frames are added memory, and
every entry with usable memory has a frame that is not free and that no other
entry has (`EntryOk`, which also says which entries carry `PAGE_F_BIT`). It gives
`FreeListIsSound`, `FreeFramesAreUnused`, `AnonFramesArePrivate`, and with it
every step is one of `AddressSpace` or none (`MapperRefinesAddressSpace`).

**Boot** (`StartupProofs`: `LoaderHandsOverIsRight`, `FreeMemoryStaysFree`,
`KernelSpaceIsRight`), for any number of levels, entries and frames, any kernel
and any memory map. Assumed: `PageTablesAssumption`, `BootAssumption`,
`LinkerAssumption` and `MachinesAssumption`, and as a hypothesis `LoaderFits`:
each theorem has the form `StartupSpec => [](LoaderFits => P)`. The code does not
establish `LoaderFits`, as `new_phys_page` does not ask how much memory there is.
It is a part of `LoaderHandsOver`, where the `boot` run checks it, and as
`used_memory` only grows, a boot that reaches the kernel within the memory has
been within it all the way.

The properties compare a memory with what was asked for, so the invariant has to
say what the memory is. `Tree` does for the tables: a frame is the table of one
level and one range of pages only (two pages reach the same frame only through
the same indices), and all tables are below `used`. `Reach(m, v, k)` is where the
walk for page `v` is after `k` entries. Then each operation has one lemma that
gives `Reach` after it for all pages at once: linking in a cleared page
(`LinkTree`, `RootTree`), writing an entry of the last level (`LeafTree`), the
loader's `map_page` as a whole (`LoaderMapEffect`: only `v` translates
differently, new tables come from `used` on, the last one taken is the last table
if there was none), the kernel's `map_page` and `unmap_page` where the tables
are there (`MapPresentCases`, `TreeUnmap`). The window moves in all of
these; a write through it goes to a table or to a free frame, and these are
apart.

`StageInv` says for every stage what is mapped, and that nothing else is.
While the image is loaded (`Loading`) it is the pages passed so far, and the
window has no table yet: this is why the page taken last is the window's table
in `MapWindowPt`, and it is where the proof needs that the image and the special
pages are in different tables. In the identity loop (`AtIdentity`) `i <= used` pages
are mapped to themselves while `used` moves. In the kernel (`KernelInv`) the free
frames are usable, above `used` and unmapped; pages `A` have frames of their own,
pages `P` the frames asked for, and the identity mapping is left from `lo` on.
`FreeFrames` is contained in the entries read so far (`Before`), so that a block
that is added was not free. `SpaceInv`, the inductive invariant, is this together
with the types of the loop counters.

Two conditions came out of the proof. A usable entry shorter than a page becomes
a block of 0 pages, from which `alloc_page` hands out everything behind it; it is
left out by `MapsSound`. And the frame of a device page must not be 0, which
`map_page` takes for `MAP_ANON` (`BootAssumption`; the APIC is at 0xfee00000).

**ACPI** (`StartupProofs`, `AcpiSearchIsRight`), for every firmware whose
accepted root pointers lead to tables (`FirmwaresAssumption`; `find_sdt` itself
takes any address, 0 too).
`AcpiTablesFound` speaks of the tables collected so far and of the size of the
array; the invariant `AcpiInv` adds that the window is on the root table again
whenever an entry is read, though `malloc` may have moved it, and that the room,
which is doubled, is 0 exactly for no table and 1 exactly for one (`Fits`): what
makes `size == 1` a test for exactly one table.

**Only model-checked.** Liveness (`SiftingEnds`, `BootEnds`) is out of the
prover's reach. The state properties of `Malloc` and `PrintsValue` speak of
tries, lists and digits that recursive operators or folds over sequences compute,
for which the provers have no induction; they have not been attempted.
`LoaderFits` is a property of a machine, not of the code.

## 6. Not modelled

* The descriptor tables (`gdt.c`, `idt.c`), the handlers' assembly, the default
  handler's report, the registers of the APIC and the ports: constant data and
  writes to devices. Their effect is in the models: handlers are single steps,
  the timer fires whenever interrupts are enabled, the pages are mapped. With an
  x2APIC, `apic_configure_timer` writes to the wrong place; nothing here shows
  it.
* The mode switches of the loader in assembly; the layout of multiboot2 tags and
  of ELF and ACPI structures, which are records; the words that are printed.
* In `dlmalloc.c`, what the configuration compiles away or makes unreachable (see
  above), `ialloc` with an array of the caller, and the reaction to pointers that
  malloc did not return.
* Re-entry of the allocator: `start_task` calls it with interrupts enabled, and
  `heap_push` in the timer handler may call `realloc`. `Malloc` has whole calls
  as steps, as `malloc.h` demands of its callers; split at every store, it would
  be out of reach of TLC.
* The size of the extended area (`extended_state_size` is 0 before `main_loop`),
  `destroy_heap` (no caller), more than one mutex, termination of a waiter by
  another task, `compare_tasks` beyond half the range of an `int`.

## 7. What is left

1. `LoaderAssumption` of the mapper as a consequence of `KernelInv`, which would
   join the theorems about the boot with those about any later caller.
2. The allocator under re-entry, for a single small bin and `top`.
