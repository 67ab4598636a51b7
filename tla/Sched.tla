------------------------------- MODULE Sched -------------------------------
(***************************************************************************)
(* The task scheduler of src/src/sched.c on one processor.                 *)
(*                                                                         *)
(* A step of the model is one memory access of a task that another task    *)
(* can observe.  An interrupt handler is a single step: every gate of the  *)
(* IDT is an interrupt gate, so a handler runs with interrupts masked, and *)
(* only one processor is ever started.                                     *)
(*                                                                         *)
(* Virtual times are abstracted: heap_pop may return any entry of the      *)
(* queue, which covers every order the vtime keys can produce.  The module *)
(* MinHeap says what the order is.                                         *)
(***************************************************************************)
EXTENDS Naturals, FiniteSets

CONSTANTS
    Workers,      \* the tasks the kernel may create with start_task(f, ...)
    BootTask,     \* the boot thread, which main_loop() turns into a task
    Immortal,     \* workers that loop forever, as test_task in boot/main.c
    KillOthers,   \* may a task call terminate_task on a task but itself?
    NumTasksMod   \* number of values of the uint64_t num_tasks, scaled

Task == Workers \cup {BootTask}

ASSUME SchedAssumption ==
    /\ BootTask \notin Workers
    /\ Immortal \subseteq Workers
    /\ KillOthers \in BOOLEAN
    /\ NumTasksMod \in Nat \ {0}

\* The kernel has memory for fewer than 2^64 tasks.
ASSUME TaskCountAssumption ==
    /\ IsFiniteSet(Workers)
    /\ Cardinality(Task) < NumTasksMod

VARIABLES
    tstate,       \* task_t.state; "UNBORN" before the calloc of the task_t
    heap,         \* task_queue: how many entries point to each task
    queue_lock,   \* the spinlock that guards task_queue
    current,      \* the context on the processor: PLS->current_task
    iflag,        \* RFLAGS.IF of a context: live if current, else saved
    flags,        \* the local _flags of MASK_INTERRUPTS
    pc,           \* where a context is in the scheduler's code
    arg,          \* the task argument of the call a context is in
    num_tasks,    \* the counter that start_task divides total_vtime by
    cpu           \* "up", or why the processor executes no more tasks

schedVars == <<tstate, heap, queue_lock, current, iflag, flags, pc, arg,
               num_tasks, cpu>>

State == {"UNBORN", "RUNNING", "IN_QUEUE", "TERMINATED", "FROZEN"}

\* The labels of start_task between the creation of the task_t and heap_push.
PrePush == {"st_check", "st_div", "st_count", "st_cli", "st_lock", "st_push"}

SchedPC == PrePush \cup {"boot", "run", "st_unlock", "st_sti", "ml_current",
                         "te_state", "te_count", "te_check", "te_unreachable"}

CpuState == {"up", "hung", "corrupt", "divide_error", "panic"}

SchedInit ==
    /\ tstate = [t \in Task |-> "UNBORN"]
    /\ heap = [t \in Task |-> 0]
    /\ queue_lock = 0
    /\ current = BootTask
    /\ iflag = [t \in Task |-> FALSE]
    /\ flags = [t \in Task |-> FALSE]
    /\ pc = [t \in Task |-> IF t = BootTask THEN "boot" ELSE "run"]
    /\ arg = [t \in Task |-> BootTask]
    /\ num_tasks = 0
    /\ cpu = "up"

\* Some context is about to push the first entry of t.
Starting(t) == \E c \in Task : arg[c] = t /\ pc[c] \in PrePush

Started(t) == tstate[t] # "UNBORN" /\ ~Starting(t)

\* The context on the processor is at label l.
At(l) == cpu = "up" /\ pc[current] = l

\* ... and moves on to label l.
Goto(l) == pc' = [pc EXCEPT ![current] = l]

-----------------------------------------------------------------------------
(***************************************************************************)
(* task_switch_isr: requeue the interrupted task, then pop entries until   *)
(* one is IN_QUEUE.                                                        *)
(***************************************************************************)

\* Mutations of RequeuedState: the transition is missing; its test is missing.
RequeuedStateMissing == tstate
RequeuedStateAlways == [tstate EXCEPT ![current] = "IN_QUEUE"]

\* RUNNING -> IN_QUEUE; a FROZEN or TERMINATED task keeps its state.
RequeuedState ==
    [tstate EXCEPT ![current] = IF @ = "RUNNING" THEN "IN_QUEUE" ELSE @]

PushEntry(h, t) == [h EXCEPT ![t] = @ + 1]

\* Mutation of Dispatchable: tests for FROZEN instead of IN_QUEUE.
DispatchableUnlessFrozen(ts, t) == ts[t] # "FROZEN"

\* A popped entry is dispatched if its task is IN_QUEUE, else thrown away.
Dispatchable(ts, t) == ts[t] = "IN_QUEUE"

\* The numbers of entries the pop loop may throw away before it stops.  No
\* task has more than two entries (OneContextPerTask).
Dropped(ts, h) ==
    {d \in [Task -> 0..2] :
        \A t \in Task : d[t] <= h[t] /\ (Dispatchable(ts, t) => d[t] = 0)}

\* Mutations of Dispatch: the entry is read but not removed; heap_pop is called
\* once more after a task was found.
DispatchPeek(ts, h) ==
    \E n \in Task, d \in Dropped(ts, h) :
        /\ h[n] > 0
        /\ Dispatchable(ts, n)
        /\ heap' = [t \in Task |-> h[t] - d[t]]
        /\ tstate' = [ts EXCEPT ![n] = "RUNNING"]
        /\ current' = n
        /\ cpu' = cpu
DispatchPopsAgain(ts, h) ==
    \E n \in Task, m \in Task :
        /\ h[n] > 0
        /\ Dispatchable(ts, n)
        /\ heap' = [t \in Task |-> (h[t] - (IF t = n THEN 1 ELSE 0))
                                        - (IF t = m THEN 1 ELSE 0)]
        /\ tstate' = [ts EXCEPT ![n] = "RUNNING"]
        /\ current' = n
        /\ cpu' = cpu

\* The pop loop finds a task that is IN_QUEUE.
Dispatch(ts, h) ==
    \E n \in Task, d \in Dropped(ts, h) :
        /\ h[n] > 0
        /\ Dispatchable(ts, n)
        /\ heap' = [t \in Task |-> (h[t] - d[t]) - (IF t = n THEN 1 ELSE 0)]
        /\ tstate' = [ts EXCEPT ![n] = "RUNNING"]
        /\ current' = n
        /\ cpu' = cpu

\* The queue runs empty first.  heap_pop has no check for that and returns
\* data[0], never NULL: h->size wraps below zero and data[-1] becomes an entry.
Underflow(ts, h) ==
    /\ \A t \in Task : h[t] > 0 => ~Dispatchable(ts, t)
    /\ heap' = [t \in Task |-> 0]
    /\ tstate' = ts
    /\ cpu' = "corrupt"
    /\ UNCHANGED current

\* The handler, entered by a context that will resume at label l.
TaskSwitch(l) ==
    LET ts == RequeuedState
        h  == PushEntry(heap, current)
    IN  /\ Goto(l)
        /\ IF queue_lock = 0
             THEN Dispatch(ts, h) \/ Underflow(ts, h)
             ELSE \* spinlock_lock spins with interrupts masked
                  /\ cpu' = "hung"
                  /\ tstate' = ts
                  /\ UNCHANGED <<heap, current>>
        /\ UNCHANGED <<queue_lock, iflag, flags, arg, num_tasks>>

\* apic_timer_fired_isr, between any two instructions of a task.
TimerFires ==
    /\ cpu = "up"
    /\ iflag[current]
    /\ TaskSwitch(pc[current])

Yield ==
    /\ At("run")
    /\ TaskSwitch("run")

-----------------------------------------------------------------------------
(***************************************************************************)
(* start_task                                                              *)
(***************************************************************************)

\* The task_t is allocated and filled in; nobody else has a pointer to it.
Create(t) ==
    /\ tstate' = [tstate EXCEPT ![t] = "IN_QUEUE"]
    /\ iflag' = [iflag EXCEPT ![t] = IF t = BootTask THEN @ ELSE TRUE]
    /\ arg' = [arg EXCEPT ![current] = t]
    /\ Goto("st_check")
    /\ UNCHANGED <<heap, queue_lock, current, flags, num_tasks, cpu>>

StartTask(w) ==
    /\ At("run") \/ At("boot")
    /\ tstate[w] = "UNBORN"
    /\ Create(w)

\* Mutation of StCheck: the test for zero is missing.
StCheckNoTest ==
    /\ At("st_check")
    /\ Goto("st_div")
    /\ UNCHANGED <<tstate, heap, queue_lock, current, iflag, flags, arg,
                   num_tasks, cpu>>

\* num_tasks ? ... : 0 and the division read num_tasks one after the other.
StCheck ==
    /\ At("st_check")
    /\ Goto(IF num_tasks # 0 THEN "st_div" ELSE "st_count")
    /\ UNCHANGED <<tstate, heap, queue_lock, current, iflag, flags, arg,
                   num_tasks, cpu>>

StDiv ==
    /\ At("st_div")
    /\ Goto("st_count")
    /\ cpu' = IF num_tasks = 0 THEN "divide_error" ELSE cpu
    /\ UNCHANGED <<tstate, heap, queue_lock, current, iflag, flags, arg,
                   num_tasks>>

StCount ==
    /\ At("st_count")
    /\ Goto("st_cli")
    /\ num_tasks' = (num_tasks + 1) % NumTasksMod
    /\ UNCHANGED <<tstate, heap, queue_lock, current, iflag, flags, arg, cpu>>

\* Mutation of StCli: interrupts stay enabled.
StCliUnmasked ==
    /\ At("st_cli")
    /\ Goto("st_lock")
    /\ flags' = [flags EXCEPT ![current] = iflag[current]]
    /\ UNCHANGED <<tstate, heap, queue_lock, current, iflag, arg, num_tasks,
                   cpu>>

StCli ==
    /\ At("st_cli")
    /\ Goto("st_lock")
    /\ flags' = [flags EXCEPT ![current] = iflag[current]]
    /\ iflag' = [iflag EXCEPT ![current] = FALSE]
    /\ UNCHANGED <<tstate, heap, queue_lock, current, arg, num_tasks, cpu>>

StLock ==
    /\ At("st_lock")
    /\ queue_lock = 0
    /\ queue_lock' = 1
    /\ Goto("st_push")
    /\ UNCHANGED <<tstate, heap, current, iflag, flags, arg, num_tasks, cpu>>

StPush ==
    /\ At("st_push")
    /\ heap' = PushEntry(heap, arg[current])
    /\ Goto("st_unlock")
    /\ UNCHANGED <<tstate, queue_lock, current, iflag, flags, arg, num_tasks,
                   cpu>>

StUnlock ==
    /\ At("st_unlock")
    /\ queue_lock' = 0
    /\ Goto("st_sti")
    /\ UNCHANGED <<tstate, heap, current, iflag, flags, arg, num_tasks, cpu>>

\* Where start_task returns to.
StReturn ==
    IF current # BootTask THEN "run"
    ELSE IF arg[current] = BootTask THEN "ml_current" ELSE "boot"

StSti ==
    /\ At("st_sti")
    /\ Goto(StReturn)
    /\ iflag' = [iflag EXCEPT ![current] = flags[current]]
    /\ UNCHANGED <<tstate, heap, queue_lock, current, flags, arg, num_tasks,
                   cpu>>

-----------------------------------------------------------------------------
(***************************************************************************)
(* terminate_task                                                          *)
(***************************************************************************)

\* The kernel calls terminate_task(t), with the pointer start_task returned or
\* get_current_task().  An immortal task never ends itself; nobody ends it.
TerminateTask(t) ==
    /\ At("run")
    /\ t \notin Immortal
    /\ t = current \/ (KillOthers /\ Started(t))
    /\ Goto("te_state")
    /\ arg' = [arg EXCEPT ![current] = t]
    /\ UNCHANGED <<tstate, heap, queue_lock, current, iflag, flags, num_tasks,
                   cpu>>

TeState ==
    /\ At("te_state")
    /\ tstate' = [tstate EXCEPT ![arg[current]] = "TERMINATED"]
    /\ Goto("te_count")
    /\ UNCHANGED <<heap, queue_lock, current, iflag, flags, arg, num_tasks,
                   cpu>>

\* Mutation of TeCount: the counter drops by two.
TeCountTwice ==
    /\ At("te_count")
    /\ num_tasks' = (num_tasks + (NumTasksMod - 2)) % NumTasksMod
    /\ Goto("te_check")
    /\ UNCHANGED <<tstate, heap, queue_lock, current, iflag, flags, arg, cpu>>

TeCount ==
    /\ At("te_count")
    /\ num_tasks' = (num_tasks + (NumTasksMod - 1)) % NumTasksMod
    /\ Goto("te_check")
    /\ UNCHANGED <<tstate, heap, queue_lock, current, iflag, flags, arg, cpu>>

\* yield() is not expected to come back to a terminated task.
TeCheck ==
    /\ At("te_check")
    /\ IF arg[current] = current
         THEN TaskSwitch("te_unreachable")
         ELSE /\ Goto("run")
              /\ UNCHANGED <<tstate, heap, queue_lock, current, iflag, flags,
                             arg, num_tasks, cpu>>

-----------------------------------------------------------------------------
(***************************************************************************)
(* main_loop: the boot thread starts a task that stands for itself, then   *)
(* terminates it.  The boot code has started the immortal tasks before.    *)
(***************************************************************************)
MainLoop ==
    /\ At("boot")
    /\ \A w \in Immortal : tstate[w] # "UNBORN"
    /\ Create(BootTask)

\* PLS->current_task = t; terminate_task(t)
MlCurrent ==
    /\ At("ml_current")
    /\ Goto("te_state")
    /\ arg' = [arg EXCEPT ![current] = BootTask]
    /\ UNCHANGED <<tstate, heap, queue_lock, current, iflag, flags, num_tasks,
                   cpu>>

-----------------------------------------------------------------------------

\* The processor may stop: no action is enabled while cpu # "up".
SchedNext ==
    \/ TimerFires \/ Yield
    \/ \E w \in Workers : StartTask(w)
    \/ StCheck \/ StDiv \/ StCount \/ StCli \/ StLock \/ StPush \/ StUnlock
    \/ StSti
    \/ \E w \in Workers : TerminateTask(w)
    \/ TeState \/ TeCount \/ TeCheck
    \/ MainLoop \/ MlCurrent

SchedSpec == SchedInit /\ [][SchedNext]_schedVars
-----------------------------------------------------------------------------
(***************************************************************************)
(* Properties                                                              *)
(***************************************************************************)

\* The variables of sched.c have their types, for contexts with labels L.
SchedTypes(L) ==
    /\ tstate \in [Task -> State]
    /\ heap \in [Task -> Nat]
    /\ queue_lock \in {0, 1}
    /\ current \in Task
    /\ iflag \in [Task -> BOOLEAN]
    /\ flags \in [Task -> BOOLEAN]
    /\ pc \in [Task -> L]
    /\ arg \in [Task -> Task]
    /\ num_tasks \in 0..(NumTasksMod - 1)
    /\ cpu \in CpuState

\* The type invariant of the scheduler's state (sched.c, sched.h).
TypeOK == SchedTypes(SchedPC)

\* Where a context of t can be dispatched from: the processor, and the entries
\* of the queue.
Places(t) == heap[t] + (IF t = current THEN 1 ELSE 0)

\* No task is in two places: were a task in the queue while it runs, or twice
\* in the queue, task_switch_isr could resume one saved_state twice.  Only the
\* boot task has two entries: main_loop pushes it and its yield() once more.
OneContextPerTask ==
    \A t \in Task : Places(t) <= (IF t = BootTask THEN 2 ELSE 1)

\* A task that start_task has pushed and that is neither terminated nor frozen
\* is on the processor or in the queue: the pop loop of task_switch_isr, which
\* throws entries away, never throws away a live task.
NoTaskLost ==
    cpu = "up" =>
        \A w \in Workers :
            Started(w) /\ tstate[w] \in {"RUNNING", "IN_QUEUE"} => Places(w) = 1

\* task_switch_isr never spins on queue_lock: start_task holds it only while
\* MASK_INTERRUPTS keeps the timer away.
IsrNeverSpins == cpu # "hung"

\* heap_pop is never called on an empty queue while some task never ends.
QueueNeverUnderflows == Immortal # {} => cpu # "corrupt"

\* The yield() of terminate_task does not return (the code after it is
\* __builtin_unreachable), neither in a worker nor in main_loop.
TerminateNeverReturns == pc[current] # "te_unreachable" \/ cpu # "up"

\* Task t is terminated and another context is on the processor.
Gone(t) == tstate[t] = "TERMINATED" /\ t # current

\* A terminated task is never revived, whatever its killer, its starter and the
\* handler do around the write of its state; and once it is off the processor
\* it stays off, and start_task and the handler put no entry of it into the
\* queue again, so that those left there are dropped one by one.
TerminatedStaysOff ==
    [][\A t \in Task :
         /\ tstate[t] = "TERMINATED" => tstate'[t] = "TERMINATED"
         /\ Gone(t) => Gone(t)' /\ heap'[t] <= heap[t]]_schedVars

\* The tasks that num_tasks must count: those past the increment of start_task
\* and before the decrement of terminate_task.
Counted ==
    {t \in Task :
        /\ tstate[t] # "UNBORN"
        /\ \A c \in Task :
              arg[c] = t => pc[c] \notin {"st_check", "st_div", "st_count"}
        /\ tstate[t] = "TERMINATED" => pc[t] = "te_count"}

\* While tasks only terminate themselves, num_tasks is never below the number
\* of live tasks (it may stay above, when a task is preempted inside
\* terminate_task) ...
NumTasksCoversLive ==
    (~KillOthers /\ cpu = "up") => num_tasks >= Cardinality(Counted)

\* ... so start_task never divides by zero, although it reads num_tasks once
\* for the test and once for the division.
NoDivideError == ~KillOthers => cpu # "divide_error"

\* What the test in the pop loop intends: with nothing to do, the kernel stops
\* with PANIC("NOTHING TO DO").
NothingToDoPanics ==
    (cpu # "up" /\ \A t \in Task : heap[t] = 0) => cpu = "panic"
=============================================================================
