---------------------------- MODULE TaskContext ----------------------------
(***************************************************************************)
(* What src/src/sched.c keeps for a task besides its place in the queue:   *)
(* the extended (x87, SSE, AVX) registers, which task_switch_isr saves at  *)
(* once or leaves to the next #NM exception, and its virtual time.         *)
(*                                                                         *)
(* Handlers are single steps, and a switch may go to any task that is      *)
(* IN_QUEUE: Sched shows that this is what the run queue amounts to.  The  *)
(* registers are a single value: Zero, or the last one a task wrote.  No   *)
(* task is terminated twice: terminate_task does not ask, and would drop   *)
(* the counts of the task twice.                                           *)
(***************************************************************************)
EXTENDS Integers, FiniteSetsExt

CONSTANTS
    Workers,    \* the tasks that are created with start_task(f, ...)
    BootTask,   \* the boot thread, which main_loop() turns into a task
    VtimeMod,   \* number of values of a uint64_t, scaled
    Cycles      \* what a task may use of the processor at a time

Task == Workers \cup {BootTask}

ASSUME ContextAssumption ==
    /\ IsFiniteSet(Workers) /\ BootTask \notin Workers
    /\ 0 \notin Task
    /\ VtimeMod \in Nat \ {0}
    /\ Cycles \subseteq Nat

VARIABLES
    mode,      \* extended_state_save_mode, as cpuid tells main_loop
    phase,     \* "boot" before main_loop, then "tasks"
    tstate,    \* task_t.state
    current,   \* PLS->current_task
    job,       \* what a context has yet to do in start_task, terminate_task
    ts,        \* CR0_TASK_SWITCHED
    owner,     \* PLS->sse_state_owner
    regs,      \* the extended registers of the processor
    area,      \* task_t.processor_extended_state
    wrote,     \* the value a task has last written to its registers
    vtime,     \* task_t.vtime
    total,     \* total_vtime
    num,       \* num_tasks
    given,     \* the virtual time that start_task has given away so far
    used       \* the cycles that have been charged so far

extVars == <<ts, owner, regs, area, wrote>>
timeVars == <<vtime, total, num, given, used>>
contextVars == <<mode, phase, tstate, current, job, extVars, timeVars>>

Modes == {"FXSAVE_LAZY", "XSAVE_EAGER", "XSAVEOPT_EAGER"}
NoTask == 0

\* A context is about to count the task it has started, or to subtract the vtime
\* of the task it has terminated, or then to subtract the task.
NoJob == <<"none", NoTask>>
Jobs == {NoJob} \cup ({"start", "total", "num"} \X Task)

\* The contents of an area that start_task has cleared; two values of a task.
Zero == <<NoTask, 0>>
NextValue(t, v) == IF v = <<t, 1>> THEN <<t, 2>> ELSE <<t, 1>>

ContextInit ==
    /\ mode \in Modes
    /\ phase = "boot"
    /\ tstate = [t \in Task |-> "UNBORN"]
    /\ current = BootTask
    /\ job = [t \in Task |-> NoJob]
    /\ ts = FALSE
    /\ owner = BootTask
    /\ regs = Zero
    /\ area = [t \in Task |-> Zero]
    /\ wrote = [t \in Task |-> Zero]
    /\ vtime = [t \in Task |-> 0]
    /\ total = 0 /\ num = 0 /\ given = 0 /\ used = 0

-----------------------------------------------------------------------------
(***************************************************************************)
(* start_task                                                              *)
(***************************************************************************)

StartVtime == IF num # 0 THEN total \div num ELSE 0

\* The task_t is filled in; nobody else has a pointer to it.
Create(t) ==
    /\ tstate[t] = "UNBORN" /\ \A c \in Task : job[c] # <<"start", t>>
    /\ job[current] = NoJob
    /\ area' = [area EXCEPT ![t] = Zero]
    /\ vtime' = [vtime EXCEPT ![t] = StartVtime]
    /\ given' = given + StartVtime
    /\ UNCHANGED <<mode, current, ts, regs, wrote, total, used>>

StartTask(w) ==
    /\ phase = "tasks" => tstate[current] = "RUNNING"
    /\ Create(w)
    /\ job' = [job EXCEPT ![current] = <<"start", w>>]
    /\ UNCHANGED <<phase, tstate, owner, num>>

\* num_tasks is incremented, and the task is pushed.
StartCount ==
    LET w == job[current][2]
    IN  /\ job[current][1] = "start"
        /\ num' = (num + 1) % VtimeMod
        /\ tstate' = [tstate EXCEPT ![w] = "IN_QUEUE"]
        /\ job' = [job EXCEPT ![current] = NoJob]
        /\ UNCHANGED <<mode, phase, current, extVars, vtime, total, given, used>>

\* main_loop finds the mode and the size, starts a task for itself, makes it
\* current and the owner of the registers, and enters terminate_task, all with
\* interrupts masked.
MainLoop ==
    /\ phase = "boot"
    /\ Create(BootTask)
    /\ num' = (num + 1) % VtimeMod
    /\ phase' = "tasks"
    /\ owner' = BootTask
    /\ tstate' = [tstate EXCEPT ![BootTask] = "TERMINATED"]
    /\ job' = [job EXCEPT ![BootTask] = <<"total", BootTask>>]

-----------------------------------------------------------------------------
(***************************************************************************)
(* task_switch_isr and save_extended_state_isr                             *)
(***************************************************************************)

\* The top of task_switch_isr; nothing is saved with XSAVEOPT.
SaveOnSwitch(t) ==
    \/ /\ mode = "FXSAVE_LAZY"
       /\ ts' = TRUE
       /\ UNCHANGED area
    \/ /\ mode = "XSAVE_EAGER"
       /\ area' = [area EXCEPT ![t] = regs]
       /\ UNCHANGED ts
    \/ /\ mode = "XSAVEOPT_EAGER"
       /\ UNCHANGED <<ts, area>>

RestoreOnSwitch(t) == regs' = IF mode = "XSAVE_EAGER" THEN area'[t] ELSE regs

\* vtime_delta = rdtsc() - started_at; for the boot task, whose started_at is
\* 0, that is the time since power-on.
Charge(t) ==
    \E d \in Cycles :
        /\ used + d < VtimeMod    \* 2^64 cycles are more than a century
        /\ vtime' = [vtime EXCEPT ![t] = (@ + d) % VtimeMod]
        /\ total' = (total + d) % VtimeMod
        /\ used' = used + d
        /\ UNCHANGED <<num, given>>

Requeued ==
    [tstate EXCEPT ![current] = IF @ = "RUNNING" THEN "IN_QUEUE" ELSE @]

\* A task terminated by itself is preempted before it has dropped its counts,
\* or yields after that; either way it does not come back.
Switch(n) ==
    /\ phase = "tasks"
    /\ Requeued[n] = "IN_QUEUE"
    /\ SaveOnSwitch(current)
    /\ RestoreOnSwitch(n)
    /\ Charge(current)
    /\ tstate' = [Requeued EXCEPT ![n] = "RUNNING"]
    /\ current' = n
    /\ UNCHANGED <<mode, phase, job, owner, wrote>>

\* Mutation of NmIsr: the registers are not saved for their owner.
NmIsrNoSave ==
    /\ phase = "tasks"
    /\ ts
    /\ ts' = FALSE
    /\ owner' = current
    /\ regs' = area[current]
    /\ UNCHANGED <<mode, phase, tstate, current, job, area, wrote, timeVars>>

\* save_extended_state_isr: an instruction found CR0.TS set.
NmIsr ==
    /\ phase = "tasks"
    /\ ts
    /\ ts' = FALSE
    /\ IF tstate[owner] # "TERMINATED"
         THEN area' = [area EXCEPT ![owner] = regs]
         ELSE UNCHANGED area
    /\ owner' = current
    /\ regs' = area'[current]
    /\ UNCHANGED <<mode, phase, tstate, current, job, wrote, timeVars>>

\* A task writes its extended registers.
UseRegisters ==
    /\ phase = "tasks" => tstate[current] = "RUNNING"
    /\ ~ts
    /\ regs' = NextValue(current, regs)
    /\ wrote' = [wrote EXCEPT ![current] = regs']
    /\ UNCHANGED <<mode, phase, tstate, current, job, ts, owner, area,
                   timeVars>>

-----------------------------------------------------------------------------
(***************************************************************************)
(* terminate_task: the state first, the counters then                      *)
(***************************************************************************)

TerminateTask(t) ==
    /\ phase = "tasks"
    /\ tstate[current] = "RUNNING" /\ job[current] = NoJob
    /\ tstate[t] \in {"RUNNING", "IN_QUEUE"}
    /\ tstate' = [tstate EXCEPT ![t] = "TERMINATED"]
    /\ job' = [job EXCEPT ![current] = <<"total", t>>]
    /\ UNCHANGED <<mode, phase, current, extVars, timeVars>>

\* Mutation of TerminateTotal: the vtime of the caller is subtracted.
TerminateTotalOwn ==
    /\ job[current][1] = "total"
    /\ total' = (total + (VtimeMod - vtime[current])) % VtimeMod
    /\ job' = [job EXCEPT ![current][1] = "num"]
    /\ UNCHANGED <<mode, phase, tstate, current, extVars, vtime, num, given, used>>

TerminateTotal ==
    LET t == job[current][2]
    IN  /\ job[current][1] = "total"
        /\ total' = (total + (VtimeMod - vtime[t])) % VtimeMod
        /\ job' = [job EXCEPT ![current] = <<"num", t>>]
        /\ UNCHANGED <<mode, phase, tstate, current, extVars, vtime, num, given,
                       used>>

TerminateNum ==
    /\ job[current][1] = "num"
    /\ num' = (num + (VtimeMod - 1)) % VtimeMod
    /\ job' = [job EXCEPT ![current] = NoJob]
    /\ UNCHANGED <<mode, phase, tstate, current, extVars, vtime, total, given,
                   used>>

ContextNext ==
    \/ \E w \in Workers : StartTask(w)
    \/ StartCount
    \/ MainLoop
    \/ \E n \in Task : Switch(n)
    \/ NmIsr
    \/ UseRegisters
    \/ \E t \in Task : TerminateTask(t)
    \/ TerminateTotal
    \/ TerminateNum

ContextSpec == ContextInit /\ [][ContextNext]_contextVars

-----------------------------------------------------------------------------
(***************************************************************************)
(* Properties                                                              *)
(***************************************************************************)

\* A running task that can reach the extended registers without an exception
\* finds in them what it wrote last, or zeros: no switch, no #NM, no start and
\* no termination of the owner loses its values or shows it those of another.
\* (With XSAVEOPT task_switch_isr saves and restores nothing.)
FindsOwnRegisters ==
    (mode # "XSAVEOPT_EAGER" /\ tstate[current] = "RUNNING" /\ ~ts) =>
        regs = wrote[current]

\* start_task has given t its virtual time, and terminate_task has not taken the
\* time back.
Counts(t) ==
    \/ tstate[t] \in {"RUNNING", "IN_QUEUE"}
    \/ \E c \in Task : job[c] \in {<<"start", t>>, <<"total", t>>}

Owed == [t \in Task |-> IF Counts(t) THEN vtime[t] ELSE 0]

\* total_vtime falls short of the vtimes of the tasks it stands for at most by
\* what start_task gave them for nothing, so that it never wraps below zero on
\* any other account: not by a task that is preempted inside terminate_task, nor
\* by one that is charged after its vtime was subtracted, nor by one that is
\* started while another is on its way out.
TotalCoversTasks ==
    MapThenSumSet(LAMBDA t : Owed[t], Task) <= total + given
=============================================================================
