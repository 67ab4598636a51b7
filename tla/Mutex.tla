------------------------------- MODULE Mutex -------------------------------
(***************************************************************************)
(* The sleeping mutex of src/src/mutex.c, used by the tasks of Sched: one  *)
(* mutex_t, its spinlock, its flag and its queue of waiting tasks.  The    *)
(* timer may preempt a task at every label, also while it holds the        *)
(* spinlock: mutex.c does not mask interrupts.                             *)
(***************************************************************************)
EXTENDS Sched, Sequences, SequencesExt

VARIABLES
    spin,      \* mutex->lock
    locked,    \* mutex->locked
    waiting    \* mutex->waiting_tasks, a FIFO queue (data/queue.c)

mutexVars == <<spin, locked, waiting>>
vars == <<schedVars, mutexVars>>

\* Labels of mutex_lock and mutex_unlock at which a context holds the spinlock.
SpinHeld == {"l_check", "l_freeze", "l_enq", "l_unl", "l_take", "l_rel",
             "u_clear", "u_deq", "u_rel"}

\* Labels at which a context holds the mutex: from locked = 1 to locked = 0.
MutexHeld == {"l_rel", "cs", "u_spin", "u_clear"}

MutexPC == SchedPC \cup SpinHeld \cup MutexHeld \cup {"l_spin", "l_yield"}

MutexInit ==
    /\ SchedInit
    /\ spin = 0
    /\ locked = FALSE
    /\ waiting = <<>>

\* What a step of mutex.c that does not touch the scheduler leaves alone.
SchedIdle == UNCHANGED <<heap, queue_lock, current, iflag, flags, arg,
                         num_tasks, cpu>>

-----------------------------------------------------------------------------
(***************************************************************************)
(* spinlock_lock and spinlock_unlock on mutex->lock.  A test-and-set that  *)
(* finds the lock taken changes nothing, so that the step is simply not    *)
(* enabled; the timer still is.                                            *)
(***************************************************************************)

\* Mutation of SpinAcquire: the old value is not tested.
SpinAcquireBlind(l) ==
    /\ spin' = 1
    /\ Goto(l)
    /\ UNCHANGED <<tstate, locked, waiting>>
    /\ SchedIdle

SpinAcquire(l) ==
    /\ spin = 0
    /\ spin' = 1
    /\ Goto(l)
    /\ UNCHANGED <<tstate, locked, waiting>>
    /\ SchedIdle

SpinRelease(l) ==
    /\ spin' = 0
    /\ Goto(l)
    /\ UNCHANGED <<tstate, locked, waiting>>
    /\ SchedIdle

-----------------------------------------------------------------------------
(***************************************************************************)
(* mutex_lock                                                              *)
(***************************************************************************)

CallLock ==
    /\ At("run")
    /\ Goto("l_spin")
    /\ UNCHANGED <<tstate, mutexVars>>
    /\ SchedIdle

LSpin == At("l_spin") /\ SpinAcquire("l_check")

\* Mutation of LCheck: mutex->locked is not tested.
LCheckNever ==
    /\ At("l_check")
    /\ Goto("l_take")
    /\ UNCHANGED <<tstate, mutexVars>>
    /\ SchedIdle

LCheck ==
    /\ At("l_check")
    /\ Goto(IF locked THEN "l_freeze" ELSE "l_take")
    /\ UNCHANGED <<tstate, mutexVars>>
    /\ SchedIdle

LFreeze ==
    /\ At("l_freeze")
    /\ tstate' = [tstate EXCEPT ![current] = "FROZEN"]
    /\ Goto("l_enq")
    /\ UNCHANGED mutexVars
    /\ SchedIdle

LEnq ==
    /\ At("l_enq")
    /\ waiting' = Append(waiting, current)
    /\ Goto("l_unl")
    /\ UNCHANGED <<tstate, spin, locked>>
    /\ SchedIdle

LUnl == At("l_unl") /\ SpinRelease("l_yield")

\* Back to the top of the while loop.
LYield ==
    /\ At("l_yield")
    /\ TaskSwitch("l_spin")
    /\ UNCHANGED mutexVars

LTake ==
    /\ At("l_take")
    /\ locked' = TRUE
    /\ Goto("l_rel")
    /\ UNCHANGED <<tstate, spin, waiting>>
    /\ SchedIdle

LRel == At("l_rel") /\ SpinRelease("cs")

-----------------------------------------------------------------------------
(***************************************************************************)
(* mutex_unlock, called by the task in the critical section "cs"           *)
(***************************************************************************)

CallUnlock ==
    /\ At("cs")
    /\ Goto("u_spin")
    /\ UNCHANGED <<tstate, mutexVars>>
    /\ SchedIdle

USpin == At("u_spin") /\ SpinAcquire("u_clear")

UClear ==
    /\ At("u_clear")
    /\ locked' = FALSE
    /\ Goto("u_deq")
    /\ UNCHANGED <<tstate, spin, waiting>>
    /\ SchedIdle

\* Mutation of UWake: the waiter is woken but stays in the queue.
UWakeKeep ==
    /\ At("u_deq")
    /\ waiting # <<>>
    /\ tstate' = [tstate EXCEPT ![Head(waiting)] = "IN_QUEUE"]
    /\ Goto("u_rel")
    /\ UNCHANGED mutexVars
    /\ SchedIdle

\* One round of the loop: dequeue a waiter and set its state.  Nothing pushes
\* the waiter to task_queue.
UWake ==
    /\ At("u_deq")
    /\ waiting # <<>>
    /\ tstate' = [tstate EXCEPT ![Head(waiting)] = "IN_QUEUE"]
    /\ waiting' = Tail(waiting)
    /\ UNCHANGED <<pc, spin, locked>>
    /\ SchedIdle

UEmpty ==
    /\ At("u_deq")
    /\ waiting = <<>>
    /\ Goto("u_rel")
    /\ UNCHANGED <<tstate, mutexVars>>
    /\ SchedIdle

URel == At("u_rel") /\ SpinRelease("run")

-----------------------------------------------------------------------------

MutexStep ==
    \/ CallLock \/ LSpin \/ LCheck \/ LFreeze \/ LEnq \/ LUnl \/ LYield
    \/ LTake \/ LRel
    \/ CallUnlock \/ USpin \/ UClear \/ UWake \/ UEmpty \/ URel

\* The processor executes no task any more.
Stopped ==
    /\ cpu # "up"
    /\ UNCHANGED vars

Next ==
    \/ SchedNext /\ UNCHANGED mutexVars
    \/ MutexStep
    \/ Stopped

Spec == MutexInit /\ [][Next]_vars

-----------------------------------------------------------------------------
(***************************************************************************)
(* Properties                                                              *)
(***************************************************************************)

\* The type invariant of the scheduler with one mutex (mutex.c, mutex.h).
MutexTypeOK ==
    /\ SchedTypes(MutexPC)
    /\ spin \in {0, 1}
    /\ locked \in BOOLEAN
    /\ waiting \in Seq(Task)

\* Two tasks are never in the critical section together, wherever the timer
\* preempts them and whoever is frozen, woken or terminated meanwhile; and
\* mutex->locked is set while a task is in it.
MutualExclusion ==
    /\ \A s, t \in Task : pc[s] \in MutexHeld /\ pc[t] \in MutexHeld => s = t
    /\ (\E t \in Task : pc[t] \in MutexHeld) <=> locked

\* The spinlock has one owner exactly while it is taken: nobody releases a
\* spinlock another task holds, although its holder may be preempted.
SpinlockOwned ==
    /\ \A s, t \in Task : pc[s] \in SpinHeld /\ pc[t] \in SpinHeld => s = t
    /\ (\E t \in Task : pc[t] \in SpinHeld) <=> spin = 1

\* Every task in the queue of waiters is there once, is frozen and has not left
\* the wait in mutex_lock: a waiter cannot overtake the unlock that wakes it.
WaitersAreParked ==
    ~KillOthers =>
        /\ IsInjective(waiting)
        /\ \A i \in DOMAIN waiting :
              /\ tstate[waiting[i]] = "FROZEN"
              /\ pc[waiting[i]] \in {"l_unl", "l_yield", "l_spin"}
              /\ pc[waiting[i]] = "l_spin" => waiting[i] # current

\* A live task drops out of the run queue only while it waits in mutex_lock;
\* tasks that never block on a mutex are never lost.
LostOnlyInWait ==
    (cpu = "up" /\ ~KillOthers) =>
        \A w \in Workers :
            (Started(w) /\ tstate[w] # "TERMINATED" /\ Places(w) = 0) =>
                pc[w] \in {"l_enq", "l_unl", "l_yield", "l_spin"}

\* What the name TASK_STATE_IN_QUEUE says: a task in this state is in the run
\* queue (or about to be pushed by start_task).
InQueueMeansQueued ==
    cpu = "up" =>
        \A w \in Workers : tstate[w] = "IN_QUEUE" => heap[w] > 0 \/ Starting(w)
=============================================================================
