---------------------------- MODULE MutexProofs ----------------------------
(***************************************************************************)
(* The scheduler and, on top of it, the mutual exclusion of mutex.c, for   *)
(* every set of workers, wherever the timer preempts them and whichever    *)
(* tasks are terminated.                                                   *)
(***************************************************************************)
EXTENDS Mutex, FiniteSetTheorems, TLAPS

-----------------------------------------------------------------------------
(***************************************************************************)
(* Type correctness, for any set L of labels that includes the scheduler's *)
(* own, so that a module that adds labels can use it.                      *)
(***************************************************************************)

\* The counter num_tasks wraps within its width.
LEMMA ModType ==
    ASSUME NEW n \in Nat
    PROVE  n % NumTasksMod \in 0..(NumTasksMod - 1)
BY SchedAssumption

\* The pop loop of task_switch_isr keeps the queue a multiset of tasks.
LEMMA DispatchType ==
    ASSUME NEW ts \in [Task -> State], NEW h \in [Task -> Nat], cpu \in CpuState,
           Dispatch(ts, h)
    PROVE  /\ tstate' \in [Task -> State]
           /\ heap' \in [Task -> Nat]
           /\ current' \in Task
           /\ cpu' \in CpuState
<1>1. PICK n \in Task, d \in Dropped(ts, h) :
        /\ h[n] > 0
        /\ Dispatchable(ts, n)
        /\ heap' = [t \in Task |-> (h[t] - d[t]) - (IF t = n THEN 1 ELSE 0)]
        /\ tstate' = [ts EXCEPT ![n] = "RUNNING"]
        /\ current' = n
        /\ cpu' = cpu
  BY DEF Dispatch
<1>2. \A t \in Task : d[t] \in Nat /\ d[t] <= h[t] /\ (t = n => d[t] = 0)
  BY <1>1 DEF Dropped
<1>3. \A t \in Task : (h[t] - d[t]) - (IF t = n THEN 1 ELSE 0) \in Nat
  BY <1>1, <1>2
<1> QED
  BY <1>1, <1>3 DEF State

\* The whole handler keeps the types.
LEMMA TaskSwitchType ==
    ASSUME NEW L, NEW l \in L, SchedTypes(L), TaskSwitch(l)
    PROVE  SchedTypes(L)'
<1> DEFINE ts == RequeuedState
           h  == PushEntry(heap, current)
<1>1. ts \in [Task -> State] /\ h \in [Task -> Nat]
  BY DEF SchedTypes, RequeuedState, PushEntry, State
<1>2. /\ tstate' \in [Task -> State]
      /\ heap' \in [Task -> Nat]
      /\ current' \in Task
      /\ cpu' \in CpuState
  <2> HIDE DEF ts, h
  <2>1. CASE queue_lock = 0 /\ Dispatch(ts, h)
    BY <1>1, <2>1, DispatchType DEF SchedTypes
  <2>2. CASE queue_lock = 0 /\ Underflow(ts, h)
    BY <1>1, <2>2 DEF SchedTypes, Underflow, CpuState
  <2>3. CASE queue_lock # 0
    BY <1>1, <2>3 DEF SchedTypes, TaskSwitch, CpuState, ts, h
  <2> QED
    BY <2>1, <2>2, <2>3 DEF TaskSwitch, ts, h
<1> QED
  BY <1>2 DEF SchedTypes, TaskSwitch, Goto

\* Every step of the scheduler keeps the types.
LEMMA SchedTypesStep ==
    ASSUME NEW L, SchedPC \subseteq L, SchedTypes(L), [SchedNext]_schedVars
    PROVE  SchedTypes(L)'
<1> USE DEF SchedPC, PrePush, At, Goto
<1>1. CASE TimerFires
  BY <1>1, TaskSwitchType DEF TimerFires, SchedTypes
<1>2. CASE Yield
  BY <1>2, TaskSwitchType DEF Yield
<1>3. ASSUME NEW w \in Workers, StartTask(w) PROVE SchedTypes(L)'
  BY <1>3 DEF StartTask, Create, SchedTypes, State, Task
<1>4. CASE StCheck
  BY <1>4 DEF StCheck, SchedTypes
<1>5. CASE StDiv
  BY <1>5 DEF StDiv, SchedTypes, CpuState
<1>6. CASE StCount
  <2>1. num_tasks + 1 \in Nat
    BY SchedAssumption DEF SchedTypes
  <2> QED
    BY <1>6, <2>1, ModType DEF StCount, SchedTypes
<1>7. CASE StCli
  BY <1>7 DEF StCli, SchedTypes
<1>8. CASE StLock
  BY <1>8 DEF StLock, SchedTypes
<1>9. CASE StPush
  BY <1>9 DEF StPush, PushEntry, SchedTypes
<1>10. CASE StUnlock
  BY <1>10 DEF StUnlock, SchedTypes
<1>11. CASE StSti
  BY <1>11 DEF StSti, StReturn, SchedTypes
<1>12. ASSUME NEW w \in Workers, TerminateTask(w) PROVE SchedTypes(L)'
  BY <1>12 DEF TerminateTask, SchedTypes, Task
<1>13. CASE TeState
  BY <1>13 DEF TeState, SchedTypes, State
<1>14. CASE TeCount
  <2>1. num_tasks + (NumTasksMod - 1) \in Nat
    BY SchedAssumption DEF SchedTypes
  <2> QED
    BY <1>14, <2>1, ModType DEF TeCount, SchedTypes
<1>15. CASE TeCheck
  <2>1. CASE arg[current] = current
    BY <1>15, <2>1, TaskSwitchType DEF TeCheck
  <2>2. CASE arg[current] # current
    BY <1>15, <2>2 DEF TeCheck, SchedTypes
  <2> QED
    BY <2>1, <2>2
<1>16. CASE MainLoop
  BY <1>16 DEF MainLoop, Create, SchedTypes, State, Task
<1>17. CASE MlCurrent
  BY <1>17 DEF MlCurrent, SchedTypes, Task
<1>18. CASE UNCHANGED schedVars
  BY <1>18 DEF schedVars, SchedTypes
<1> QED
  BY <1>1, <1>2, <1>3, <1>4, <1>5, <1>6, <1>7, <1>8, <1>9, <1>10, <1>11,
     <1>12, <1>13, <1>14, <1>15, <1>16, <1>17, <1>18
  DEF SchedNext

\* The scheduler's variables always have their types.
THEOREM SchedTypeCorrect == SchedSpec => []TypeOK
<1>1. SchedInit => TypeOK
  BY SchedAssumption DEF SchedInit, TypeOK, SchedTypes, Task, State, SchedPC,
                         CpuState
<1>2. TypeOK /\ [SchedNext]_schedVars => TypeOK'
  BY SchedTypesStep DEF TypeOK
<1> QED
  BY <1>1, <1>2, PTL DEF SchedSpec
-----------------------------------------------------------------------------
(***************************************************************************)
(* The inductive invariant of the scheduler                                *)
(***************************************************************************)

\* The labels at which start_task has masked interrupts.
Masked == {"st_lock", "st_push", "st_unlock", "st_sti"}

\* A masked context is the one on the processor, so that queue_lock is taken
\* exactly while that context is in its critical section.
LockInv ==
    /\ \A t \in Task : pc[t] \in Masked => t = current /\ ~iflag[t]
    /\ queue_lock = 1 <=> pc[current] \in {"st_push", "st_unlock"}

\* main_loop has created the task of the boot thread.
InMainLoop == pc[BootTask] # "boot" /\ arg[BootTask] = BootTask

\* The boot thread runs alone, with interrupts masked, until it switches away
\* for good; its own task is pushed once.
BootInv ==
    /\ ~iflag[BootTask] /\ ~flags[BootTask]
    /\ pc[BootTask] # "run"
    /\ pc[BootTask] # "te_unreachable" =>
         current = BootTask /\ \A w \in Workers : pc[w] = "run"
    /\ pc[BootTask] \in {"ml_current", "te_state", "te_count", "te_check",
                         "te_unreachable"} => arg[BootTask] = BootTask
    /\ ~InMainLoop \/ pc[BootTask] \in PrePush => heap[BootTask] = 0
    /\ \A w \in Workers : pc[w] \notin {"boot", "ml_current"}
    /\ \A w \in Workers : pc[w] \in SchedPC \ {"run"} => arg[w] \in Workers

\* A task that start_task has not pushed yet is nowhere, and only one context
\* is going to push it.
StartInv ==
    /\ \A w \in Workers : tstate[w] = "UNBORN" => Places(w) = 0
    /\ \A c \in Task : pc[c] \in PrePush /\ arg[c] \in Workers =>
          Places(arg[c]) = 0 /\ tstate[arg[c]] # "UNBORN"
    /\ \A c, d \in Task :
          pc[c] \in PrePush /\ pc[d] \in PrePush /\ arg[c] = arg[d] => c = d

\* RUNNING means on the processor, and a task that terminates itself is
\* TERMINATED before it switches away.
StateInv ==
    /\ \A t \in Task : tstate[t] = "RUNNING" => t = current
    /\ \A t \in Task : pc[t] = "te_unreachable" =>
          t # current /\ tstate[t] = "TERMINATED"
    /\ \A t \in Task : pc[t] \in {"te_count", "te_check"} /\ arg[t] = t =>
          tstate[t] = "TERMINATED"

\* Once main_loop has begun, the immortal tasks are in the queue, and nobody
\* terminates them.
ImmortalInv ==
    /\ \A i \in Immortal : tstate[i] \in {"UNBORN", "RUNNING", "IN_QUEUE"}
    /\ \A t \in Task : pc[t] = "te_state" => arg[t] \notin Immortal
    /\ InMainLoop => \A i \in Immortal : Started(i)

\* What holds whatever else the tasks do, for contexts with labels L: the part
\* of the invariant that also holds when the tasks use mutexes.
CoreInv(L) ==
    /\ SchedTypes(L)
    /\ OneContextPerTask
    /\ IsrNeverSpins
    /\ cpu = "up" => LockInv /\ BootInv /\ StartInv /\ StateInv

SchedInv ==
    /\ CoreInv(SchedPC)
    /\ NoTaskLost
    /\ QueueNeverUnderflows
    /\ cpu = "up" => ImmortalInv

LEMMA CoreInvInit ==
    ASSUME NEW L, SchedPC \subseteq L, SchedInit
    PROVE  CoreInv(L)
<1>1. SchedTypes(L)
  BY SchedAssumption DEF SchedInit, SchedTypes, Task, State, SchedPC, CpuState
<1> QED
  BY <1>1, SchedAssumption
  DEF SchedInit, CoreInv, OneContextPerTask, Places, IsrNeverSpins, LockInv,
      BootInv, StartInv, StateInv, InMainLoop, Masked, PrePush, SchedPC, Task

LEMMA SchedInvInit == SchedInit => SchedInv
<1> SUFFICES ASSUME SchedInit PROVE SchedInv
  OBVIOUS
<1>1. CoreInv(SchedPC)
  BY CoreInvInit
<1> QED
  BY <1>1, SchedAssumption
  DEF SchedInit, SchedInv, NoTaskLost, Started, Starting, Places,
      QueueNeverUnderflows, ImmortalInv, InMainLoop, PrePush, Task

\* The steps of the scheduler that are not a task switch.
PlainStep ==
    \/ \E w \in Workers : StartTask(w) \/ TerminateTask(w)
    \/ StCheck \/ StDiv \/ StCount \/ StCli \/ StLock \/ StPush
    \/ StUnlock \/ StSti \/ TeState \/ TeCount \/ MainLoop \/ MlCurrent
    \/ TeCheck /\ arg[current] # current

\* A step of the scheduler that is not a task switch keeps the invariant.
LEMMA PlainStepCore ==
    ASSUME NEW L, SchedPC \subseteq L, CoreInv(L), cpu = "up", SchedTypes(L)',
           PlainStep
    PROVE  CoreInv(L)'
<1> USE SchedAssumption
    DEF CoreInv, OneContextPerTask, Places, IsrNeverSpins, LockInv, BootInv,
        StartInv, StateInv, InMainLoop, Masked, PrePush, SchedPC, Task,
        SchedTypes, At, Goto
<1>1. ASSUME NEW w \in Workers, StartTask(w) PROVE CoreInv(L)'
  <2> USE <1>1 DEF StartTask, Create
  <2>1. \A t \in Task : ~(pc[t] \in PrePush /\ arg[t] = w)
    OBVIOUS
  <2>2. OneContextPerTask'
    BY <2>1
  <2>3. (LockInv /\ BootInv)'
    OBVIOUS
  <2>4. StartInv'
    BY <2>1
  <2>5. StateInv'
    BY <2>1
  <2> QED
    BY <2>2, <2>3, <2>4, <2>5
<1>2. ASSUME NEW w \in Workers, TerminateTask(w) PROVE CoreInv(L)'
  BY <1>2 DEF TerminateTask
<1>3. CASE StCheck
  BY <1>3 DEF StCheck
<1>4. CASE StDiv
  BY <1>4 DEF StDiv
<1>5. CASE StCount
  BY <1>5 DEF StCount
<1>6. CASE StCli
  BY <1>6 DEF StCli
<1>7. CASE StLock
  BY <1>7 DEF StLock
<1>8. CASE StPush
  BY <1>8 DEF StPush, PushEntry
<1>9. CASE StUnlock
  BY <1>9 DEF StUnlock
<1>10. CASE StSti
  BY <1>10 DEF StSti, StReturn
<1>11. CASE TeState
  BY <1>11 DEF TeState
<1>12. CASE TeCount
  BY <1>12 DEF TeCount
<1>13. CASE MlCurrent
  BY <1>13 DEF MlCurrent
<1>14. CASE MainLoop
  BY <1>14 DEF MainLoop, Create
<1>15. CASE TeCheck /\ arg[current] # current
  BY <1>15 DEF TeCheck
<1> QED
  BY <1>1, <1>2, <1>3, <1>4, <1>5, <1>6, <1>7, <1>8, <1>9, <1>10, <1>11,
     <1>12, <1>13, <1>14, <1>15 DEF PlainStep

\* ... and loses no task and no entry.
LEMMA PlainStepLive ==
    ASSUME SchedInv, cpu = "up", CoreInv(SchedPC)', PlainStep
    PROVE  (NoTaskLost /\ QueueNeverUnderflows /\ (cpu = "up" => ImmortalInv))'
<1> DEFINE Live == NoTaskLost /\ QueueNeverUnderflows /\ (cpu = "up" => ImmortalInv)
<1> USE SchedAssumption
    DEF SchedInv, CoreInv, OneContextPerTask, NoTaskLost, Started, Starting,
        Places, QueueNeverUnderflows, BootInv, StartInv,
        StateInv, ImmortalInv, InMainLoop, PrePush, Task, SchedTypes, At, Goto
<1>1. ASSUME NEW w \in Workers, StartTask(w) PROVE Live'
  <2> USE <1>1 DEF StartTask, Create
  <2>1. \A t \in Task : ~(pc[t] \in PrePush /\ arg[t] = w)
    OBVIOUS
  <2> QED
    BY <2>1
<1>2. ASSUME NEW w \in Workers, TerminateTask(w) PROVE Live'
  BY <1>2 DEF TerminateTask
<1>3. CASE StCheck
  BY <1>3 DEF StCheck
<1>4. CASE StDiv
  BY <1>4 DEF StDiv
<1>5. CASE StCount
  BY <1>5 DEF StCount
<1>6. CASE StCli
  BY <1>6 DEF StCli
<1>7. CASE StLock
  BY <1>7 DEF StLock
<1>8. CASE StPush
  BY <1>8 DEF StPush, PushEntry
<1>9. CASE StUnlock
  BY <1>9 DEF StUnlock
<1>10. CASE StSti
  BY <1>10 DEF StSti, StReturn
<1>11. CASE TeState
  BY <1>11 DEF TeState
<1>12. CASE TeCount
  BY <1>12 DEF TeCount
<1>13. CASE MlCurrent
  BY <1>13 DEF MlCurrent
<1>14. CASE MainLoop
  BY <1>14 DEF MainLoop, Create
<1>15. CASE TeCheck /\ arg[current] # current
  BY <1>15 DEF TeCheck
<1> QED
  BY <1>1, <1>2, <1>3, <1>4, <1>5, <1>6, <1>7, <1>8, <1>9, <1>10, <1>11,
     <1>12, <1>13, <1>14, <1>15 DEF PlainStep

\* What the pop loop does to the places of a task: the switch itself moves
\* entries about, only the thrown away ones are gone.
LEMMA DispatchPlaces ==
    ASSUME NEW L, SchedTypes(L), Dispatch(RequeuedState, PushEntry(heap, current))
    PROVE  \E d \in Dropped(RequeuedState, PushEntry(heap, current)) :
             /\ \A t \in Task : Places(t)' = Places(t) - d[t]
             /\ RequeuedState[current'] = "IN_QUEUE"
             /\ tstate' = [RequeuedState EXCEPT ![current'] = "RUNNING"]
             /\ current' \in Task
             /\ cpu' = cpu
<1> DEFINE ts == RequeuedState
           h  == PushEntry(heap, current)
<1>1. PICK n \in Task, d \in Dropped(ts, h) :
        /\ h[n] > 0
        /\ Dispatchable(ts, n)
        /\ heap' = [t \in Task |-> (h[t] - d[t]) - (IF t = n THEN 1 ELSE 0)]
        /\ tstate' = [ts EXCEPT ![n] = "RUNNING"]
        /\ current' = n
        /\ cpu' = cpu
  BY DEF Dispatch
<1>2. \A t \in Task : d[t] \in Nat
  BY DEF Dropped
<1>3. \A t \in Task : h[t] = heap[t] + (IF t = current THEN 1 ELSE 0)
  BY DEF PushEntry, SchedTypes
<1>4. \A t \in Task : Places(t)' = Places(t) - d[t]
  BY <1>1, <1>2, <1>3 DEF Places, SchedTypes
<1> QED
  BY <1>1, <1>4 DEF Dispatchable

\* What one task switch does, entered with interrupts enabled or by yield().
LEMMA TaskSwitchEffect ==
    ASSUME NEW L, CoreInv(L), cpu = "up", NEW l, TaskSwitch(l),
           pc[current] \notin Masked
    PROVE  LET ts == RequeuedState
               h  == PushEntry(heap, current)
           IN  /\ \A t \in Task :
                     ts[t] = IF t = current /\ tstate[t] = "RUNNING"
                             THEN "IN_QUEUE" ELSE tstate[t]
               /\ \A t \in Task : h[t] = Places(t)
               /\ \/ /\ \A t \in Task :
                           /\ Places(t)' \in Nat
                           /\ Places(t)' <= Places(t)
                           /\ ts[t] = "IN_QUEUE" => Places(t)' = Places(t)
                           /\ tstate'[t] = IF t = current' THEN "RUNNING" ELSE ts[t]
                     /\ ts[current'] = "IN_QUEUE"
                     /\ current' \in Task
                     /\ cpu' = "up"
                  \/ /\ \A t \in Task : Places(t) > 0 => ts[t] # "IN_QUEUE"
                     /\ tstate' = ts
                     /\ heap' = [t \in Task |-> 0]
                     /\ current' = current
                     /\ cpu' = "corrupt"
<1> DEFINE ts == RequeuedState
           h  == PushEntry(heap, current)
<1>1. queue_lock = 0
  BY DEF CoreInv, LockInv, Masked, SchedTypes
<1>2. \A t \in Task : ts[t] = IF t = current /\ tstate[t] = "RUNNING"
                              THEN "IN_QUEUE" ELSE tstate[t]
  BY DEF RequeuedState, CoreInv, SchedTypes
<1>3. \A t \in Task : h[t] = Places(t) /\ Places(t) \in Nat
  BY DEF PushEntry, Places, CoreInv, SchedTypes
<1>4. CASE Dispatch(ts, h)
  <2> HIDE DEF ts, h
  <2>1. PICK d \in Dropped(ts, h) :
             /\ \A t \in Task : Places(t)' = Places(t) - d[t]
             /\ ts[current'] = "IN_QUEUE"
             /\ tstate' = [ts EXCEPT ![current'] = "RUNNING"]
             /\ current' \in Task
             /\ cpu' = cpu
    BY <1>4, DispatchPlaces DEF ts, h, CoreInv
  <2>2. \A t \in Task : /\ d[t] \in Nat
                        /\ d[t] <= Places(t)
                        /\ ts[t] = "IN_QUEUE" => d[t] = 0
    BY <1>3 DEF Dropped, Dispatchable
  <2>3. \A t \in Task : tstate'[t] = IF t = current' THEN "RUNNING" ELSE ts[t]
    BY <2>1 DEF ts, RequeuedState, CoreInv, SchedTypes
  <2>4. \A t \in Task : /\ Places(t)' \in Nat
                        /\ Places(t)' <= Places(t)
                        /\ ts[t] = "IN_QUEUE" => Places(t)' = Places(t)
    BY <1>3, <2>1, <2>2
  <2> QED
    BY <1>2, <1>3, <2>1, <2>3, <2>4 DEF ts, h
<1>5. CASE Underflow(ts, h)
  <2> HIDE DEF ts, h
  <2>1. \A t \in Task : Places(t) > 0 => ts[t] # "IN_QUEUE"
    BY <1>3, <1>5 DEF Underflow, Dispatchable
  <2> QED
    BY <1>2, <1>3, <1>5, <2>1 DEF Underflow, ts, h
<1> QED
  BY <1>1, <1>4, <1>5 DEF TaskSwitch

\* Where a task switch may be taken, and where its context resumes: where it
\* was, somewhere outside the scheduler, or never.
Switches(l) ==
    /\ pc[current] \notin Masked
    /\ \/ l = pc[current] /\ current # BootTask
       \/ {l, pc[current]} \cap SchedPC = {} /\ current # BootTask
       \/ /\ pc[current] = "te_check"
          /\ arg[current] = current
          /\ l = "te_unreachable"

\* A task switch keeps the invariant, if interrupts could happen where it was
\* taken and a context that does not want to come back is TERMINATED.
LEMMA TaskSwitchCore ==
    ASSUME NEW L, SchedPC \subseteq L, CoreInv(L), cpu = "up", SchedTypes(L)',
           NEW l, TaskSwitch(l), Switches(l)
    PROVE  /\ CoreInv(L)'
           /\ \A t \in Task : Starting(t)' <=> Starting(t)
<1> DEFINE ts == RequeuedState
           h  == PushEntry(heap, current)
<1>1. PrePush \subseteq SchedPC /\ Masked \subseteq SchedPC
  BY DEF PrePush, Masked, SchedPC
<1>2. \A t \in Task : /\ pc'[t] = IF t = current THEN l ELSE pc[t]
                      /\ pc'[t] \in PrePush <=> pc[t] \in PrePush
                      /\ pc'[t] \in Masked <=> pc[t] \in Masked
  BY <1>1 DEF TaskSwitch, Goto, CoreInv, SchedTypes, PrePush, Masked, Switches
<1>3. \A t \in Task : Starting(t)' <=> Starting(t)
  BY <1>2 DEF Starting, TaskSwitch
<1>4. CASE cpu' = "up"
  <2>1. \A t \in Task : ts[t] = IF t = current /\ tstate[t] = "RUNNING"
                                THEN "IN_QUEUE" ELSE tstate[t]
    BY TaskSwitchEffect DEF Switches
  <2>2. /\ \A t \in Task :
               /\ Places(t)' \in Nat
               /\ Places(t)' <= Places(t)
               /\ ts[t] = "IN_QUEUE" => Places(t)' = Places(t)
               /\ tstate'[t] = IF t = current' THEN "RUNNING" ELSE ts[t]
        /\ ts[current'] = "IN_QUEUE"
        /\ current' \in Task
    BY <1>4, TaskSwitchEffect DEF Switches
  <2> HIDE DEF ts, h
  <2> USE <1>2, <1>4, <2>1, <2>2, SchedAssumption DEF SchedTypes, Task
  <2>4. OneContextPerTask'
    BY DEF CoreInv, OneContextPerTask, Places
  <2>6. LockInv'
    BY DEF CoreInv, LockInv, Masked, TaskSwitch, Switches
  <2>7. BootInv'
    BY DEF CoreInv, BootInv, TaskSwitch, StateInv, Places, InMainLoop,
           PrePush, SchedPC, Switches
  <2>8. StartInv'
    BY DEF CoreInv, StartInv, TaskSwitch, Places, Switches
  <2>9. StateInv'
    BY DEF CoreInv, StateInv, TaskSwitch, Switches, SchedPC
  <2> QED
    BY <1>3, <2>4, <2>6, <2>7, <2>8, <2>9 DEF CoreInv, IsrNeverSpins
<1>5. CASE cpu' = "corrupt"
  <2>1. heap' = [t \in Task |-> 0] /\ current' = current
    BY <1>5, TaskSwitchEffect DEF Switches
  <2> QED
    BY <1>3, <1>5, <2>1
    DEF CoreInv, OneContextPerTask, Places, IsrNeverSpins, SchedTypes
<1> QED
  BY <1>4, <1>5, TaskSwitchEffect DEF Switches

\* ... and loses no live task.
LEMMA TaskSwitchLive ==
    ASSUME SchedInv, cpu = "up", CoreInv(SchedPC)', NEW l, TaskSwitch(l),
           Switches(l)
    PROVE  (NoTaskLost /\ QueueNeverUnderflows /\ (cpu = "up" => ImmortalInv))'
<1> DEFINE ts == RequeuedState
           h  == PushEntry(heap, current)
<1>1. CoreInv(SchedPC) /\ SchedPC \subseteq SchedPC /\ SchedTypes(SchedPC)'
  BY DEF SchedInv, CoreInv
<1>2. \A t \in Task : Starting(t)' <=> Starting(t)
  BY <1>1, TaskSwitchCore
<1>3. \A t \in Task : ts[t] = IF t = current /\ tstate[t] = "RUNNING"
                              THEN "IN_QUEUE" ELSE tstate[t]
  BY <1>1, TaskSwitchEffect DEF Switches
<1>4. CASE cpu' = "up"
  <2>1. /\ \A t \in Task :
               /\ Places(t)' \in Nat
               /\ Places(t)' <= Places(t)
               /\ ts[t] = "IN_QUEUE" => Places(t)' = Places(t)
               /\ tstate'[t] = IF t = current' THEN "RUNNING" ELSE ts[t]
        /\ ts[current'] = "IN_QUEUE"
        /\ current' \in Task
    BY <1>1, <1>4, TaskSwitchEffect DEF Switches
  <2> HIDE DEF ts, h
  <2> USE <1>2, <1>3, <1>4, <2>1, SchedAssumption DEF SchedTypes, Task
  <2>2. NoTaskLost'
    BY DEF SchedInv, CoreInv, NoTaskLost, Started, StateInv
  <2>3. ImmortalInv'
    BY DEF SchedInv, CoreInv, ImmortalInv, TaskSwitch, Goto, InMainLoop,
           Started, StateInv, BootInv, Switches
  <2> QED
    BY <2>2, <2>3 DEF QueueNeverUnderflows
<1>5. CASE cpu' = "corrupt"
  <2>1. Immortal = {}
    <3> SUFFICES ASSUME NEW i \in Immortal PROVE FALSE
      OBVIOUS
    <3>1. i \in Task
      BY SchedAssumption DEF Task
    <3>2. InMainLoop
      BY DEF InMainLoop, SchedInv, CoreInv, BootInv, StateInv, SchedTypes, Switches
    <3>3. Places(i) = 1 /\ tstate[i] \in {"RUNNING", "IN_QUEUE"}
      BY <3>2, SchedAssumption DEF SchedInv, ImmortalInv, Started, NoTaskLost
    <3>4. ts[i] = "IN_QUEUE"
      BY <1>3, <3>1, <3>3 DEF SchedInv, CoreInv, StateInv
    <3>5. \A t \in Task : Places(t) > 0 => ts[t] # "IN_QUEUE"
      BY <1>1, <1>5, TaskSwitchEffect DEF Switches
    <3> QED
      BY <3>1, <3>3, <3>4, <3>5
  <2> QED
    BY <1>5, <2>1 DEF NoTaskLost, QueueNeverUnderflows
<1> QED
  BY <1>1, <1>4, <1>5, TaskSwitchEffect DEF Switches

\* Every step of the scheduler is a task switch, a plain step, or nothing.
LEMMA SchedSteps ==
    ASSUME NEW L, CoreInv(L), [SchedNext]_schedVars
    PROVE  \/ cpu = "up" /\ \E l : TaskSwitch(l) /\ Switches(l)
           \/ cpu = "up" /\ PlainStep
           \/ UNCHANGED schedVars
<1>1. CASE TimerFires
  <2>1. pc[current] \notin Masked /\ current # BootTask
    BY <1>1 DEF TimerFires, CoreInv, LockInv, BootInv, SchedTypes
  <2> QED
    BY <1>1, <2>1 DEF TimerFires, Switches
<1>2. CASE Yield
  <2>1. pc[current] \notin Masked /\ current # BootTask
    BY <1>2 DEF Yield, At, Masked, CoreInv, BootInv
  <2> QED
    BY <1>2, <2>1 DEF Yield, At, Switches
<1>3. CASE TeCheck
  <2>1. pc[current] \notin Masked
    BY <1>3 DEF TeCheck, At, Masked
  <2>2. CASE arg[current] = current
    BY <1>3, <2>1, <2>2 DEF TeCheck, At, Switches
  <2>3. CASE arg[current] # current
    BY <1>3, <2>3 DEF PlainStep, TeCheck, At
  <2> QED
    BY <2>2, <2>3
<1>4. CASE \/ \E w \in Workers : StartTask(w) \/ TerminateTask(w)
           \/ StCheck \/ StDiv \/ StCount \/ StCli \/ StLock \/ StPush
           \/ StUnlock \/ StSti \/ TeState \/ TeCount \/ MainLoop \/ MlCurrent
  <2>1. cpu = "up"
    BY <1>4 DEF StartTask, TerminateTask, StCheck, StDiv, StCount, StCli,
                StLock, StPush, StUnlock, StSti, TeState, TeCount, MainLoop,
                MlCurrent, At
  <2> QED
    BY <1>4, <2>1 DEF PlainStep
<1> QED
  BY <1>1, <1>2, <1>3, <1>4 DEF SchedNext

\* Nothing changes when the scheduler's variables do not.
LEMMA CoreStutters ==
    ASSUME NEW L, CoreInv(L), UNCHANGED schedVars
    PROVE  CoreInv(L)'
BY DEF schedVars, CoreInv, SchedTypes, OneContextPerTask, Places,
       IsrNeverSpins, LockInv, BootInv, StartInv, StateInv, InMainLoop

\* Every step of the scheduler keeps its core invariant.
LEMMA CoreInvStep ==
    ASSUME NEW L, SchedPC \subseteq L, CoreInv(L), [SchedNext]_schedVars
    PROVE  CoreInv(L)'
<1>1. SchedTypes(L)'
  BY SchedTypesStep DEF CoreInv
<1> QED
  BY <1>1, SchedSteps, TaskSwitchCore, PlainStepCore, CoreStutters

\* Every step keeps the invariant.
LEMMA SchedInvStep == SchedInv /\ [SchedNext]_schedVars => SchedInv'
<1> SUFFICES ASSUME SchedInv, [SchedNext]_schedVars PROVE SchedInv'
  OBVIOUS
<1>1. CoreInv(SchedPC) /\ CoreInv(SchedPC)'
  BY CoreInvStep DEF SchedInv
<1>2. CASE cpu = "up" /\ \E l : TaskSwitch(l) /\ Switches(l)
  BY <1>1, <1>2, TaskSwitchLive DEF SchedInv
<1>3. CASE cpu = "up" /\ PlainStep
  BY <1>1, <1>3, PlainStepLive DEF SchedInv
<1>4. CASE UNCHANGED schedVars
  BY <1>1, <1>4 DEF schedVars, SchedInv, NoTaskLost, Started, Starting, Places,
                    QueueNeverUnderflows, ImmortalInv, InMainLoop
<1> QED
  BY <1>1, <1>2, <1>3, <1>4, SchedSteps

-----------------------------------------------------------------------------
(***************************************************************************)
(* The counter num_tasks, while tasks only terminate themselves            *)
(***************************************************************************)

\* The labels of terminate_task.
Terminating == {"te_state", "te_count", "te_check", "te_unreachable"}

\* The tasks num_tasks counts: those past the increment of start_task that have
\* not executed the decrement of terminate_task.  A task that is preempted
\* between its state change and the decrement stays in for ever.
Booked ==
    {t \in Task :
        /\ tstate[t] # "UNBORN"
        /\ \A c \in Task :
              arg[c] = t => pc[c] \notin {"st_check", "st_div", "st_count"}
        /\ pc[t] \notin {"te_check", "te_unreachable"}}

\* A context is in the code it began to execute: a task that was never
\* dispatched is at its start, and terminate_task is called by its own task.
SelfInv ==
    /\ \A t \in Task : pc[t] \in Terminating => arg[t] = t
    /\ \A w \in Workers : tstate[w] = "UNBORN" \/ Starting(w) => pc[w] = "run"
    /\ tstate[BootTask] = "UNBORN" <=> ~InMainLoop

\* The counter is exact; the boot thread, which no task in Booked stands for,
\* cannot lose the answer of its test of num_tasks.
CountInv ==
    ~KillOthers =>
        /\ cpu # "divide_error"
        /\ cpu = "up" =>
             /\ SelfInv
             /\ num_tasks = Cardinality(Booked)
             /\ pc[BootTask] = "st_div" => num_tasks # 0

\* The tasks are finitely many, and fit the counter.
LEMMA TasksFinite ==
    ASSUME NEW B, B \subseteq Task
    PROVE  /\ IsFiniteSet(B)
           /\ Cardinality(B) \in Nat
           /\ Cardinality(B) < NumTasksMod
<1>1. IsFiniteSet(Task) /\ Cardinality(Task) \in Nat
  BY TaskCountAssumption, FS_AddElement, FS_CardinalityType DEF Task
<1>2. IsFiniteSet(B) /\ Cardinality(B) <= Cardinality(Task)
  BY <1>1, FS_Subset
<1> QED
  BY <1>1, <1>2, FS_CardinalityType, TaskCountAssumption, SchedAssumption

\* ... and so are the counted ones.
LEMMA BookedFinite ==
    /\ IsFiniteSet(Booked)
    /\ Cardinality(Booked) \in Nat
    /\ Cardinality(Booked) < NumTasksMod
BY TasksFinite DEF Booked

LEMMA CountInvInit == SchedInit => CountInv
<1> SUFFICES ASSUME SchedInit PROVE CountInv
  OBVIOUS
<1>1. Booked = {}
  BY DEF SchedInit, Booked
<1>2. num_tasks = Cardinality(Booked)
  BY <1>1, FS_EmptySet DEF SchedInit
<1> QED
  BY <1>2, SchedAssumption
  DEF SchedInit, CountInv, SelfInv, InMainLoop, Terminating, Starting, PrePush,
      Task

\* A context that is not the boot thread and runs at a label of start_task is
\* itself counted, so that num_tasks cannot be zero.
LEMMA RunnerIsBooked ==
    ASSUME NEW L, CoreInv(L), cpu = "up", SelfInv, current \in Workers,
           num_tasks = Cardinality(Booked),
           pc[current] \notin {"te_check", "te_unreachable"}
    PROVE  num_tasks # 0
<1>1. Places(current) > 0
  BY DEF Places, CoreInv, SchedTypes
<1>2. tstate[current] # "UNBORN" /\ ~Starting(current)
  BY <1>1 DEF CoreInv, StartInv, Starting, SchedTypes
<1>3. current \in Booked
  BY <1>2 DEF Booked, Starting, PrePush, Task
<1> QED
  BY <1>3, BookedFinite, FS_EmptySet

\* A plain step of the scheduler keeps the counter exact.
LEMMA PlainStepCount ==
    ASSUME NEW L, SchedPC \subseteq L, CoreInv(L), cpu = "up", CountInv,
           CoreInv(L)', PlainStep, ~KillOthers
    PROVE  CountInv'
<1>0. SelfInv /\ num_tasks = Cardinality(Booked) /\ cpu # "divide_error"
      /\ (pc[BootTask] = "st_div" => num_tasks # 0)
  BY DEF CountInv
<1>1. current \in Task /\ Task = Workers \cup {BootTask} /\ BootTask \notin Workers
  BY SchedAssumption DEF CoreInv, SchedTypes, Task
<1>2. Places(current) > 0
  BY DEF Places, CoreInv, SchedTypes
<1>3. \A w \in Workers : tstate[w] = "UNBORN" \/ Starting(w) => w # current
  BY <1>2 DEF CoreInv, StartInv, Starting, SchedTypes, Task
<1>4. SelfInv'
  <2> USE <1>0, <1>1, <1>3
      DEF SelfInv, InMainLoop, Terminating, Starting, PrePush, At, Goto,
          CoreInv, SchedTypes, BootInv, StartInv
  <2>1. ASSUME NEW w \in Workers, StartTask(w) PROVE SelfInv'
    BY <2>1 DEF StartTask, Create
  <2>2. ASSUME NEW w \in Workers, TerminateTask(w) PROVE SelfInv'
    BY <2>2 DEF TerminateTask
  <2>3. CASE StCheck \/ StDiv \/ StCount \/ StCli
    BY <2>3 DEF StCheck, StDiv, StCount, StCli
  <2>4. CASE StLock \/ StPush \/ StUnlock \/ StSti
    BY <2>4 DEF StLock, StPush, StUnlock, StSti, StReturn
  <2>5. CASE TeState \/ TeCount
    BY <2>5 DEF TeState, TeCount
  <2>6. CASE MainLoop
    BY <2>6 DEF MainLoop, Create
  <2>7. CASE MlCurrent
    BY <2>7 DEF MlCurrent
  <2>8. CASE TeCheck /\ arg[current] # current
    BY <2>8 DEF TeCheck
  <2> QED
    BY <2>1, <2>2, <2>3, <2>4, <2>5, <2>6, <2>7, <2>8 DEF PlainStep
<1>5. CASE StCount
  <2> DEFINE t == arg[current]
  <2>1. t \in Task /\ t \notin Booked
    BY <1>1, <1>5 DEF StCount, At, Booked, CoreInv, SchedTypes
  <2>2. Booked' = Booked \cup {t}
    <3>1. tstate[t] # "UNBORN"
      BY <1>0, <1>1, <1>5 DEF StCount, At, CoreInv, StartInv, SelfInv, PrePush,
            InMainLoop, BootInv, SchedTypes, SchedPC
    <3>2. pc'[t] \notin {"te_check", "te_unreachable"}
      BY <1>0, <1>1, <1>5 DEF StCount, At, Goto, CoreInv, SelfInv, PrePush,
            Starting, BootInv, SchedTypes, SchedPC
    <3>3. \A c \in Task : arg[c] = t /\ c # current =>
              pc[c] \notin {"st_check", "st_div", "st_count"}
      BY <1>1, <1>5 DEF StCount, At, CoreInv, StartInv, PrePush
    <3> QED
      BY <1>1, <1>5, <2>1, <3>1, <3>2, <3>3
      DEF StCount, At, Goto, Booked, CoreInv, SchedTypes
  <2>3. Cardinality(Booked') = num_tasks + 1
    BY <1>0, <2>1, <2>2, BookedFinite, FS_AddElement
  <2>4. Cardinality(Booked)' < NumTasksMod
    BY TasksFinite DEF Booked
  <2>5. num_tasks' = Cardinality(Booked)'
    BY <1>0, <1>5, <2>3, <2>4, SchedAssumption, BookedFinite DEF StCount
  <2>6. pc'[BootTask] # "st_div"
    BY <1>1, <1>5 DEF StCount, At, Goto, CoreInv, BootInv, SchedTypes
  <2> QED
    BY <1>0, <1>4, <1>5, <2>5, <2>6 DEF CountInv, StCount
<1>6. CASE TeCount
  <2>1. arg[current] = current /\ pc[current] = "te_count" /\ pc'[current] = "te_check"
    BY <1>0, <1>1, <1>6 DEF TeCount, At, Goto, SelfInv, Terminating, CoreInv, SchedTypes
  <2>2. current \in Booked
    BY <1>0, <1>1, <1>2, <2>1 DEF Booked, CoreInv, StartInv, PrePush, SelfInv,
          InMainLoop, SchedTypes, BootInv
  <2>3. Booked' = Booked \ {current}
    BY <1>1, <1>6, <2>1 DEF TeCount, At, Goto, Booked, CoreInv, SchedTypes
  <2>4. Cardinality(Booked') = num_tasks - 1
    BY <1>0, <2>2, <2>3, BookedFinite, FS_RemoveElement
  <2>5. num_tasks \in Nat /\ num_tasks > 0 /\ num_tasks < NumTasksMod
    BY <1>0, <2>2, BookedFinite, FS_EmptySet
  <2>6. num_tasks' = num_tasks - 1
    BY <1>6, <2>5, SchedAssumption DEF TeCount
  <2>7. pc'[BootTask] # "st_div"
    BY <1>1, <1>6 DEF TeCount, At, Goto, CoreInv, BootInv, SchedTypes
  <2> QED
    BY <1>0, <1>4, <1>6, <2>4, <2>6, <2>7 DEF CountInv, TeCount
<1>7. CASE StDiv
  <2>1. num_tasks # 0
    <3>1. CASE current = BootTask
      BY <1>0, <1>7, <3>1 DEF StDiv, At
    <3>2. CASE current \in Workers
      BY <1>0, <1>7, <3>2, RunnerIsBooked DEF StDiv, At
    <3> QED
      BY <1>1, <3>1, <3>2
  <2>2. Booked' = Booked
    BY <1>1, <1>7 DEF StDiv, At, Goto, Booked, CoreInv, SchedTypes
  <2> QED
    BY <1>0, <1>1, <1>4, <1>7, <2>1, <2>2 DEF StDiv, CountInv, Goto, CoreInv, SchedTypes
<1>8. CASE PlainStep /\ ~StCount /\ ~TeCount /\ ~StDiv
  <2>1. num_tasks' = num_tasks /\ cpu' = cpu
    BY <1>8 DEF PlainStep, StartTask, Create, TerminateTask, StCheck, StCli,
          StLock, StPush, StUnlock, StSti, TeState, MainLoop, MlCurrent, TeCheck
  <2>2. pc'[BootTask] = "st_div" => num_tasks # 0
    <3>1. pc'[BootTask] = "st_div" => pc[BootTask] = "st_div" \/ StCheck
      BY <1>1, <1>8, ZenonT(30) DEF PlainStep, StartTask, Create, TerminateTask, StCheck, StCli,
          StLock, StPush, StUnlock, StSti, StReturn, TeState, MainLoop,
          MlCurrent, TeCheck, At, Goto, CoreInv, SchedTypes
    <3>2. StCheck /\ pc'[BootTask] = "st_div" /\ pc[BootTask] # "st_div" => num_tasks # 0
      BY <1>1 DEF StCheck, At, Goto, CoreInv, SchedTypes
    <3> QED
      BY <1>0, <3>1, <3>2
  <2>3. Booked' = Booked
    <3> USE <1>0, <1>1, <1>3
        DEF At, Goto, Booked, CoreInv, SchedTypes
    <3>1. ASSUME NEW w \in Workers, StartTask(w) PROVE Booked' = Booked
      BY <3>1 DEF StartTask, Create
    <3>2. ASSUME NEW w \in Workers, TerminateTask(w) PROVE Booked' = Booked
      BY <3>2 DEF TerminateTask
    <3>3. CASE StCheck \/ StCli
      BY <3>3 DEF StCheck, StCli
    <3>4. CASE StLock \/ StPush \/ StUnlock \/ StSti
      BY <3>4 DEF StLock, StPush, StUnlock, StSti, StReturn
    <3>5. CASE TeState
      <4>1. arg[current] = current /\ tstate[current] # "UNBORN"
        BY <3>5, <1>2 DEF TeState, SelfInv, Terminating, StartInv, InMainLoop
      <4> QED
        BY <3>5, <4>1 DEF TeState
    <3>6. CASE MainLoop
      <4>1. tstate[BootTask] = "UNBORN" /\ current = BootTask
        BY <3>6 DEF MainLoop, SelfInv, InMainLoop, BootInv
      <4> QED
        BY <3>6, <4>1 DEF MainLoop, Create
    <3>7. CASE MlCurrent
      BY <3>7 DEF MlCurrent
    <3>8. CASE TeCheck /\ arg[current] # current
      BY <3>8 DEF TeCheck, SelfInv, Terminating
    <3> QED
      BY <1>8, <3>1, <3>2, <3>3, <3>4, <3>5, <3>6, <3>7, <3>8 DEF PlainStep
  <2> QED
    BY <1>0, <1>4, <2>1, <2>2, <2>3 DEF CountInv
<1> QED
  BY <1>5, <1>6, <1>7, <1>8

\* A task switch does not change what num_tasks counts.
LEMMA TaskSwitchCount ==
    ASSUME NEW L, SchedPC \subseteq L, CoreInv(L), cpu = "up", CountInv,
           CoreInv(L)', NEW l, TaskSwitch(l), Switches(l), ~KillOthers
    PROVE  CountInv'
<1>0. SelfInv /\ num_tasks = Cardinality(Booked)
      /\ (pc[BootTask] = "st_div" => num_tasks # 0)
  BY DEF CountInv
<1>1. current \in Task /\ Task = Workers \cup {BootTask} /\ BootTask \notin Workers
  BY SchedAssumption DEF CoreInv, SchedTypes, Task
<1>2. \A t \in Task : Starting(t)' <=> Starting(t)
  BY TaskSwitchCore DEF CoreInv
<1>3. cpu' \in {"up", "corrupt"} /\ \A t \in Task :
        tstate'[t] = "UNBORN" <=> tstate[t] = "UNBORN"
  BY TaskSwitchEffect DEF Switches
<1>4. /\ \A t \in Task : pc'[t] = IF t = current THEN l ELSE pc[t]
      /\ arg' = arg /\ num_tasks' = num_tasks
  BY DEF TaskSwitch, Goto, CoreInv, SchedTypes
<1>5. Places(current) > 0
  BY DEF Places, CoreInv, SchedTypes
<1>6. \A w \in Workers : tstate[w] = "UNBORN" \/ Starting(w) => w # current
  BY <1>5 DEF CoreInv, StartInv, Starting, SchedTypes, Task
<1>7. SelfInv'
  BY <1>0, <1>1, <1>2, <1>3, <1>4, <1>6
  DEF SelfInv, InMainLoop, Terminating, Switches, SchedPC
<1>8. Booked' = Booked
  BY <1>1, <1>3, <1>4, ZenonT(30) DEF Booked, Switches, SchedPC, PrePush
<1> QED
  BY <1>0, <1>1, <1>3, <1>4, <1>7, <1>8 DEF CountInv, Switches, SchedPC, PrePush

\* Every step of the scheduler keeps the counter exact.
LEMMA CountInvStep ==
    ASSUME NEW L, SchedPC \subseteq L, CoreInv(L), CountInv, CoreInv(L)',
           [SchedNext]_schedVars
    PROVE  CountInv'
<1>1. CASE UNCHANGED schedVars
  <2>1. Booked' = Booked
    BY <1>1 DEF schedVars, Booked
  <2> QED
    BY <1>1, <2>1 DEF schedVars, CountInv, SelfInv, InMainLoop, Starting
<1>2. CASE KillOthers
  BY <1>2 DEF CountInv
<1> QED
  BY <1>1, <1>2, SchedSteps, PlainStepCount, TaskSwitchCount

\* An exact counter covers the live tasks.
LEMMA CountCoversLive ==
    ASSUME NEW L, CoreInv(L), CountInv
    PROVE  NumTasksCoversLive /\ NoDivideError
<1> SUFFICES ASSUME ~KillOthers, cpu = "up" PROVE num_tasks >= Cardinality(Counted)
  BY DEF NumTasksCoversLive, NoDivideError, CountInv
<1>1. Counted \subseteq Booked
  BY DEF Counted, Booked, CountInv, SelfInv, Terminating, CoreInv, StateInv
<1>2. Cardinality(Counted) <= Cardinality(Booked) /\ Cardinality(Counted) \in Nat
  BY <1>1, BookedFinite, FS_Subset, FS_CardinalityType
<1> QED
  BY <1>2, BookedFinite DEF CountInv
-----------------------------------------------------------------------------
(***************************************************************************)
(* What the scheduler guarantees                                           *)
(***************************************************************************)

\* SchedInv holds in every state the scheduler can reach.
THEOREM SchedInvariant == SchedSpec => []SchedInv
BY SchedInvInit, SchedInvStep, PTL DEF SchedSpec

\* task_switch_isr cannot resume one saved context twice.
THEOREM SchedOneContext == SchedSpec => []OneContextPerTask
<1>1. SchedInv => OneContextPerTask
  BY DEF SchedInv, CoreInv
<1> QED
  BY <1>1, SchedInvariant, PTL

\* The pop loop never throws a live task away.
THEOREM SchedLosesNoTask == SchedSpec => []NoTaskLost
<1>1. SchedInv => NoTaskLost
  BY DEF SchedInv, CoreInv
<1> QED
  BY <1>1, SchedInvariant, PTL

\* The timer never finds queue_lock taken.
THEOREM SchedIsrNeverSpins == SchedSpec => []IsrNeverSpins
<1>1. SchedInv => IsrNeverSpins
  BY DEF SchedInv, CoreInv
<1> QED
  BY <1>1, SchedInvariant, PTL

\* With a task that never ends, heap_pop never sees an empty queue.
THEOREM SchedQueueNeverUnderflows == SchedSpec => []QueueNeverUnderflows
<1>1. SchedInv => QueueNeverUnderflows
  BY DEF SchedInv, CoreInv
<1> QED
  BY <1>1, SchedInvariant, PTL

\* The code after yield() in terminate_task is never reached.
THEOREM SchedTerminateNeverReturns == SchedSpec => []TerminateNeverReturns
<1>1. SchedInv => TerminateNeverReturns
  BY DEF SchedInv, CoreInv, StateInv, TerminateNeverReturns, SchedTypes
<1> QED
  BY <1>1, SchedInvariant, PTL

\* A task that some context is about to push waits as start_task made it, and
\* nobody is about to terminate it.
KillInv ==
    /\ InMainLoop <=> tstate[BootTask] # "UNBORN"
    /\ \A c \in Task : pc[c] \in PrePush => tstate[arg[c]] = "IN_QUEUE"
    /\ \A c \in Task : pc[c] = "te_state" =>
          tstate[arg[c]] # "UNBORN" /\ ~Starting(arg[c])

\* A task switch keeps KillInv: it dispatches only a task that was pushed.
LEMMA SwitchKeepsKill ==
    ASSUME SchedInv, KillInv, cpu = "up", NEW l, TaskSwitch(l), Switches(l)
    PROVE  cpu' = "up" => KillInv'
<1> SUFFICES ASSUME cpu' = "up" PROVE KillInv'
  OBVIOUS
<1> USE DEF SchedInv, CoreInv, SchedTypes
<1>1. /\ arg' = arg /\ pc' = [pc EXCEPT ![current] = l]
      /\ \A t \in Task :
           /\ Places(t)' \in Nat
           /\ Places(t)' <= Places(t)
           /\ tstate'[t] = IF t = current' THEN "RUNNING"
                           ELSE IF t = current /\ tstate[t] = "RUNNING"
                                  THEN "IN_QUEUE" ELSE tstate[t]
      /\ current' \in Task
  BY TaskSwitchEffect DEF Switches, TaskSwitch, Goto
<1>2. PICK n \in Task : n = current' /\ Places(n) > 0
  <2>1. PICK n \in Task : n = current'
    BY <1>1
  <2>2. l \in SchedPC
    BY DEF Switches, SchedPC
  <2>3. SchedTypes(SchedPC)'
    BY <2>2, TaskSwitchType
  <2>4. Places(n)' >= 1
    BY <2>1, <2>3 DEF Places
  <2>5. Places(n) \in Nat
    BY DEF Places
  <2> QED
    BY <1>1, <2>1, <2>4, <2>5
<1>3. \A c \in Task : pc'[c] \in PrePush \/ pc'[c] = "te_state" => pc'[c] = pc[c]
  BY <1>1 DEF Switches, SchedPC, PrePush
<1>4. \A c \in Task : pc[c] \in PrePush => arg[c] # n
  BY <1>2, SchedAssumption DEF StartInv, BootInv, Switches, Task, PrePush, SchedPC
<1>5. \A t \in Task : Starting(t)' => Starting(t)
  BY <1>1, <1>3 DEF Starting
<1> QED
  <2>1. \A c, t \in Task : pc'[c] = "te_state" /\ t = arg'[c] =>
          tstate'[t] # "UNBORN" /\ ~Starting(t)'
    BY <1>1, <1>2, <1>3, <1>5 DEF KillInv
  <2>2. \A c \in Task : pc'[c] \in PrePush => tstate'[arg'[c]] = "IN_QUEUE"
    BY <1>1, <1>2, <1>3, <1>4 DEF KillInv
  <2>3. InMainLoop' <=> InMainLoop
    BY <1>1 DEF InMainLoop, Switches, BootInv, Task, SchedPC
  <2>4. tstate'[BootTask] # "UNBORN" <=> tstate[BootTask] # "UNBORN"
    <3>1. tstate[BootTask] = "UNBORN" => n # BootTask
      BY <1>2, <2>3 DEF KillInv, InMainLoop, BootInv, Places, Switches, Task
    <3> QED
      BY <1>1, <1>2, <3>1 DEF Task
  <2> QED
    BY <1>1, <2>1, <2>2, <2>3, <2>4 DEF KillInv

\* The other steps of the scheduler keep it too.
LEMMA PlainKeepsKill ==
    ASSUME SchedInv, KillInv, cpu = "up", PlainStep
    PROVE  KillInv'
<1> USE DEF At, Goto, KillInv, Starting, PrePush, InMainLoop
<1>0. /\ tstate \in [Task -> State] /\ pc \in [Task -> SchedPC]
      /\ arg \in [Task -> Task] /\ current \in Task
      /\ BootInv
  BY DEF SchedInv, CoreInv, SchedTypes
<1>1. ASSUME NEW w \in Task, Create(w), tstate[w] = "UNBORN",
             pc[current] \in {"run", "boot"}, w = BootTask => current = BootTask
      PROVE  KillInv'
  <2>1. \A c \in Task : pc'[c] \in PrePush =>
          c = current \/ (arg'[c] = arg[c] /\ pc[c] \in PrePush)
    BY <1>0, <1>1 DEF Create
  <2>2. \A c \in Task : pc[c] \in PrePush => arg[c] # w
    BY <1>1
  <2>3. \A c \in Task : pc'[c] \in PrePush => tstate'[arg'[c]] = "IN_QUEUE"
    BY <1>0, <1>1, <2>1, <2>2 DEF Create
  <2>4. \A c, t \in Task : pc'[c] = "te_state" /\ t = arg'[c] =>
          tstate'[t] # "UNBORN" /\ ~Starting(t)'
    BY <1>0, <1>1, <2>1, <2>2 DEF Create
  <2>5. InMainLoop' <=> tstate'[BootTask] # "UNBORN"
    BY <1>0, <1>1 DEF Create, Task, BootInv
  <2>6. arg' \in [Task -> Task]
    BY <1>0, <1>1 DEF Create
  <2> QED
    BY <2>3, <2>4, <2>5, <2>6
<1>2. ASSUME NEW w \in Workers, StartTask(w) PROVE KillInv'
  BY <1>0, <1>1, <1>2, SchedAssumption DEF StartTask, Task
<1>3. CASE MainLoop
  BY <1>0, <1>1, <1>3, SchedAssumption DEF MainLoop, Task, BootInv
<1>4. ASSUME NEW w \in Workers, TerminateTask(w) PROVE KillInv'
  <2>1. tstate[w] # "UNBORN" /\ ~Starting(w)
    BY <1>4 DEF TerminateTask, Started, StartInv, Places, Task, SchedInv,
                CoreInv, SchedTypes
  <2>2. current # BootTask
    BY <1>0, <1>4 DEF TerminateTask, BootInv
  <2> QED
    BY <1>0, <1>4, <2>1, <2>2 DEF TerminateTask, Task
<1>5. CASE MlCurrent
  <2>1. current = BootTask /\ arg[BootTask] = BootTask
    BY <1>0, <1>5 DEF MlCurrent, BootInv, Task
  <2>2. tstate[BootTask] # "UNBORN" /\ ~Starting(BootTask)
    <3> SUFFICES tstate[BootTask] # "UNBORN"
      BY <1>0, <1>5, <2>1, SchedAssumption DEF MlCurrent, BootInv, Task, SchedPC
    <3> QED
      BY <2>1, <1>5 DEF MlCurrent
  <2> QED
    BY <1>0, <1>5, <2>1, <2>2 DEF MlCurrent
<1>6. CASE TeState
  BY <1>0, <1>6 DEF TeState, BootInv
<1>7. ASSUME UNCHANGED <<tstate, arg>>, InMainLoop' <=> InMainLoop,
             \A c \in Task : /\ pc'[c] \in PrePush => pc[c] \in PrePush
                             /\ pc'[c] = "te_state" => pc[c] = "te_state"
      PROVE  KillInv'
  BY <1>0, <1>7
<1> HIDE DEF KillInv
<1>8. CASE StCheck \/ StDiv \/ StCount \/ StCli \/ StLock
  BY <1>0, <1>7, <1>8 DEF StCheck, StDiv, StCount, StCli, StLock, Task
<1>9. CASE StPush \/ StUnlock \/ StSti
  BY <1>0, <1>7, <1>9 DEF StPush, StUnlock, StSti, StReturn, Task
<1>10. CASE TeCount
  BY <1>0, <1>7, <1>10 DEF TeCount, Task
<1>11. CASE TeCheck /\ arg[current] # current
  BY <1>0, <1>7, <1>11 DEF TeCheck, Task
<1> QED
  BY <1>2, <1>3, <1>4, <1>5, <1>6, <1>8, <1>9, <1>10, <1>11 DEF PlainStep

\* A terminated task is never revived; once off the processor it never runs
\* again, and its entries in the queue only get fewer.
THEOREM SchedTerminatedStaysOff ==
    SchedSpec => /\ TerminatedStaysOff
                 /\ \A t \in Task : [](Gone(t) => []Gone(t))
<1> DEFINE Kill == cpu = "up" => KillInv
           Stays == \A t \in Task :
                      /\ tstate[t] = "TERMINATED" => tstate'[t] = "TERMINATED"
                      /\ Gone(t) => Gone(t)' /\ heap'[t] <= heap[t]
<1>1. SchedInit => Kill
  BY DEF SchedInit, KillInv, PrePush, Task, InMainLoop
<1>2. SchedInv /\ Kill /\ [SchedNext]_schedVars => Kill'
  <2> SUFFICES ASSUME SchedInv, Kill, [SchedNext]_schedVars PROVE Kill'
    OBVIOUS
  <2>1. CASE UNCHANGED schedVars
    BY <2>1 DEF schedVars, KillInv, Starting, InMainLoop
  <2> QED
    BY <2>1, SchedSteps, SwitchKeepsKill, PlainKeepsKill DEF SchedInv
<1>3. SchedInv /\ Kill /\ [SchedNext]_schedVars => Stays
  <2> SUFFICES ASSUME SchedInv, Kill, [SchedNext]_schedVars PROVE Stays
    OBVIOUS
  <2> USE DEF SchedInv, CoreInv, SchedTypes, Gone
  <2>1. ASSUME cpu = "up", NEW l, TaskSwitch(l), Switches(l) PROVE Stays
    <3>0. SchedTypes(SchedPC)'
      BY SchedTypesStep
    <3>1. \A t \in Task : RequeuedState[t] = IF t = current /\ tstate[t] = "RUNNING"
                                               THEN "IN_QUEUE" ELSE tstate[t]
      BY DEF RequeuedState
    <3> QED
      <4>1. CASE cpu' = "up"
        <5>1. \A t \in Task :
                /\ Places(t)' <= Places(t)
                /\ tstate'[t] = IF t = current' THEN "RUNNING" ELSE RequeuedState[t]
          BY <2>1, <3>1, <4>1, TaskSwitchEffect DEF Switches
        <5>2. RequeuedState[current'] = "IN_QUEUE" /\ current' \in Task
          BY <2>1, <3>1, <4>1, TaskSwitchEffect DEF Switches
        <5> QED
          BY <3>0, <3>1, <5>1, <5>2 DEF Places
      <4>2. CASE cpu' # "up"
        BY <2>1, <3>1, <4>2, TaskSwitchEffect DEF Switches
      <4> QED
        BY <4>1, <4>2
  <2>2. ASSUME cpu = "up", PlainStep PROVE Stays
    <3>1. current' = current
      BY <2>2 DEF PlainStep, StartTask, Create, TerminateTask, StCheck, StDiv,
                  StCount, StCli, StLock, StPush, StUnlock, StSti, TeState,
                  TeCount, TeCheck, MainLoop, MlCurrent
    <3>2. \A t \in Task : tstate[t] = "TERMINATED" => tstate'[t] = "TERMINATED"
      <4>1. CASE MainLoop
        BY <2>2, <4>1 DEF MainLoop, Create, At, KillInv, InMainLoop, BootInv, Task
      <4> QED
        BY <2>2, <4>1
        DEF PlainStep, StartTask, Create, TerminateTask, StCheck, StDiv,
            StCount, StCli, StLock, StPush, StUnlock, StSti, TeState, TeCount,
            TeCheck, MlCurrent
    <3>3. \A t \in Task : tstate[t] = "TERMINATED" => heap'[t] <= heap[t]
      <4>1. CASE StPush
        BY <2>2, <4>1 DEF StPush, PushEntry, KillInv, At, PrePush
      <4>2. CASE ~StPush
        <5>1. heap' = heap
          BY <2>2, <4>2
          DEF PlainStep, StartTask, Create, TerminateTask, StCheck, StDiv,
              StCount, StCli, StLock, StUnlock, StSti, TeState, TeCount,
              TeCheck, MainLoop, MlCurrent
        <5> QED
          BY <5>1
      <4> QED
        BY <4>1, <4>2
    <3> QED
      BY <3>1, <3>2, <3>3
  <2>3. CASE UNCHANGED schedVars
    BY <2>3 DEF schedVars
  <2> QED
    BY <2>1, <2>2, <2>3, SchedSteps
<1>4. ASSUME NEW t \in Task
      PROVE  SchedSpec => [](Gone(t) => []Gone(t))
  <2>1. SchedInv /\ Kill /\ [SchedNext]_schedVars => (Gone(t) => Gone(t)')
    BY <1>3
  <2> QED
    BY <1>1, <1>2, <2>1, SchedInvariant, PTL DEF SchedSpec
<1>5. SchedSpec => \A t \in Task : [](Gone(t) => []Gone(t))
  BY <1>4
<1>6. SchedInv /\ Kill /\ [SchedNext]_schedVars => [Stays]_schedVars
  BY <1>3
<1>7. SchedSpec => TerminatedStaysOff
  BY <1>1, <1>2, <1>6, SchedInvariant, PTL DEF TerminatedStaysOff, SchedSpec
<1> QED
  BY <1>5, <1>7

\* While tasks only terminate themselves, num_tasks never falls below the
\* number of live tasks.
THEOREM SchedCountsLiveTasks == SchedSpec => []NumTasksCoversLive
<1>1. SchedInv /\ CountInv /\ [SchedNext]_schedVars => CountInv'
  BY CountInvStep, SchedInvStep DEF SchedInv
<1>2. SchedInv /\ CountInv => NumTasksCoversLive
  BY CountCoversLive DEF SchedInv
<1> QED
  BY <1>1, <1>2, CountInvInit, SchedInvariant, PTL DEF SchedSpec

\* ... so that start_task never divides by zero.
THEOREM SchedNeverDividesByZero == SchedSpec => []NoDivideError
<1>1. SchedInv /\ CountInv /\ [SchedNext]_schedVars => CountInv'
  BY CountInvStep, SchedInvStep DEF SchedInv
<1>2. SchedInv /\ CountInv => NoDivideError
  BY CountCoversLive DEF SchedInv
<1> QED
  BY <1>1, <1>2, CountInvInit, SchedInvariant, PTL DEF SchedSpec

-----------------------------------------------------------------------------
(***************************************************************************)
(* mutex.c                                                                 *)
(***************************************************************************)

\* A step of the scheduler moves a context between labels of the scheduler, or
\* leaves it where it is: it never enters or leaves mutex.c.
LEMMA SchedKeepsMutexLabels ==
    ASSUME MutexTypeOK, [SchedNext]_schedVars
    PROVE  \A t \in Task : pc'[t] = pc[t] \/ (pc[t] \in SchedPC /\ pc'[t] \in SchedPC)
<1> USE DEF MutexTypeOK, SchedTypes, Goto, At, SchedPC, PrePush
<1>1. CASE TimerFires
  BY <1>1 DEF TimerFires, TaskSwitch
<1>2. CASE Yield
  BY <1>2 DEF Yield, TaskSwitch
<1>3. ASSUME NEW w \in Workers, StartTask(w)
      PROVE  \A t \in Task : pc'[t] = pc[t] \/ (pc[t] \in SchedPC /\ pc'[t] \in SchedPC)
  BY <1>3 DEF StartTask, Create
<1>4. CASE StCheck \/ StDiv \/ StCount \/ StCli
  BY <1>4 DEF StCheck, StDiv, StCount, StCli
<1>5. CASE StLock \/ StPush \/ StUnlock \/ StSti
  BY <1>5 DEF StLock, StPush, StUnlock, StSti, StReturn
<1>6. ASSUME NEW w \in Workers, TerminateTask(w)
      PROVE  \A t \in Task : pc'[t] = pc[t] \/ (pc[t] \in SchedPC /\ pc'[t] \in SchedPC)
  BY <1>6 DEF TerminateTask
<1>7. CASE TeState \/ TeCount
  BY <1>7 DEF TeState, TeCount
<1>8. CASE TeCheck
  BY <1>8 DEF TeCheck, TaskSwitch
<1>9. CASE MainLoop \/ MlCurrent
  BY <1>9 DEF MainLoop, Create, MlCurrent
<1>10. CASE UNCHANGED schedVars
  BY <1>10 DEF schedVars
<1> QED
  BY <1>1, <1>2, <1>3, <1>4, <1>5, <1>6, <1>7, <1>8, <1>9, <1>10
  DEF SchedNext

\* Every step keeps the types.
LEMMA MutexTypeStep ==
    ASSUME MutexTypeOK, [Next]_vars
    PROVE  MutexTypeOK'
<1> USE DEF MutexTypeOK
<1>1. SchedPC \subseteq MutexPC
  BY DEF MutexPC
<1>2. CASE [SchedNext]_schedVars /\ UNCHANGED mutexVars
  BY <1>1, <1>2, SchedTypesStep DEF mutexVars
<1>3. CASE LYield
  <2>1. "l_spin" \in MutexPC
    BY DEF MutexPC
  <2> QED
    BY <1>3, <2>1, TaskSwitchType DEF LYield, mutexVars
<1>4. CASE CallLock \/ LSpin \/ LCheck \/ LUnl \/ LTake \/ LRel
  BY <1>4 DEF CallLock, LSpin, LCheck, LUnl, LTake, LRel, SpinAcquire,
              SpinRelease, SchedIdle, mutexVars, SchedTypes, At, Goto,
              MutexPC, SpinHeld, MutexHeld
<1>7. CASE LFreeze
  BY <1>7 DEF LFreeze, SchedIdle, mutexVars, SchedTypes, Goto, MutexPC,
              SpinHeld, State
<1>8. CASE LEnq
  <2>1. waiting' \in Seq(Task)
    BY <1>8 DEF LEnq, SchedTypes
  <2> QED
    BY <1>8, <2>1 DEF LEnq, SchedIdle, SchedTypes, Goto, MutexPC, SpinHeld
<1>5. CASE CallUnlock \/ USpin \/ UClear \/ UEmpty \/ URel
  BY <1>5 DEF CallUnlock, USpin, UClear, UEmpty, URel, SpinAcquire,
              SpinRelease, SchedIdle, mutexVars, SchedTypes, At, Goto,
              MutexPC, SpinHeld, MutexHeld, SchedPC
<1>6. CASE UWake
  BY <1>6 DEF UWake, SchedIdle, SchedTypes, State
<1> QED
  BY <1>2, <1>3, <1>4, <1>5, <1>6, <1>7, <1>8 DEF Next, MutexStep, Stopped, vars

\* The inductive invariant: the spinlock and the mutex each have exactly one
\* owner while they are taken.  Mutual exclusion alone is not inductive: that
\* nobody sets mutex->locked between another task's test and its own store is
\* what the ownership of the spinlock says.
MutexInv ==
    /\ MutexTypeOK
    /\ SpinlockOwned
    /\ MutualExclusion
    /\ \A t \in Task : pc[t] = "l_take" => ~locked

LEMMA MutexInvInit == MutexInit => MutexInv
<1> SUFFICES ASSUME MutexInit PROVE MutexInv
  OBVIOUS
<1>1. MutexTypeOK
  <2>0. "boot" \in MutexPC /\ "run" \in MutexPC
    BY DEF MutexPC, SchedPC
  <2>1. SchedTypes(MutexPC)
    BY <2>0, SchedAssumption DEF MutexInit, SchedInit, SchedTypes, Task, State,
                                 CpuState
  <2>2. waiting \in Seq(Task)
    BY DEF MutexInit
  <2>3. locked \in BOOLEAN
    BY DEF MutexInit
  <2>4. spin \in {0, 1}
    BY DEF MutexInit
  <2> QED
    BY <2>1, <2>2, <2>3, <2>4 DEF MutexTypeOK
<1>2. \A t \in Task : pc[t] \in {"boot", "run"}
  BY DEF MutexInit, SchedInit
<1> QED
  BY <1>1, <1>2 DEF MutexInv, SpinlockOwned, MutualExclusion, SpinHeld,
                    MutexHeld, MutexInit

LEMMA MutexInvStep == MutexInv /\ [Next]_vars => MutexInv'
<1> SUFFICES ASSUME MutexInv, [Next]_vars PROVE MutexInv'
  OBVIOUS
<1>1. MutexTypeOK'
  BY MutexTypeStep DEF MutexInv
<1>2. CASE [SchedNext]_schedVars /\ UNCHANGED mutexVars
  <2>1. \A t \in Task : pc'[t] = pc[t] \/ (pc[t] \in SchedPC /\ pc'[t] \in SchedPC)
    BY <1>2, SchedKeepsMutexLabels DEF MutexInv
  <2>2. SchedPC \cap (SpinHeld \cup MutexHeld) = {}
    BY DEF SchedPC, PrePush, SpinHeld, MutexHeld
  <2>3. \A t \in Task : /\ pc'[t] \in SpinHeld <=> pc[t] \in SpinHeld
                        /\ pc'[t] \in MutexHeld <=> pc[t] \in MutexHeld
                        /\ pc'[t] = "l_take" => pc[t] = "l_take"
    BY <2>1, <2>2 DEF SpinHeld
  <2> QED
    BY <1>1, <1>2, <2>3 DEF MutexInv, SpinlockOwned, MutualExclusion, mutexVars
<1>3. CASE MutexStep
  <2> USE <1>1 DEF MutexInv, MutexTypeOK, SchedTypes, SpinlockOwned,
          MutualExclusion, SpinHeld, MutexHeld, At, Goto, SpinAcquire,
          SpinRelease, mutexVars
  <2>1. CASE CallLock
    BY <2>1, SMTT(30) DEF CallLock
  <2>2. CASE LSpin
    BY <2>2 DEF LSpin
  <2>3. CASE LCheck
    BY <2>3, SMTT(30) DEF LCheck
  <2>4. CASE LFreeze
    BY <2>4 DEF LFreeze
  <2>5. CASE LEnq
    BY <2>5, SMTT(30) DEF LEnq
  <2>6. CASE LUnl
    BY <2>6 DEF LUnl
  <2>7. CASE LYield
    BY <2>7, SMTT(30) DEF LYield, TaskSwitch
  <2>8. CASE LTake
    BY <2>8 DEF LTake
  <2>9. CASE LRel
    BY <2>9 DEF LRel
  <2>10. CASE CallUnlock
    BY <2>10 DEF CallUnlock
  <2>11. CASE USpin
    BY <2>11 DEF USpin
  <2>12. CASE UClear
    BY <2>12 DEF UClear
  <2>13. CASE UWake
    BY <2>13 DEF UWake
  <2>14. CASE UEmpty
    BY <2>14 DEF UEmpty
  <2>15. CASE URel
    BY <2>15 DEF URel
  <2> QED
    BY <1>3, <2>1, <2>2, <2>3, <2>4, <2>5, <2>6, <2>7, <2>8, <2>9, <2>10,
       <2>11, <2>12, <2>13, <2>14, <2>15 DEF MutexStep
<1> QED
  BY <1>2, <1>3 DEF Next, vars, Stopped

-----------------------------------------------------------------------------
(***************************************************************************)
(* Waiting tasks, while tasks only terminate themselves                    *)
(***************************************************************************)

\* The labels of mutex_lock at which a task may have been set FROZEN.
WaitLabels == {"l_enq", "l_unl", "l_yield", "l_spin"}

\* The state of a task agrees with the code its context is in.
LabelInv ==
    /\ pc[BootTask] \in SchedPC
    /\ \A t \in Task : tstate[t] = "TERMINATED" =>
          pc[t] \in {"te_count", "te_check", "te_unreachable"}
    /\ \A t \in Task : tstate[t] = "FROZEN" => pc[t] \in WaitLabels
    /\ \A t \in Task : pc[t] = "l_enq" => tstate[t] = "FROZEN"
    /\ current \in Workers =>
          \/ tstate[current] \in {"RUNNING", "TERMINATED"}
          \/ tstate[current] = "FROZEN" /\ pc[current] \in {"l_enq", "l_unl", "l_yield"}

\* A started task that neither waits nor has ended is in one place.
LiveInv ==
    \A w \in Workers :
        Started(w) /\ tstate[w] # "TERMINATED" /\ pc[w] \notin WaitLabels =>
            Places(w) = 1

\* Nobody waits without somebody who is going to empty the queue of waiters.
WakerInv ==
    waiting # <<>> \/ (\E t \in Task : pc[t] \in {"l_freeze", "l_enq"}) =>
        \E t \in Task : pc[t] \in MutexHeld \cup {"u_deq"}

\* The inductive invariant.  WaitersAreParked holds on a stopped processor too:
\* a waiter that yields finds its waker in the run queue (LiveInv, WakerInv), so
\* that the queue does not run empty under it.
WaitInv ==
    ~KillOthers =>
        /\ CoreInv(MutexPC)
        /\ CountInv
        /\ WaitersAreParked
        /\ cpu = "up" => LabelInv /\ LiveInv /\ WakerInv

LEMMA WaitInvInit == MutexInit => WaitInv
<1> SUFFICES ASSUME MutexInit PROVE WaitInv
  OBVIOUS
<1>1. CoreInv(MutexPC) /\ CountInv
  BY CoreInvInit, CountInvInit DEF MutexInit, MutexPC
<1>2. WaitersAreParked
  <2>1. DOMAIN waiting = {}
    BY DEF MutexInit
  <2> QED
    BY <2>1 DEF WaitersAreParked, IsInjective
<1>3. LabelInv /\ LiveInv /\ WakerInv
  BY SchedAssumption
  DEF MutexInit, SchedInit, LabelInv, LiveInv, WakerInv, SchedPC, Started, Task
<1> QED
  BY <1>1, <1>2, <1>3 DEF WaitInv

\* The labels a context is at outside the scheduler's code.
Outside == (MutexPC \ SchedPC) \cup {"run"}

LEMMA OutsideLabels ==
    /\ Outside = {"run", "l_spin", "l_check", "l_freeze", "l_enq", "l_unl",
                  "l_yield", "l_take", "l_rel", "cs", "u_spin", "u_clear",
                  "u_deq", "u_rel"}
    /\ MutexPC = SchedPC \cup Outside
BY DEF Outside, MutexPC, SchedPC, PrePush, SpinHeld, MutexHeld

\* The context on the processor, if it executes mutex.c, is a worker's.
LEMMA MutexRunner ==
    ASSUME MutexInv, WaitInv, ~KillOthers, MutexStep
    PROVE  /\ cpu = "up"
           /\ current \in Workers
           /\ pc[current] \in Outside
           /\ Started(current)
           /\ tstate[current] \in {"RUNNING", "FROZEN"}
           /\ heap[current] = 0
<1>1. cpu = "up" /\ pc[current] \in Outside
  BY OutsideLabels
  DEF MutexStep, CallLock, LSpin, LCheck, LFreeze, LEnq, LUnl, LYield, LTake,
      LRel, CallUnlock, USpin, UClear, UWake, UEmpty, URel, At
<1>2. CoreInv(MutexPC) /\ LabelInv /\ CountInv
  BY <1>1 DEF WaitInv
<1>3. current \in Workers
  BY <1>1, <1>2 DEF CoreInv, SchedTypes, BootInv, Task, LabelInv, Outside
<1>4. Places(current) > 0 /\ heap[current] = 0
  BY <1>2, <1>3, SchedAssumption DEF Places, CoreInv, OneContextPerTask, SchedTypes, Task
<1>5. Started(current)
  BY <1>1, <1>2, <1>3, <1>4 DEF Started, Starting, CoreInv, StartInv, SchedTypes
<1>6. tstate[current] \in {"RUNNING", "FROZEN"}
  BY <1>1, <1>2, <1>3, OutsideLabels DEF LabelInv, Task
<1> QED
  BY <1>1, <1>3, <1>4, <1>5, <1>6

\* A step of mutex.c but yield() moves one context outside the scheduler, and
\* sets the state of live tasks only.
MutexFrame ==
    /\ SchedIdle
    /\ \A t \in Task : t # current => pc'[t] = pc[t]
    /\ pc'[current] \in Outside
    /\ \A t \in Task :
          \/ tstate'[t] = tstate[t]
          \/ tstate[t] \in {"RUNNING", "FROZEN"} /\ tstate'[t] \in {"FROZEN", "IN_QUEUE"}

LEMMA MutexStepFrame ==
    ASSUME MutexInv, WaitInv, ~KillOthers, MutexStep, ~LYield
    PROVE  MutexFrame
<1> USE MutexRunner, OutsideLabels
    DEF MutexFrame, MutexInv, MutexTypeOK, SchedTypes, Goto, SpinAcquire, SpinRelease
<1>1. CASE CallLock \/ LSpin \/ LCheck \/ LUnl \/ LTake \/ LRel
  BY <1>1 DEF CallLock, LSpin, LCheck, LUnl, LTake, LRel
<1>2. CASE LFreeze
  BY <1>2 DEF LFreeze
<1>3. CASE LEnq
  BY <1>3 DEF LEnq
<1>4. CASE CallUnlock \/ USpin \/ UClear \/ UEmpty \/ URel
  BY <1>4 DEF CallUnlock, USpin, UClear, UEmpty, URel
<1>5. CASE UWake
  <2>1. tstate[Head(waiting)] = "FROZEN"
    <3>1. 1 \in DOMAIN waiting /\ Head(waiting) = waiting[1]
      BY <1>5 DEF UWake
    <3> QED
      BY <3>1 DEF WaitInv, WaitersAreParked
  <2> QED
    BY <1>5, <2>1 DEF UWake
<1> QED
  BY <1>1, <1>2, <1>3, <1>4, <1>5 DEF MutexStep

\* yield() from mutex_lock is a task switch the scheduler allows.
LEMMA MutexYield ==
    ASSUME MutexInv, WaitInv, ~KillOthers, LYield
    PROVE  TaskSwitch("l_spin") /\ Switches("l_spin")
<1>1. pc[current] = "l_yield" /\ current \in Workers
  BY MutexRunner DEF LYield, At, MutexStep
<1> QED
  BY <1>1, SchedAssumption DEF LYield, Switches, Masked, SchedPC, PrePush

\* What the scheduler relies on survives the steps of mutex.c.
LEMMA MutexKeepsSched ==
    ASSUME MutexInv, WaitInv, ~KillOthers, MutexTypeOK', MutexStep
    PROVE  CoreInv(MutexPC)' /\ CountInv'
<1>0. /\ CoreInv(MutexPC) /\ CountInv /\ SchedPC \subseteq MutexPC
      /\ SchedTypes(MutexPC)'
  BY DEF WaitInv, MutexTypeOK, MutexPC
<1>1. CASE LYield
  <2>1. CoreInv(MutexPC)'
    BY <1>0, <1>1, MutexRunner, MutexYield, TaskSwitchCore
  <2> QED
    BY <1>0, <1>1, <2>1, MutexRunner, MutexYield, TaskSwitchCount
<1>2. CASE ~LYield
  <2>1. MutexFrame
    BY <1>2, MutexStepFrame
  <2>2. \A t \in Task : /\ pc'[t] \in SchedPC \ {"run"} <=> pc[t] \in SchedPC \ {"run"}
                        /\ pc[t] \in SchedPC \ {"run"} => pc'[t] = pc[t]
                        /\ Starting(t)' <=> Starting(t)
    <3>1. \A t \in Task : /\ pc'[t] \in SchedPC \ {"run"} <=> pc[t] \in SchedPC \ {"run"}
                          /\ pc[t] \in SchedPC \ {"run"} => pc'[t] = pc[t]
      BY <2>1, MutexRunner DEF MutexFrame, Outside
    <3> QED
      BY <2>1, <3>1 DEF Starting, MutexFrame, SchedIdle, PrePush, SchedPC
  <2> USE <1>0, <2>1, <2>2, MutexRunner DEF MutexFrame, SchedIdle, SchedTypes, Task
  <2>3. LockInv'
    BY DEF CoreInv, LockInv, Masked, SchedPC, PrePush
  <2>4. BootInv'
    BY SchedAssumption DEF CoreInv, BootInv, InMainLoop, SchedPC, PrePush
  <2>5. StartInv'
    BY DEF CoreInv, StartInv, PrePush, SchedPC, Places
  <2>6. StateInv'
    BY DEF CoreInv, StateInv, SchedPC
  <2>7. CoreInv(MutexPC)'
    BY <2>3, <2>4, <2>5, <2>6 DEF CoreInv, OneContextPerTask, Places, IsrNeverSpins
  <2>8. Booked' = Booked
    BY DEF Booked, SchedPC, PrePush
  <2>9. SelfInv'
    BY SchedAssumption DEF SelfInv, CountInv, Terminating, SchedPC, InMainLoop, Started
  <2> QED
    BY <2>7, <2>8, <2>9, SchedAssumption DEF CountInv
<1> QED
  BY <1>1, <1>2

\* The task that will wake the waiters is in the run queue or on the processor.
LEMMA WakerIsQueued ==
    ASSUME MutexInv, WaitInv, ~KillOthers, cpu = "up", waiting # <<>>
    PROVE  \E h \in Workers : /\ pc[h] \in MutexHeld \cup {"u_deq"}
                              /\ tstate[h] \in {"RUNNING", "IN_QUEUE"}
                              /\ Places(h) = 1
<1>1. CoreInv(MutexPC) /\ CountInv /\ LabelInv /\ LiveInv /\ WakerInv
  BY DEF WaitInv
<1>2. PICK h \in Task : pc[h] \in MutexHeld \cup {"u_deq"}
  BY <1>1 DEF WakerInv
<1>3. pc[h] \in Outside \ {"run"} /\ pc[h] \notin WaitLabels
  BY <1>2, OutsideLabels DEF MutexHeld, WaitLabels
<1>4. h \in Workers
  BY <1>1, <1>3, OutsideLabels DEF LabelInv, Outside, Task
<1>5. Started(h)
  BY <1>1, <1>3, <1>4 DEF CountInv, SelfInv, Started
<1>6. tstate[h] \in {"RUNNING", "IN_QUEUE"}
  BY <1>1, <1>3, <1>4, <1>5, OutsideLabels
  DEF LabelInv, Started, CoreInv, SchedTypes, State, Task
<1>7. Places(h) = 1
  BY <1>1, <1>3, <1>4, <1>5, <1>6 DEF LiveInv
<1> QED
  BY <1>2, <1>4, <1>6, <1>7

\* A task switch keeps the waiters parked, and throws no other task away.
LEMMA SwitchKeepsWait ==
    ASSUME MutexInv, WaitInv, ~KillOthers, cpu = "up", NEW l, TaskSwitch(l),
           Switches(l), UNCHANGED mutexVars,
           CoreInv(MutexPC)', CountInv',
           l = pc[current] \/ l = "te_unreachable" \/ (l = "l_spin" /\ pc[current] = "l_yield")
    PROVE  WaitInv'
<1> DEFINE ts == RequeuedState
<1>0. CoreInv(MutexPC) /\ CountInv /\ WaitersAreParked /\ LabelInv /\ LiveInv /\ WakerInv
  BY DEF WaitInv
<1>1. /\ current \in Task /\ Task = Workers \cup {BootTask}
      /\ waiting \in Seq(Task) /\ waiting' = waiting
      /\ \A i \in DOMAIN waiting : waiting[i] \in Task
  BY DEF MutexInv, MutexTypeOK, SchedTypes, Task, mutexVars
<1>2. \A t \in Task : pc'[t] = IF t = current THEN l ELSE pc[t]
  BY DEF TaskSwitch, Goto, MutexInv, MutexTypeOK, SchedTypes
<1>6. \/ l = pc[current] /\ current \in Workers
      \/ l = "te_unreachable" /\ pc[current] = "te_check" /\ tstate[current] = "TERMINATED"
      \/ l = "l_spin" /\ pc[current] = "l_yield" /\ current \in Workers
  BY <1>0, <1>1 DEF Switches, SchedPC, CoreInv, StateInv
<1>3. \A t \in Task : ts[t] = IF t = current /\ tstate[t] = "RUNNING"
                              THEN "IN_QUEUE" ELSE tstate[t]
  BY <1>0, TaskSwitchEffect DEF Switches
<1>4. CASE cpu' = "up"
  <2>1. /\ \A t \in Task :
               /\ Places(t)' \in Nat
               /\ Places(t)' <= Places(t)
               /\ ts[t] = "IN_QUEUE" => Places(t)' = Places(t)
               /\ tstate'[t] = IF t = current' THEN "RUNNING" ELSE ts[t]
        /\ ts[current'] = "IN_QUEUE"
        /\ current' \in Task
    BY <1>0, <1>4, TaskSwitchEffect DEF Switches
  <2>2. \A t \in Task : Starting(t)' <=> Starting(t)
    BY <1>0, TaskSwitchCore DEF CoreInv, MutexPC
  <2> HIDE DEF ts
  <2>3. WaitersAreParked'
    BY <1>0, <1>1, <1>2, <1>3, <1>6, <2>1 DEF WaitersAreParked, IsInjective
  <2>4. LabelInv'
    BY <1>0, <1>1, <1>2, <1>3, <1>6, <2>1, SchedAssumption
    DEF LabelInv, WaitLabels, SchedPC
  <2>5. LiveInv'
    <3> SUFFICES ASSUME NEW w \in Workers, Started(w)', tstate'[w] # "TERMINATED",
                        pc'[w] \notin WaitLabels
                 PROVE  Places(w)' = 1
      BY DEF LiveInv
    <3>1. ts[w] # "TERMINATED" /\ tstate[w] # "TERMINATED" /\ Started(w)
      BY <1>1, <1>3, <2>1, <2>2 DEF Started
    <3>2. pc[w] \notin WaitLabels
      BY <1>1, <1>2, <1>6, <3>1 DEF WaitLabels
    <3>3. ts[w] = "IN_QUEUE" /\ Places(w) = 1
      BY <1>0, <1>1, <1>3, <3>1, <3>2
      DEF LiveInv, LabelInv, Started, CoreInv, StateInv, SchedTypes, State
    <3> QED
      BY <1>1, <2>1, <3>3
  <2>6. WakerInv'
    BY <1>0, <1>1, <1>2, <1>6 DEF WakerInv, MutexHeld
  <2> QED
    BY <2>3, <2>4, <2>5, <2>6 DEF WaitInv
<1>5. CASE cpu' = "corrupt"
  <2>1. /\ \A t \in Task : Places(t) > 0 => ts[t] # "IN_QUEUE"
        /\ tstate' = ts /\ current' = current
    BY <1>0, <1>5, TaskSwitchEffect DEF Switches
  <2> HIDE DEF ts
  <2>2. ASSUME l = "l_spin", pc[current] = "l_yield" PROVE waiting = <<>>
    <3> SUFFICES ASSUME waiting # <<>> PROVE FALSE
      OBVIOUS
    <3>1. PICK h \in Workers : /\ pc[h] \in MutexHeld \cup {"u_deq"}
                               /\ tstate[h] \in {"RUNNING", "IN_QUEUE"}
                               /\ Places(h) = 1
      BY WakerIsQueued
    <3>2. h # current
      BY <2>2, <3>1 DEF MutexHeld
    <3>3. ts[h] = "IN_QUEUE"
      BY <1>0, <1>1, <1>3, <3>1, <3>2 DEF CoreInv, StateInv
    <3> QED
      BY <1>1, <2>1, <3>1, <3>3
  <2>3. WaitersAreParked'
    <3>1. CASE l = "l_spin" /\ pc[current] = "l_yield"
      BY <1>1, <2>2, <3>1 DEF WaitersAreParked, IsInjective
    <3>2. CASE l = pc[current] \/ l = "te_unreachable"
      BY <1>0, <1>1, <1>2, <1>3, <1>6, <2>1, <3>2 DEF WaitersAreParked, IsInjective
    <3> QED
      BY <3>1, <3>2
  <2> QED
    BY <1>5, <2>3 DEF WaitInv
<1> QED
  BY <1>0, <1>4, <1>5, TaskSwitchEffect DEF Switches

\* So does every other step of the scheduler.
LEMMA PlainKeepsWait ==
    ASSUME MutexInv, WaitInv, ~KillOthers, cpu = "up", PlainStep,
           UNCHANGED mutexVars, CoreInv(MutexPC)', CountInv'
    PROVE  WaitInv'
<1>0. CoreInv(MutexPC) /\ CountInv /\ WaitersAreParked /\ LabelInv /\ LiveInv /\ WakerInv
  BY DEF WaitInv
<1>1. /\ current \in Task /\ Task = Workers \cup {BootTask} /\ BootTask \notin Workers
      /\ waiting \in Seq(Task) /\ waiting' = waiting
      /\ \A i \in DOMAIN waiting : waiting[i] \in Task
      /\ SchedTypes(MutexPC)
  BY SchedAssumption DEF MutexInv, MutexTypeOK, SchedTypes, Task, mutexVars
<1>2. /\ \A t \in Task : t # current => pc'[t] = pc[t]
      /\ pc[current] \in SchedPC /\ pc'[current] \in SchedPC
      /\ current' = current
  BY <1>1 DEF PlainStep, StartTask, Create, TerminateTask, StCheck, StDiv,
       StCount, StCli, StLock, StPush, StUnlock, StSti, StReturn, TeState,
       TeCount, MainLoop, MlCurrent, TeCheck, At, Goto, SchedPC, PrePush,
       SchedTypes
<1>3. \A t \in Task :
        \/ tstate'[t] = tstate[t]
        \/ tstate[t] = "UNBORN" /\ tstate'[t] = "IN_QUEUE" /\ t # current
           /\ t \in Workers
        \/ t = BootTask /\ tstate'[t] = "IN_QUEUE" /\ tstate[t] = "UNBORN"
        \/ t = current /\ TeState /\ tstate'[t] = "TERMINATED"
  <2>1. ASSUME NEW w \in Workers, StartTask(w) PROVE w # current
    <3>1. Places(w) = 0
      BY <1>0, <2>1 DEF StartTask, CoreInv, StartInv, At
    <3> QED
      BY <1>1, <3>1 DEF Places, SchedTypes
  <2>2. MainLoop => tstate[BootTask] = "UNBORN"
    BY <1>0, <1>1 DEF MainLoop, At, CountInv, SelfInv, InMainLoop, CoreInv, BootInv
  <2>3. TeState => arg[current] = current
    BY <1>0, <1>1 DEF TeState, At, CountInv, SelfInv, Terminating
  <2> QED
    BY <1>1, <2>1, <2>2, <2>3, ZenonT(30) DEF PlainStep, StartTask, Create, TerminateTask,
       StCheck, StDiv, StCount, StCli, StLock, StPush, StUnlock, StSti, TeState,
       TeCount, MainLoop, MlCurrent, TeCheck, SchedTypes
<1>4. /\ TeState => pc'[current] = "te_count"
      /\ pc[current] = "te_count" => pc'[current] = "te_check"
      /\ pc[current] # "te_unreachable"
      /\ pc[current] = "te_check" => FALSE
  BY <1>0, <1>1 DEF PlainStep, StartTask, Create, TerminateTask, StCheck, StDiv,
       StCount, StCli, StLock, StPush, StUnlock, StSti, StReturn, TeState,
       TeCount, MainLoop, MlCurrent, TeCheck, At, Goto, SchedTypes,
       CountInv, SelfInv, Terminating
<1>5. SchedPC \cap (WaitLabels \cup MutexHeld \cup {"u_deq", "l_freeze"}) = {}
  BY DEF SchedPC, PrePush, WaitLabels, MutexHeld
<1>6. WaitersAreParked'
  <2>1. \A i \in DOMAIN waiting : /\ waiting[i] # current
                                  /\ tstate[waiting[i]] = "FROZEN"
    BY <1>0, <1>2, <1>5 DEF WaitersAreParked, WaitLabels
  <2> QED
    BY <1>0, <1>1, <1>2, <1>3, <2>1 DEF WaitersAreParked, IsInjective
<1>7. LabelInv'
  <2>1. current \in Workers => tstate[current] # "UNBORN"
    BY <1>0, <1>1 DEF LabelInv
  <2> QED
    BY <1>0, <1>1, <1>2, <1>3, <1>4, <1>5, <2>1 DEF LabelInv, WaitLabels
<1>8. LiveInv'
  <2> SUFFICES ASSUME NEW w \in Workers, Started(w)', tstate'[w] # "TERMINATED",
                      pc'[w] \notin WaitLabels
               PROVE  Places(w)' = 1
    BY DEF LiveInv
  <2>1. CASE w = current
    <3>1. heap'[w] \in Nat /\ Places(w)' <= 1
      BY <1>1 DEF CoreInv, OneContextPerTask, SchedTypes
    <3> QED
      BY <1>2, <2>1, <3>1 DEF Places
  <2>2. CASE w # current /\ Started(w) /\ ~StPush
    <3>1. Places(w)' = Places(w)
      BY <1>2, <2>2 DEF Places, PlainStep, StartTask, Create, TerminateTask,
         StCheck, StDiv, StCount, StCli, StLock, StUnlock, StSti, TeState,
         TeCount, MainLoop, MlCurrent, TeCheck
    <3> QED
      BY <1>0, <1>1, <1>2, <1>3, <2>2, <3>1 DEF LiveInv, Started
  <2>3. CASE w # current /\ ~Started(w) /\ ~StPush
    <3>1. ~Started(w)'
      <4>1. PICK c \in Task : tstate[w] = "UNBORN" \/ (arg[c] = w /\ pc[c] \in PrePush)
        BY <1>1, <2>3 DEF Started, Starting
      <4> USE <1>1, <2>3, <4>1
          DEF Started, Starting, PrePush, At, Goto, SchedTypes
      <4>2. ASSUME NEW v \in Workers, StartTask(v) PROVE ~Started(w)'
        BY <4>2 DEF StartTask, Create
      <4>3. ASSUME NEW v \in Workers, TerminateTask(v) PROVE ~Started(w)'
        BY <4>3 DEF TerminateTask
      <4>4. CASE StCheck \/ StDiv \/ StCount \/ StCli
        BY <4>4 DEF StCheck, StDiv, StCount, StCli
      <4>5. CASE StLock \/ StUnlock \/ StSti
        BY <4>5 DEF StLock, StUnlock, StSti, StReturn
      <4>6. CASE TeState
        BY <1>3, <4>6 DEF TeState
      <4>7. CASE TeCount \/ MlCurrent
        BY <4>7 DEF TeCount, MlCurrent
      <4>8. CASE MainLoop
        BY <4>8 DEF MainLoop, Create
      <4>9. CASE TeCheck /\ arg[current] # current
        BY <4>9 DEF TeCheck
      <4> QED
        BY <4>2, <4>3, <4>4, <4>5, <4>6, <4>7, <4>8, <4>9 DEF PlainStep
    <3> QED
      BY <3>1
  <2>4. CASE w # current /\ StPush
    <3>1. CASE arg[current] = w
      BY <1>0, <1>1, <2>4, <3>1 DEF StPush, At, CoreInv, StartInv, PrePush,
         PushEntry, Places, SchedTypes
    <3>2. CASE arg[current] # w
      <4>1. Started(w) /\ Places(w)' = Places(w)
        BY <1>1, <2>4, <3>2 DEF StPush, At, Goto, PushEntry, Places, Started,
           Starting, PrePush, SchedTypes
      <4> QED
        BY <1>0, <1>1, <1>2, <1>3, <2>4, <4>1 DEF LiveInv
    <3> QED
      BY <3>1, <3>2
  <2> QED
    BY <2>1, <2>2, <2>3, <2>4
<1>9. WakerInv'
  BY <1>0, <1>1, <1>2, <1>5 DEF WakerInv, WaitLabels
<1> QED
  BY <1>6, <1>7, <1>8, <1>9 DEF WaitInv

\* A step of mutex.c keeps every task where it was, and a task that is not
\* lost stays so when it leaves the wait.
LEMMA MutexKeepsLive ==
    ASSUME MutexInv, WaitInv, ~KillOthers, MutexStep, ~LYield,
           CoreInv(MutexPC)'
    PROVE  LiveInv'
<1> SUFFICES ASSUME NEW w \in Workers, Started(w)', tstate'[w] # "TERMINATED",
                    pc'[w] \notin WaitLabels
             PROVE  Places(w)' = 1
  BY DEF LiveInv
<1>1. MutexFrame /\ LiveInv /\ current \in Workers
  BY MutexStepFrame, MutexRunner DEF WaitInv
<1>2. CASE w = current
  <2>1. heap'[w] = heap[w] /\ current' = current /\ heap[w] = 0
    BY <1>1, <1>2, MutexRunner DEF MutexFrame, SchedIdle
  <2> QED
    BY <1>2, <2>1 DEF Places
<1>3. CASE w # current
  <2>1. Started(w)
    <3>1. \A c \in Task : pc[c] \in PrePush => pc'[c] = pc[c]
      BY <1>1, MutexRunner, OutsideLabels DEF MutexFrame, PrePush
    <3> QED
      BY <1>1, <3>1 DEF MutexFrame, Started, Starting, SchedIdle, Task
  <2> QED
    BY <1>1, <1>3, <2>1 DEF LiveInv, MutexFrame, SchedIdle, Places, Task
<1> QED
  BY <1>2, <1>3

\* The waiters stay parked in every step of mutex.c.
LEMMA MutexKeepsParked ==
    ASSUME MutexInv, WaitInv, ~KillOthers, MutexStep, ~LYield
    PROVE  WaitersAreParked'
<1>1. /\ current \in Workers /\ WaitersAreParked /\ LabelInv /\ cpu = "up"
      /\ tstate[current] \in {"RUNNING", "FROZEN"}
  BY MutexRunner DEF WaitInv
<1>2. waiting \in Seq(Task) /\ \A i \in DOMAIN waiting : waiting[i] \in Task
  BY DEF MutexInv, MutexTypeOK
<1>3. \A i \in DOMAIN waiting : waiting[i] = current => pc[current] \in {"l_unl", "l_yield"}
  BY <1>1 DEF WaitersAreParked
<1>4. /\ current \in Task /\ current' = current
      /\ tstate \in [Task -> State] /\ pc \in [Task -> MutexPC]
      /\ \A t \in Task : t # current => pc'[t] = pc[t]
  BY MutexStepFrame DEF MutexFrame, SchedIdle, MutexInv, MutexTypeOK, SchedTypes
<1> USE <1>1, <1>2, <1>3, <1>4 DEF At, Goto, SpinAcquire, SpinRelease, mutexVars
<1>5. CASE CallLock \/ LSpin \/ LCheck \/ LUnl \/ LTake \/ LRel \/ CallUnlock
           \/ USpin \/ UClear \/ UEmpty \/ URel
  <2>1. /\ waiting' = waiting /\ tstate' = tstate
        /\ pc[current] \notin {"l_unl", "l_yield"} \/ pc'[current] = "l_yield"
    BY <1>5 DEF CallLock, LSpin, LCheck, LUnl, LTake, LRel, CallUnlock, USpin,
                UClear, UEmpty, URel
  <2> QED
    BY <2>1 DEF WaitersAreParked, IsInjective
<1>6. CASE LFreeze
  BY <1>6 DEF LFreeze, WaitersAreParked, IsInjective
<1>7. CASE LEnq
  <2>1. \A i \in DOMAIN waiting : waiting[i] # current
    BY <1>7 DEF LEnq
  <2>2. /\ DOMAIN waiting' = DOMAIN waiting \cup {Len(waiting) + 1}
        /\ \A i \in DOMAIN waiting : waiting'[i] = waiting[i]
        /\ waiting'[Len(waiting) + 1] = current
    BY <1>7 DEF LEnq
  <2>3. tstate' = tstate /\ tstate[current] = "FROZEN" /\ pc'[current] = "l_unl"
    BY <1>7 DEF LEnq, LabelInv
  <2> QED
    BY <2>1, <2>2, <2>3 DEF WaitersAreParked, IsInjective
<1>8. CASE UWake
  <2>1. /\ waiting # <<>> /\ waiting' = Tail(waiting) /\ pc' = pc
        /\ tstate' = [tstate EXCEPT ![Head(waiting)] = "IN_QUEUE"]
    BY <1>8 DEF UWake
  <2>2. /\ \A i \in DOMAIN Tail(waiting) : i + 1 \in DOMAIN waiting /\ Tail(waiting)[i] = waiting[i + 1]
        /\ 1 \in DOMAIN waiting /\ Head(waiting) = waiting[1]
        /\ \A i \in DOMAIN Tail(waiting) : i \in Nat /\ i + 1 # 1
    BY <2>1
  <2>3. \A i \in DOMAIN Tail(waiting) : waiting[i + 1] # Head(waiting)
    BY <2>2 DEF WaitersAreParked, IsInjective
  <2>4. IsInjective(Tail(waiting))
    <3> SUFFICES ASSUME NEW a \in DOMAIN Tail(waiting), NEW b \in DOMAIN Tail(waiting),
                        Tail(waiting)[a] = Tail(waiting)[b]
                 PROVE  a = b
      BY DEF IsInjective
    <3>1. a + 1 = b + 1
      BY <2>2 DEF WaitersAreParked, IsInjective
    <3> QED
      BY <2>2, <3>1
  <2> QED
    BY <2>1, <2>2, <2>3, <2>4 DEF WaitersAreParked
<1> QED
  BY <1>5, <1>6, <1>7, <1>8 DEF MutexStep

\* The states of the tasks go on agreeing with their labels.
LEMMA MutexKeepsLabels ==
    ASSUME MutexInv, WaitInv, ~KillOthers, MutexStep, ~LYield
    PROVE  LabelInv'
<1>1. /\ current \in Workers /\ WaitersAreParked /\ LabelInv /\ cpu = "up"
      /\ tstate[current] \in {"RUNNING", "FROZEN"} /\ current # BootTask
      /\ BootTask \in Task /\ current \in Task
  BY MutexRunner, SchedAssumption DEF WaitInv, Task
<1>2. /\ current' = current
      /\ tstate \in [Task -> State] /\ pc \in [Task -> MutexPC]
      /\ \A t \in Task : t # current => pc'[t] = pc[t]
  BY MutexStepFrame DEF MutexFrame, SchedIdle, MutexInv, MutexTypeOK, SchedTypes
<1> USE <1>1, <1>2 DEF At, Goto, SpinAcquire, SpinRelease, mutexVars
<1>3. CASE CallLock \/ LSpin \/ LCheck \/ LUnl \/ LTake \/ LRel \/ CallUnlock
           \/ USpin \/ UClear \/ UEmpty \/ URel
  <2>1. /\ tstate' = tstate
        /\ \/ pc[current] = "l_unl" /\ pc'[current] = "l_yield"
           \/ /\ pc[current] \notin {"l_enq", "l_unl", "l_yield"}
              /\ pc'[current] # "l_enq"
    BY <1>3 DEF CallLock, LSpin, LCheck, LUnl, LTake, LRel, CallUnlock, USpin,
                UClear, UEmpty, URel
  <2>2. CASE pc[current] = "l_unl" /\ pc'[current] = "l_yield"
    BY <2>1, <2>2 DEF LabelInv, WaitLabels
  <2>3. CASE pc[current] \notin {"l_enq", "l_unl", "l_yield"} /\ pc'[current] # "l_enq"
    BY <2>1, <2>3 DEF LabelInv, WaitLabels
  <2> QED
    BY <2>1, <2>2, <2>3
<1>4. CASE LFreeze
  BY <1>4 DEF LFreeze, LabelInv, WaitLabels
<1>5. CASE LEnq
  BY <1>5 DEF LEnq, LabelInv, WaitLabels
<1>6. CASE UWake
  <2>1. /\ pc[Head(waiting)] \in {"l_unl", "l_yield", "l_spin"} /\ pc' = pc
        /\ tstate' = [tstate EXCEPT ![Head(waiting)] = "IN_QUEUE"]
        /\ pc[current] = "u_deq"
    <3>1. 1 \in DOMAIN waiting /\ Head(waiting) = waiting[1]
      BY <1>6 DEF UWake, MutexInv, MutexTypeOK
    <3> QED
      BY <1>6, <3>1 DEF UWake, WaitersAreParked
  <2> QED
    BY <2>1 DEF LabelInv
<1> QED
  BY <1>3, <1>4, <1>5, <1>6 DEF MutexStep

\* Whoever waits has somebody to wait for.
LEMMA MutexKeepsWaker ==
    ASSUME MutexInv, WaitInv, ~KillOthers, MutexStep, ~LYield
    PROVE  WakerInv'
<1>1. /\ current \in Task /\ WakerInv /\ MutexInv
      /\ pc \in [Task -> MutexPC]
      /\ \A t \in Task : t # current => pc'[t] = pc[t]
  BY MutexRunner, MutexStepFrame
  DEF WaitInv, MutexFrame, MutexInv, MutexTypeOK, SchedTypes, Task
<1> USE <1>1 DEF At, Goto, SpinAcquire, SpinRelease, mutexVars, MutexHeld
<1>2. CASE CallLock \/ LSpin \/ LUnl \/ LRel \/ CallUnlock \/ USpin \/ URel
  <2>1. /\ waiting' = waiting /\ pc'[current] \notin {"l_freeze", "l_enq"}
        /\ pc[current] \in MutexHeld => pc'[current] \in MutexHeld
        /\ pc[current] # "u_deq"
    BY <1>2 DEF CallLock, LSpin, LUnl, LRel, CallUnlock, USpin, URel
  <2> QED
    BY <2>1 DEF WakerInv
<1>3. CASE LCheck
  BY <1>3 DEF LCheck, WakerInv, MutexInv, MutualExclusion
<1>4. CASE LTake \/ UClear
  BY <1>4 DEF LTake, UClear, WakerInv
<1>5. CASE LFreeze \/ LEnq
  BY <1>5 DEF LFreeze, LEnq, WakerInv
<1>6. CASE UWake
  BY <1>6 DEF UWake, WakerInv
<1>7. CASE UEmpty
  BY <1>7 DEF UEmpty, WakerInv, MutexInv, SpinlockOwned, SpinHeld
<1> QED
  BY <1>2, <1>3, <1>4, <1>5, <1>6, <1>7 DEF MutexStep

LEMMA WaitInvStep == MutexInv /\ WaitInv /\ [Next]_vars => WaitInv'
<1> SUFFICES ASSUME MutexInv, WaitInv, [Next]_vars, ~KillOthers PROVE WaitInv'
  BY DEF WaitInv
<1>0. CoreInv(MutexPC) /\ CountInv /\ SchedPC \subseteq MutexPC
  BY DEF WaitInv, MutexPC
<1>1. CASE [SchedNext]_schedVars /\ UNCHANGED mutexVars
  <2>1. CoreInv(MutexPC)' /\ CountInv'
    BY <1>0, <1>1, CoreInvStep, CountInvStep
  <2>2. ASSUME cpu = "up", NEW l, TaskSwitch(l), Switches(l) PROVE WaitInv'
    <3>1. \/ l = pc[current] \/ l = "te_unreachable"
          \/ l = "l_spin" /\ pc[current] = "l_yield"
      <4>1. pc[current] \in SchedPC \/ pc'[current] = pc[current]
        BY <1>1, SchedKeepsMutexLabels DEF MutexInv, MutexTypeOK, SchedTypes
      <4>2. pc'[current] = l
        BY <2>2 DEF TaskSwitch, Goto, MutexInv, MutexTypeOK, SchedTypes
      <4> QED
        BY <2>2, <4>1, <4>2 DEF Switches
    <3> QED
      BY <1>1, <2>1, <2>2, <3>1, SwitchKeepsWait
  <2>3. CASE cpu = "up" /\ PlainStep
    BY <1>1, <2>1, <2>3, PlainKeepsWait
  <2>4. CASE UNCHANGED schedVars
    BY <1>1, <2>1, <2>4
    DEF WaitInv, WaitersAreParked, LabelInv, LiveInv, WakerInv, schedVars,
        mutexVars, Started, Starting, Places
  <2> QED
    BY <1>0, <1>1, <2>2, <2>3, <2>4, SchedSteps
<1>2. CASE MutexStep
  <2>0. cpu = "up"
    BY <1>2, MutexRunner
  <2>1. CoreInv(MutexPC)' /\ CountInv'
    BY <1>2, MutexKeepsSched, MutexTypeStep DEF MutexInv
  <2>2. CASE LYield
    BY <2>0, <2>1, <2>2, MutexYield, SwitchKeepsWait DEF LYield, At
  <2>3. CASE ~LYield
    BY <1>2, <2>1, <2>3, MutexKeepsLive, MutexKeepsParked, MutexKeepsLabels,
       MutexKeepsWaker DEF WaitInv
  <2> QED
    BY <2>2, <2>3
<1> QED
  BY <1>1, <1>2 DEF Next, vars, Stopped

-----------------------------------------------------------------------------
\* The variables of the scheduler and the mutex always have their types.
THEOREM MutexTypeCorrect == Spec => []MutexTypeOK
<1>1. MutexInit => MutexTypeOK
  BY MutexInvInit DEF MutexInv
<1>2. MutexTypeOK /\ [Next]_vars => MutexTypeOK'
  BY MutexTypeStep
<1> QED
  BY <1>1, <1>2, PTL DEF Spec

\* Two tasks are never between mutex_lock and mutex_unlock together, and
\* mutex->locked tells exactly whether one is.
THEOREM MutexExcludes == Spec => []MutualExclusion
<1>1. MutexInv => MutualExclusion
  BY DEF MutexInv
<1> QED
  BY <1>1, MutexInvInit, MutexInvStep, PTL DEF Spec

\* The spinlock of the mutex has exactly one owner while it is taken.
THEOREM SpinlockHasOneOwner == Spec => []SpinlockOwned
<1>1. MutexInv => SpinlockOwned
  BY DEF MutexInv
<1> QED
  BY <1>1, MutexInvInit, MutexInvStep, PTL DEF Spec

\* MutexInv and WaitInv hold in every state the scheduler with a mutex reaches.
THEOREM MutexInvariant == Spec => [](MutexInv /\ WaitInv)
BY MutexInvInit, MutexInvStep, WaitInvInit, WaitInvStep, PTL DEF Spec

\* While tasks only terminate themselves, a waiter is in the queue of waiters
\* once, FROZEN, and cannot leave mutex_lock before mutex_unlock has woken it.
THEOREM MutexWaitersAreParked == Spec => []WaitersAreParked
<1>1. WaitInv => WaitersAreParked
  BY DEF WaitInv, WaitersAreParked
<1> QED
  BY <1>1, MutexInvariant, PTL

\* While tasks only terminate themselves, no task is lost but one that waits
\* in mutex_lock.
THEOREM MutexLosesOnlyWaiters == Spec => []LostOnlyInWait
<1>1. WaitInv => LostOnlyInWait
  BY DEF WaitInv, LostOnlyInWait, LiveInv, WaitLabels
<1> QED
  BY <1>1, MutexInvariant, PTL

\* num_tasks covers the live tasks also when they block on a mutex ...
THEOREM MutexCountsLiveTasks == Spec => []NumTasksCoversLive
<1>1. WaitInv => NumTasksCoversLive
  BY CountCoversLive DEF WaitInv, NumTasksCoversLive
<1> QED
  BY <1>1, MutexInvariant, PTL

\* ... and start_task never divides by zero.
THEOREM MutexNeverDividesByZero == Spec => []NoDivideError
<1>1. WaitInv => NoDivideError
  BY CountCoversLive DEF WaitInv, NoDivideError
<1> QED
  BY <1>1, MutexInvariant, PTL
=============================================================================
