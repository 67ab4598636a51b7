------------------------- MODULE TaskContextProofs -------------------------
(***************************************************************************)
(* No task loses its extended registers, and total_vtime covers the        *)
(* virtual times of the tasks, for any number of tasks.                    *)
(*                                                                         *)
(* The first invariant says where the values of a live task are.  With     *)
(* lazy saving they are in the processor for the owner, whether it runs or *)
(* not, and in the area for every other task; with eager saving the        *)
(* current task takes the place of the owner.  The boot thread writes      *)
(* registers before it is a task, and is never live after that.  A task    *)
(* that start_task has not counted yet is unborn, with a cleared area.     *)
(***************************************************************************)
EXTENDS TaskContext, FiniteSetTheorems, WellFoundedInduction, TLAPS

States == {"UNBORN", "IN_QUEUE", "RUNNING", "TERMINATED"}
Live(t) == tstate[t] \in {"IN_QUEUE", "RUNNING"}

ContextType ==
    /\ mode \in Modes
    /\ tstate \in [Task -> States]
    /\ current \in Task /\ owner \in Task
    /\ ts \in BOOLEAN
    /\ DOMAIN area = Task /\ DOMAIN wrote = Task

\* CR0.TS is set with lazy saving only.  Before main_loop the boot thread is
\* alone; then the current task and the owner have been started.
Phases ==
    /\ ts => mode = "FXSAVE_LAZY"
    /\ tstate[BootTask] \in {"UNBORN", "TERMINATED"}
    /\ phase = "boot" => /\ current = BootTask /\ owner = BootTask /\ ~ts
                         /\ tstate[BootTask] = "UNBORN"
    /\ phase # "boot" => /\ tstate[current] # "UNBORN"
                         /\ tstate[owner] # "UNBORN"
                         /\ tstate[BootTask] = "TERMINATED"

UnbornIsZero ==
    \A t \in Task : tstate[t] = "UNBORN" /\ t # BootTask =>
                        wrote[t] = Zero /\ area[t] = Zero

\* A task is started by one context, and its vtime is subtracted by one.
JobInv ==
    /\ job \in [Task -> Jobs]
    /\ \A c, t \in Task :
         /\ job[c] = <<"start", t>> => t # BootTask /\ tstate[t] = "UNBORN"
         /\ job[c] \in {<<"total", t>>, <<"num", t>>} => tstate[t] = "TERMINATED"
    /\ \A c, d, t \in Task :
         job[c] = job[d] /\ job[c] \in {<<"start", t>>, <<"total", t>>} => c = d

LazyPlaces ==
    mode = "FXSAVE_LAZY" =>
        /\ \A t \in Task : Live(t) /\ t # owner => area[t] = wrote[t]
        /\ Live(owner) => regs = wrote[owner]
        /\ ~ts => owner = current

EagerPlaces ==
    mode = "XSAVE_EAGER" =>
        /\ \A t \in Task : Live(t) /\ t # current => area[t] = wrote[t]
        /\ Live(current) => regs = wrote[current]

ContextInv ==
    ContextType /\ Phases /\ UnbornIsZero /\ JobInv /\ LazyPlaces /\ EagerPlaces

LEMMA JobParts ==
  /\ NoTask \notin Task /\ NoJob \in Jobs
  /\ \A t \in Task : \A k \in {"start", "total", "num"} :
        <<k, t>> \in Jobs /\ <<k, t>> # NoJob
  /\ \A j \in Jobs : \A k \in {"start", "total", "num"} :
        j[1] = k => j = <<k, j[2]>> /\ j[2] \in Task
  BY ContextAssumption DEF Jobs, NoJob, NoTask

\* A context takes up another job, and the states follow.
JobFits(me, j) ==
    /\ \A t \in Task :
         /\ j = <<"start", t>> => t # BootTask /\ tstate'[t] = "UNBORN"
         /\ j \in {<<"total", t>>, <<"num", t>>} => tstate'[t] = "TERMINATED"
         /\ j \in {<<"start", t>>, <<"total", t>>} => \A c \in Task \ {me} : job[c] # j
    /\ \A c \in Task \ {me}, t \in Task :
         /\ job[c] = <<"start", t>> => tstate'[t] = "UNBORN"
         /\ job[c] \in {<<"total", t>>, <<"num", t>>} => tstate'[t] = "TERMINATED"

LEMMA JobStep ==
  ASSUME JobInv, NEW me \in Task, NEW j \in Jobs, job' = [job EXCEPT ![me] = j],
         JobFits(me, j)
  PROVE  JobInv'
<1>1. job \in [Task -> Jobs] /\ job' \in [Task -> Jobs]
  BY DEF JobInv
<1>2. job'[me] = j /\ \A c \in Task \ {me} : job'[c] = job[c]
  BY <1>1
<1>3. ASSUME NEW c \in Task, NEW t \in Task
      PROVE  /\ job'[c] = <<"start", t>> => t # BootTask /\ tstate'[t] = "UNBORN"
             /\ job'[c] \in {<<"total", t>>, <<"num", t>>} => tstate'[t] = "TERMINATED"
  <2>1. CASE c = me
    BY <1>2, <2>1 DEF JobFits
  <2>2. CASE c # me
    BY <1>2, <2>2 DEF JobInv, JobFits
  <2> QED
    BY <2>1, <2>2
<1>4. ASSUME NEW c \in Task, NEW d \in Task, NEW t \in Task, job'[c] = job'[d],
             job'[c] \in {<<"start", t>>, <<"total", t>>}
      PROVE  c = d
  BY <1>2, <1>4 DEF JobInv, JobFits
<1> QED
  BY <1>1, <1>3, <1>4 DEF JobInv

LEMMA ContextInitInv == ContextInit => ContextInv
<1> SUFFICES ASSUME ContextInit PROVE ContextInv
  OBVIOUS
<1> USE ContextAssumption DEF ContextInit, Task, States
<1>1. ContextType
  BY DEF ContextType
<1>2. Phases
  BY DEF Phases
<1>3. UnbornIsZero /\ LazyPlaces /\ EagerPlaces
  BY DEF UnbornIsZero, LazyPlaces, EagerPlaces, Live
<1>4. JobInv
  BY JobParts DEF JobInv
<1> QED
  BY <1>1, <1>2, <1>3, <1>4 DEF ContextInv

LEMMA StartTaskInv ==
  ASSUME ContextInv, NEW w \in Workers, StartTask(w)
  PROVE  ContextInv'
<1> USE ContextAssumption DEF ContextInv, StartTask, Create
<1>1. w \in Task /\ w # BootTask /\ tstate[w] = "UNBORN" /\ ~Live(w)
  BY DEF Task, Live
<1>2. ContextType'
  BY <1>1 DEF ContextType, States
<1>3. Phases'
  BY <1>1 DEF Phases, ContextType, Task
<1>4. UnbornIsZero'
  BY <1>1 DEF UnbornIsZero, ContextType
<1>5. \A t \in Task : area'[t] = area[t]
  BY <1>1 DEF UnbornIsZero, ContextType
<1>6. LazyPlaces' /\ EagerPlaces'
  BY <1>5 DEF LazyPlaces, EagerPlaces, Live
<1>7. JobInv'
  <2>1. /\ JobInv /\ current \in Task /\ tstate' = tstate
        /\ job' = [job EXCEPT ![current] = <<"start", w>>]
        /\ \A c \in Task : job[c] # <<"start", w>>
    BY DEF ContextType
  <2>2. <<"start", w>> \in Jobs
    BY <1>1, JobParts
  <2>3. \A c \in Task, t \in Task :
          /\ job[c] = <<"start", t>> => tstate'[t] = "UNBORN"
          /\ job[c] \in {<<"total", t>>, <<"num", t>>} => tstate'[t] = "TERMINATED"
    BY <2>1 DEF JobInv
  <2> HIDE DEF ContextInv, StartTask, Create
  <2>4. JobFits(current, <<"start", w>>)
    BY <1>1, <2>1, <2>3 DEF JobFits
  <2> QED
    BY <2>1, <2>2, <2>4, JobStep
<1> QED
  BY <1>2, <1>3, <1>4, <1>6, <1>7

LEMMA StartCountInv == ASSUME ContextInv, StartCount PROVE ContextInv'
<1> DEFINE w == job[current][2]
<1>1. /\ current \in Task /\ job \in [Task -> Jobs] /\ job[current] = <<"start", w>>
      /\ w \in Task
  BY JobParts DEF ContextInv, ContextType, JobInv, StartCount
<1>2. /\ w # BootTask /\ tstate[w] = "UNBORN"
      /\ \A c \in Task : job[c] = <<"start", w>> => c = current
  BY <1>1 DEF ContextInv, JobInv
<1>3. /\ tstate' = [tstate EXCEPT ![w] = "IN_QUEUE"]
      /\ job' = [job EXCEPT ![current] = NoJob]
      /\ UNCHANGED <<mode, phase, current, extVars>>
  BY DEF StartCount
<1> HIDE DEF w
<1> USE ContextAssumption DEF ContextInv, extVars
<1>4. tstate \in [Task -> States] /\ \A t \in Task : t # w => tstate'[t] = tstate[t]
  BY <1>3 DEF ContextType
<1>5. tstate'[w] = "IN_QUEUE"
  BY <1>1, <1>4, <1>3
<1>6. ContextType'
  BY <1>3 DEF ContextType, States
<1>7. w # owner /\ w # current
  BY <1>2 DEF Phases, ContextType
<1>8. Phases'
  BY <1>2, <1>3, <1>4, <1>7 DEF Phases, ContextType, Task
<1>9. UnbornIsZero'
  BY <1>3, <1>4, <1>5 DEF UnbornIsZero
<1>10. area[w] = wrote[w]
  BY <1>1, <1>2 DEF UnbornIsZero
<1>11. LazyPlaces'
  BY <1>3, <1>4, <1>7, <1>10 DEF LazyPlaces, Live, ContextType
<1>12. EagerPlaces'
  BY <1>3, <1>4, <1>7, <1>10 DEF EagerPlaces, Live, ContextType
<1>13. JobInv'
  <2>1. JobInv
    OBVIOUS
  <2> HIDE DEF ContextInv, extVars
  <2>2. \A c \in Task \ {current}, t \in Task :
          /\ job[c] = <<"start", t>> => tstate'[t] = "UNBORN"
          /\ job[c] \in {<<"total", t>>, <<"num", t>>} => tstate'[t] = "TERMINATED"
    BY <1>2, <1>4, <2>1 DEF JobInv
  <2>3. NoJob \in Jobs /\ \A t \in Task : \A k \in {"start", "total", "num"} : NoJob # <<k, t>>
    BY JobParts
  <2>4. JobFits(current, NoJob)
    BY <2>2, <2>3 DEF JobFits
  <2> QED
    BY <1>1, <1>3, <2>1, <2>3, <2>4, JobStep
<1> QED
  BY <1>6, <1>8, <1>9, <1>11, <1>12, <1>13

LEMMA MainLoopInv == ASSUME ContextInv, MainLoop PROVE ContextInv'
<1> USE ContextAssumption DEF ContextInv, MainLoop, Create
<1>1. BootTask \in Task
  BY DEF Task
<1>2. ContextType'
  BY <1>1 DEF ContextType, States
<1>3. Phases'
  BY <1>1 DEF Phases, ContextType
<1>4. UnbornIsZero'
  BY <1>1 DEF UnbornIsZero, ContextType
<1>5. current' = BootTask /\ owner' = BootTask /\ ~Live(BootTask)' /\ ts' = ts /\ ~ts
  BY <1>1 DEF Phases, ContextType, Live
<1>6. \A t \in Task \ {BootTask} : /\ tstate'[t] = tstate[t] /\ area'[t] = area[t]
                                   /\ wrote'[t] = wrote[t]
  BY <1>1 DEF ContextType
<1>7. owner = BootTask /\ current = BootTask
  BY DEF Phases
<1>8. LazyPlaces'
  BY <1>5, <1>6, <1>7 DEF LazyPlaces, Live
<1>9. EagerPlaces'
  BY <1>5, <1>6, <1>7 DEF EagerPlaces, Live
<1>10. JobInv'
  <2>1. /\ JobInv /\ tstate[BootTask] = "UNBORN" /\ tstate'[BootTask] = "TERMINATED"
        /\ job' = [job EXCEPT ![BootTask] = <<"total", BootTask>>]
    BY <1>1 DEF ContextType
  <2>2. <<"total", BootTask>> \in Jobs
    BY <1>1, JobParts
  <2>3. \A c \in Task, t \in Task :
          /\ job[c] = <<"start", t>> => tstate'[t] = "UNBORN"
          /\ job[c] \in {<<"total", t>>, <<"num", t>>} =>
                t # BootTask /\ tstate'[t] = "TERMINATED"
    BY <1>6, <2>1 DEF JobInv
  <2> HIDE DEF ContextInv, MainLoop, Create
  <2>4. JobFits(BootTask, <<"total", BootTask>>)
    BY <1>1, <2>1, <2>3 DEF JobFits
  <2> QED
    BY <1>1, <2>1, <2>2, <2>4, JobStep
<1> QED
  BY <1>2, <1>3, <1>4, <1>8, <1>9, <1>10

LEMMA SwitchInv ==
  ASSUME ContextInv, NEW n \in Task, Switch(n)
  PROVE  ContextInv'
<1> USE ContextAssumption DEF ContextInv, Switch
<1>1. \A t \in Task : (tstate'[t] = "UNBORN" <=> tstate[t] = "UNBORN")
                      /\ (tstate'[t] = "TERMINATED" <=> tstate[t] = "TERMINATED")
                      /\ tstate'[t] \in States
  BY DEF Requeued, ContextType, States
<1>2. Live(n) /\ tstate' \in [Task -> States]
  BY DEF Requeued, ContextType, States, Live
<1>3. \A t \in Task : Live(t)' <=> Live(t)
  BY <1>1 DEF Live, ContextType, States
<1>4. ContextType'
  BY <1>2 DEF ContextType, SaveOnSwitch, Modes
<1>5. Phases'
  <2>1. ts' => mode' = "FXSAVE_LAZY"
    BY DEF Phases, SaveOnSwitch
  <2>2. BootTask \in Task /\ tstate'[n] # "UNBORN"
    BY <1>1, <1>2 DEF Task, Live, ContextType
  <2> QED
    BY <1>1, <2>1, <2>2 DEF Phases, ContextType
<1>6. UnbornIsZero' /\ JobInv'
  <2>1. current \in Task /\ tstate[current] # "UNBORN"
    BY DEF ContextType, Phases
  <2>2. \A t \in Task : t # current => area'[t] = area[t]
    BY DEF SaveOnSwitch, ContextType
  <2> QED
    BY <1>1, <2>1, <2>2 DEF UnbornIsZero, ContextType, JobInv
<1>7. LazyPlaces'
  BY <1>3 DEF LazyPlaces, SaveOnSwitch, RestoreOnSwitch, ContextType
<1>8. CASE mode = "XSAVE_EAGER"
  <2>1. area' = [area EXCEPT ![current] = regs] /\ regs' = area'[n] /\ current' = n
    BY <1>8 DEF SaveOnSwitch, RestoreOnSwitch
  <2>2. wrote' = wrote /\ mode' = mode
    OBVIOUS
  <2>3. \A t \in Task : Live(t) => area'[t] = wrote[t]
    BY <1>8, <2>1 DEF EagerPlaces, ContextType
  <2> QED
    BY <1>2, <1>3, <2>1, <2>2, <2>3, <1>4, <1>5, <1>6, <1>7 DEF EagerPlaces
<1>9. CASE mode # "XSAVE_EAGER"
  BY <1>4, <1>5, <1>6, <1>7, <1>9 DEF EagerPlaces
<1> QED
  BY <1>8, <1>9

LEMMA NmIsrInv == ASSUME ContextInv, NmIsr PROVE ContextInv'
<1> USE ContextAssumption DEF ContextInv, NmIsr
<1>1. ContextType'
  BY DEF ContextType
<1>2. Phases'
  BY DEF Phases
<1>4. \A t \in Task : Live(t)' <=> Live(t)
  BY DEF Live
<1>5. \A t \in Task : t # owner => area'[t] = area[t]
  BY DEF ContextType
<1>3. UnbornIsZero' /\ JobInv'
  BY <1>5 DEF UnbornIsZero, Phases, JobInv
<1>6. Live(owner) => area'[owner] = regs
  BY DEF ContextType, Live
<1>7. LazyPlaces'
  BY <1>4, <1>5, <1>6 DEF LazyPlaces, ContextType
<1>8. EagerPlaces'
  BY DEF EagerPlaces, Phases
<1> QED
  BY <1>1, <1>2, <1>3, <1>7, <1>8

LEMMA UseRegistersInv == ASSUME ContextInv, UseRegisters PROVE ContextInv'
<1> USE ContextAssumption DEF ContextInv, UseRegisters
<1>1. ContextType'
  BY DEF ContextType
<1>2. Phases'
  BY DEF Phases
<1>3. tstate[current] = "UNBORN" => current = BootTask
  BY DEF Phases
<1>4. UnbornIsZero' /\ JobInv'
  BY <1>3 DEF UnbornIsZero, ContextType, JobInv
<1>5. /\ wrote'[current] = regs'
      /\ \A t \in Task : t # current => wrote'[t] = wrote[t]
  BY DEF ContextType
<1>6. \A t \in Task : Live(t)' <=> Live(t)
  BY DEF Live
<1>7. LazyPlaces'
  BY <1>5, <1>6 DEF LazyPlaces, ContextType
<1>8. EagerPlaces'
  BY <1>5, <1>6 DEF EagerPlaces, ContextType
<1> QED
  BY <1>1, <1>2, <1>4, <1>7, <1>8

LEMMA TerminateTaskInv ==
  ASSUME ContextInv, NEW t \in Task, TerminateTask(t)
  PROVE  ContextInv'
<1> USE ContextAssumption DEF ContextInv, TerminateTask, extVars
<1>1. /\ tstate \in [Task -> States] /\ tstate' = [tstate EXCEPT ![t] = "TERMINATED"]
      /\ tstate[t] \in {"RUNNING", "IN_QUEUE"}
  BY DEF ContextType
<1>2. \A u \in Task : /\ Live(u)' => Live(u)
                      /\ tstate'[u] = "UNBORN" => tstate[u] = "UNBORN"
                      /\ tstate[u] = "UNBORN" => tstate'[u] = "UNBORN"
                      /\ tstate[u] = "TERMINATED" => tstate'[u] = "TERMINATED"
  <2> HIDE DEF ContextInv, TerminateTask, extVars
  <2> QED
    BY <1>1 DEF Live
<1>3. ContextType'
  BY DEF ContextType, States
<1>4. Phases'
  BY <1>2 DEF Phases, ContextType, Task
<1>5. UnbornIsZero'
  BY <1>2 DEF UnbornIsZero
<1>6. LazyPlaces'
  BY <1>2 DEF LazyPlaces, ContextType, Live
<1>7. EagerPlaces'
  BY <1>2 DEF EagerPlaces, ContextType, Live
<1>8. JobInv'
  <2>1. JobInv /\ current \in Task /\ job' = [job EXCEPT ![current] = <<"total", t>>]
    BY DEF ContextType
  <2>2. <<"total", t>> \in Jobs
    BY JobParts
  <2> HIDE DEF ContextInv, TerminateTask, extVars
  <2>3. tstate'[t] = "TERMINATED" /\ \A u \in Task : u # t => tstate'[u] = tstate[u]
    BY <1>1
  <2>4. \A c \in Task, u \in Task :
          /\ job[c] = <<"start", u>> => tstate'[u] = "UNBORN"
          /\ job[c] \in {<<"total", u>>, <<"num", u>>} =>
                u # t /\ tstate'[u] = "TERMINATED"
    BY <1>1, <2>1, <2>3 DEF JobInv
  <2>5. JobFits(current, <<"total", t>>)
    BY <2>1, <2>3, <2>4 DEF JobFits
  <2> QED
    BY <2>1, <2>2, <2>5, JobStep
<1> QED
  BY <1>3, <1>4, <1>5, <1>6, <1>7, <1>8

\* Steps that leave the registers and the states alone.
LEMMA ContextStutterInv ==
  ASSUME ContextInv, UNCHANGED <<mode, phase, tstate, current, extVars>>, JobInv'
  PROVE  ContextInv'
  BY DEF ContextInv, ContextType, Phases, UnbornIsZero, LazyPlaces, EagerPlaces,
         Live, extVars

LEMMA TerminateTotalInv ==
  ASSUME ContextInv, TerminateTotal
  PROVE  /\ ContextInv'
         /\ \E t \in Task : /\ job[current] = <<"total", t>> /\ tstate[t] = "TERMINATED"
                            /\ job' = [job EXCEPT ![current] = <<"num", t>>]
                            /\ total' = (total + (VtimeMod - vtime[t])) % VtimeMod
<1> DEFINE t == job[current][2]
<1>1. /\ JobInv /\ current \in Task /\ t \in Task /\ job[current] = <<"total", t>>
      /\ job' = [job EXCEPT ![current] = <<"num", t>>] /\ tstate' = tstate
      /\ total' = (total + (VtimeMod - vtime[t])) % VtimeMod
  BY JobParts DEF ContextInv, ContextType, JobInv, TerminateTotal
<1> HIDE DEF t
<1>2. <<"num", t>> \in Jobs /\ tstate[t] = "TERMINATED"
  BY <1>1, JobParts DEF JobInv
<1>3. \A c \in Task, u \in Task :
        /\ job[c] = <<"start", u>> => tstate'[u] = "UNBORN"
        /\ job[c] \in {<<"total", u>>, <<"num", u>>} => tstate'[u] = "TERMINATED"
  BY <1>1 DEF JobInv
<1>4. JobInv'
  <2>1. JobFits(current, <<"num", t>>)
    BY <1>1, <1>2, <1>3 DEF JobFits
  <2> QED
    BY <1>1, <1>2, <2>1, JobStep
<1> QED
  BY <1>1, <1>2, <1>4, ContextStutterInv DEF TerminateTotal

LEMMA TerminateNumInv == ASSUME ContextInv, TerminateNum PROVE ContextInv'
<1>1. /\ JobInv /\ current \in Task /\ job' = [job EXCEPT ![current] = NoJob]
      /\ tstate' = tstate
  BY DEF ContextInv, ContextType, TerminateNum
<1>2. NoJob \in Jobs /\ \A t \in Task : \A k \in {"start", "total", "num"} : NoJob # <<k, t>>
  BY JobParts
<1>3. \A c \in Task, u \in Task :
        /\ job[c] = <<"start", u>> => tstate'[u] = "UNBORN"
        /\ job[c] \in {<<"total", u>>, <<"num", u>>} => tstate'[u] = "TERMINATED"
  BY <1>1 DEF JobInv
<1>4. JobInv'
  <2>1. JobFits(current, NoJob)
    BY <1>1, <1>2, <1>3 DEF JobFits
  <2> QED
    BY <1>1, <1>2, <2>1, JobStep
<1> QED
  BY <1>4, ContextStutterInv DEF TerminateNum

LEMMA ContextStepInv == ContextInv /\ [ContextNext]_contextVars => ContextInv'
<1> SUFFICES ASSUME ContextInv, [ContextNext]_contextVars PROVE ContextInv'
  OBVIOUS
<1>1. ASSUME NEW w \in Workers, StartTask(w) PROVE ContextInv'
  BY <1>1, StartTaskInv
<1>2. CASE MainLoop
  BY <1>2, MainLoopInv
<1>3. ASSUME NEW n \in Task, Switch(n) PROVE ContextInv'
  BY <1>3, SwitchInv
<1>4. CASE NmIsr
  BY <1>4, NmIsrInv
<1>5. CASE UseRegisters
  BY <1>5, UseRegistersInv
<1>6. ASSUME NEW t \in Task, TerminateTask(t) PROVE ContextInv'
  BY <1>6, TerminateTaskInv
<1>7. CASE TerminateTotal
  BY <1>7, TerminateTotalInv
<1>8. CASE TerminateNum
  BY <1>8, TerminateNumInv
<1>9. CASE StartCount
  BY <1>9, StartCountInv
<1>10. CASE UNCHANGED contextVars
  BY <1>10, ContextStutterInv DEF contextVars, ContextInv, JobInv
<1> QED
  BY <1>1, <1>2, <1>3, <1>4, <1>5, <1>6, <1>7, <1>8, <1>9, <1>10 DEF ContextNext

\* task_switch_isr and save_extended_state_isr give every running task the
\* extended registers it wrote, in the lazy and in the eager mode, for any
\* number of tasks that start, run and are terminated in any order.
THEOREM RegistersAreFound == ContextSpec => []FindsOwnRegisters
<1>1. ContextInit => ContextInv
  BY ContextInitInv
<1>2. ContextInv /\ [ContextNext]_contextVars => ContextInv'
  BY ContextStepInv
<1>3. ContextInv => FindsOwnRegisters
  BY DEF ContextInv, ContextType, LazyPlaces, EagerPlaces, Live, Modes, FindsOwnRegisters
<1> QED
  BY <1>1, <1>2, <1>3, PTL DEF ContextSpec
-----------------------------------------------------------------------------
(***************************************************************************)
(* Induction, with a set in the place of a predicate                       *)
(***************************************************************************)

LEMMA SetOfNat ==
  ASSUME NEW N, N \subseteq Nat, 0 \in N, \A j \in N : j + 1 \in N
  PROVE  N = Nat
<1> SUFFICES ASSUME Nat \ N # {} PROVE FALSE
  OBVIOUS
<1>1. PICK m \in Nat \ N : \A z \in Nat \ N : ~(<<z, m>> \in OpToRel(<, Nat))
  BY WFMin, NatLessThanWellFounded, Zenon
<1>2. m \in Nat /\ m # 0 /\ m - 1 \in Nat /\ m - 1 < m /\ (m - 1) + 1 = m
  OBVIOUS
<1>3. m - 1 \notin N
  BY <1>2
<1>4. <<m - 1, m>> \in OpToRel(<, Nat)
  BY <1>2 DEF OpToRel
<1> QED
  BY <1>1, <1>2, <1>3, <1>4, Zenon

-----------------------------------------------------------------------------
(***************************************************************************)
(* The sum of a function over a finite set                                 *)
(***************************************************************************)

\* The element MapThenSumSet adds next, and the equation it is defined by.
Pick(s) == CHOOSE e \in s : TRUE
SumStep(f, g, s) == IF s = {} THEN 0 ELSE f[Pick(s)] + g[s \ {Pick(s)}]
Sums(f, S, g) == g = [s \in SUBSET S |-> SumStep(f, g, s)]
SumOf(f, S) == MapThenSumSet(LAMBDA t : f[t], S)

LEMMA PickOne ==
  ASSUME NEW S, IsFiniteSet(S)
  PROVE  \A s \in SUBSET S :
            /\ Cardinality(s) \in Nat
            /\ Cardinality(s) = 0 <=> s = {}
            /\ s # {} => /\ Pick(s) \in s /\ s \ {Pick(s)} \in SUBSET S
                         /\ Cardinality(s \ {Pick(s)}) = Cardinality(s) - 1
<1> SUFFICES ASSUME NEW s \in SUBSET S
             PROVE  /\ Cardinality(s) \in Nat
                    /\ Cardinality(s) = 0 <=> s = {}
                    /\ s # {} => /\ Pick(s) \in s /\ s \ {Pick(s)} \in SUBSET S
                                 /\ Cardinality(s \ {Pick(s)}) = Cardinality(s) - 1
  OBVIOUS
<1>1. IsFiniteSet(s)
  BY FS_Subset
<1>2. s # {} => Pick(s) \in s
  BY DEF Pick
<1> QED
  BY <1>1, <1>2, FS_CardinalityType, FS_EmptySet, FS_RemoveElement

LEMMA FiniteSubsets ==
  ASSUME NEW S, IsFiniteSet(S), NEW G, {} \in G,
         \A s \in SUBSET S : s # {} /\ s \ {Pick(s)} \in G => s \in G
  PROVE  \A s \in SUBSET S : s \in G
<1> DEFINE N == {j \in Nat : \A s \in SUBSET S : Cardinality(s) <= j => s \in G}
<1>0. \A s \in SUBSET S : Cardinality(s) \in Nat /\ (Cardinality(s) = 0 <=> s = {})
  BY PickOne
<1>1. 0 \in N
  BY <1>0
<1>2. ASSUME NEW j \in N PROVE j + 1 \in N
  <2>1. ASSUME NEW s \in SUBSET S, Cardinality(s) <= j + 1 PROVE s \in G
    <3>1. CASE s = {}
      BY <3>1
    <3>2. CASE s # {}
      <4>1. s \ {Pick(s)} \in SUBSET S /\ Cardinality(s \ {Pick(s)}) <= j
        BY <2>1, <3>2, PickOne
      <4> QED
        BY <3>2, <4>1
    <3> QED
      BY <3>1, <3>2
  <2> QED
    BY <2>1
<1>3. N = Nat
  <2> HIDE DEF N
  <2>1. N \subseteq Nat
    BY DEF N
  <2> QED
    BY <1>1, <1>2, <2>1, SetOfNat
<1> QED
  BY <1>0, <1>3

LEMMA SumExists ==
  ASSUME NEW S, IsFiniteSet(S), NEW f \in [S -> Int]
  PROVE  \E g : Sums(f, S, g)
<1> DEFINE Upto(g, j) == \A s \in SUBSET S : Cardinality(s) <= j => g[s] = SumStep(f, g, s)
           N == {j \in Nat : \E g \in [SUBSET S -> Int] : Upto(g, j)}
<1>1. 0 \in N
  <2> DEFINE g == [s \in SUBSET S |-> 0]
  <2>1. ASSUME NEW s \in SUBSET S, Cardinality(s) <= 0 PROVE s = {}
    <3>1. Cardinality(s) \in Nat /\ (Cardinality(s) = 0 <=> s = {})
      BY PickOne
    <3> QED
      BY <2>1, <3>1
  <2>2. g \in [SUBSET S -> Int] /\ Upto(g, 0)
    BY <2>1 DEF SumStep
  <2> HIDE DEF g
  <2> QED
    BY <2>2
<1>2. ASSUME NEW j \in N PROVE j + 1 \in N
  <2>1. PICK g \in [SUBSET S -> Int] : Upto(g, j)
    BY <1>2
  <2> DEFINE h == [s \in SUBSET S |-> SumStep(f, g, s)]
  <2>2. ASSUME NEW s \in SUBSET S PROVE SumStep(f, g, s) \in Int
    <3>1. CASE s = {}
      BY <3>1 DEF SumStep
    <3>2. CASE s # {}
      <4>1. Pick(s) \in S /\ s \ {Pick(s)} \in SUBSET S
        BY <3>2, PickOne
      <4>2. f[Pick(s)] \in Int /\ g[s \ {Pick(s)}] \in Int
        BY <4>1
      <4> QED
        BY <3>2, <4>2 DEF SumStep
    <3> QED
      BY <3>1, <3>2
  <2>3. ASSUME NEW s \in SUBSET S, Cardinality(s) <= j + 1 PROVE h[s] = SumStep(f, h, s)
    <3>1. CASE s = {}
      BY <3>1 DEF SumStep
    <3>2. CASE s # {}
      <4> DEFINE r == s \ {Pick(s)}
      <4>1. r \in SUBSET S /\ Cardinality(r) <= j
        BY <2>3, <3>2, PickOne
      <4>2. h[r] = g[r]
        BY <2>1, <4>1
      <4>3. h[s] = f[Pick(s)] + g[r]
        BY <3>2 DEF SumStep
      <4> HIDE DEF h
      <4> QED
        BY <3>2, <4>2, <4>3 DEF SumStep
    <3> QED
      BY <3>1, <3>2
  <2>4. h \in [SUBSET S -> Int]
    BY <2>2
  <2> HIDE DEF h
  <2> QED
    BY <2>3, <2>4
<1>3. N = Nat
  <2> HIDE DEF N
  <2>1. N \subseteq Nat
    BY DEF N
  <2> QED
    BY <1>1, <1>2, <2>1, SetOfNat
<1>4. PICK g \in [SUBSET S -> Int] : Upto(g, Cardinality(S))
  BY <1>3, FS_CardinalityType
<1>5. \A s \in SUBSET S : Cardinality(s) <= Cardinality(S)
  BY FS_Subset
<1> QED
  BY <1>4, <1>5 DEF Sums

LEMMA SumUnfolds ==
  ASSUME NEW S, IsFiniteSet(S), NEW f \in [S -> Int]
  PROVE  \E g : Sums(f, S, g) /\ SumOf(f, S) = g[S]
<1> DEFINE it == CHOOSE g : Sums(f, S, g)
<1>1. SumOf(f, S) = it[S]
  BY DEF SumOf, MapThenSumSet, MapThenFoldSet, Sums, SumStep, Pick
<1>2. Sums(f, S, it)
  BY SumExists
<1> QED
  BY <1>1, <1>2

\* The sum follows a change of the function at one place.
LEMMA SumUpdate ==
  ASSUME NEW S, IsFiniteSet(S), NEW f \in [S -> Int], NEW e \in S, NEW v \in Int
  PROVE  /\ SumOf(f, S) \in Int
         /\ SumOf([f EXCEPT ![e] = v], S) = SumOf(f, S) + (v - f[e])
<1> DEFINE F == [f EXCEPT ![e] = v]
           d == v - f[e]
<1>0. F \in [S -> Int] /\ F[e] = f[e] + d /\ d \in Int /\ \A t \in S : t # e => F[t] = f[t]
  OBVIOUS
<1>1. PICK g : Sums(f, S, g) /\ SumOf(f, S) = g[S]
  BY SumUnfolds
<1>2. PICK h : Sums(F, S, h) /\ SumOf(F, S) = h[S]
  BY <1>0, SumUnfolds
<1>3. \A s \in SUBSET S : g[s] = SumStep(f, g, s) /\ h[s] = SumStep(F, h, s)
  BY <1>1, <1>2 DEF Sums
<1> HIDE DEF F, d
<1> DEFINE G == {s \in SUBSET S : g[s] \in Int /\ h[s] = g[s] + (IF e \in s THEN d ELSE 0)}
<1>4. {} \in G
  <2>1. g[{}] = 0 /\ h[{}] = 0
    BY <1>3 DEF SumStep
  <2> QED
    BY <2>1
<1>5. ASSUME NEW s \in SUBSET S, s # {}, s \ {Pick(s)} \in G PROVE s \in G
  <2> DEFINE t == Pick(s)
             r == s \ {t}
  <2>1. t \in s /\ t \in S
    BY <1>5, PickOne
  <2>2. g[s] = f[t] + g[r] /\ h[s] = F[t] + h[r]
    BY <1>3, <1>5 DEF SumStep
  <2>3. /\ g[r] \in Int /\ h[r] = g[r] + (IF e \in r THEN d ELSE 0)
        /\ f[t] \in Int /\ F[t] = f[t] + (IF t = e THEN d ELSE 0)
    BY <1>0, <1>5, <2>1
  <2>4. e \in s <=> e \in r \/ t = e
    BY <2>1
  <2>5. ~(e \in r /\ t = e)
    OBVIOUS
  <2> HIDE DEF t, r
  <2> QED
    BY <1>0, <2>2, <2>3, <2>4, <2>5
<1>6. S \in G
  <2> HIDE DEF G
  <2> QED
    BY <1>4, <1>5, FiniteSubsets
<1> QED
  BY <1>0, <1>1, <1>2, <1>6 DEF F, d

LEMMA SumOfZeros ==
  ASSUME NEW S, IsFiniteSet(S) PROVE SumOf([t \in S |-> 0], S) = 0
<1> DEFINE f == [t \in S |-> 0]
<1>1. PICK g : Sums(f, S, g) /\ SumOf(f, S) = g[S]
  BY SumUnfolds
<1>2. \A s \in SUBSET S : g[s] = SumStep(f, g, s)
  BY <1>1 DEF Sums
<1> DEFINE G == {s \in SUBSET S : g[s] = 0}
<1>3. {} \in G
  BY <1>2 DEF SumStep
<1>4. ASSUME NEW s \in SUBSET S, s # {}, s \ {Pick(s)} \in G PROVE s \in G
  <2>1. Pick(s) \in S
    BY <1>4, PickOne
  <2> QED
    BY <1>2, <1>4, <2>1 DEF SumStep
<1>5. S \in G
  <2> HIDE DEF G
  <2> QED
    BY <1>3, <1>4, FiniteSubsets
<1> QED
  BY <1>1, <1>5
-----------------------------------------------------------------------------
(***************************************************************************)
(* The virtual time                                                        *)
(*                                                                         *)
(* total_vtime is a remainder, so the invariant keeps the multiple of      *)
(* VtimeMod by which it has wrapped below zero.  It wraps back only when   *)
(* more has been charged than what is missing, and as long as the charges  *)
(* themselves stay below VtimeMod that is no further than zero.            *)
(***************************************************************************)

Multiples == {j * VtimeMod : j \in Nat}

Covers(K) ==
    /\ total - K <= used
    /\ SumOf(Owed, Task) + K <= total + given

VtimeInv ==
    /\ vtime \in [Task -> 0..(VtimeMod - 1)]
    /\ total \in 0..(VtimeMod - 1) /\ num \in Nat
    /\ given \in Nat /\ used \in Nat /\ used < VtimeMod
    /\ \E K \in Multiples : Covers(K)

TimeInv == ContextInv /\ VtimeInv

LEMMA TaskFinite == IsFiniteSet(Task)
  BY ContextAssumption, FS_AddElement DEF Task

LEMMA MultiplesStep ==
  /\ 0 \in Multiples
  /\ \A K \in Multiples : /\ K \in Nat /\ K + VtimeMod \in Multiples
                          /\ K # 0 => K - VtimeMod \in Multiples
<1> DEFINE M == VtimeMod
<1>1. M \in Nat /\ M # 0
  BY ContextAssumption
<1> HIDE DEF M
<1>2. 0 * M = 0
  BY <1>1
<1>3. ASSUME NEW j \in Nat PROVE j * M \in Nat /\ (j + 1) * M = j * M + M
  BY <1>1
<1>4. ASSUME NEW j \in Nat, j * M # 0 PROVE j - 1 \in Nat /\ (j - 1) * M = j * M - M
  <2>1. j # 0
    BY <1>2, <1>4
  <2> QED
    BY <1>1, <2>1
<1>5. \A j \in Nat : j + 1 \in Nat
  OBVIOUS
<1>6. Multiples = {j * M : j \in Nat}
  BY DEF Multiples, M
<1>7. 0 \in Multiples
  BY <1>2, <1>6
<1>8. ASSUME NEW K \in Multiples
      PROVE  K \in Nat /\ K + M \in Multiples /\ (K # 0 => K - M \in Multiples)
  <2>1. PICK j \in Nat : K = j * M
    BY <1>6
  <2> QED
    BY <1>3, <1>4, <1>5, <1>6, <2>1
<1> QED
  BY <1>7, <1>8 DEF M

LEMMA OwedType ==
  ASSUME VtimeInv
  PROVE  Owed \in [Task -> Int] /\ SumOf(Owed, Task) \in Int
         /\ \A t \in Task : Owed[t] \in Nat
<1>1. /\ Owed \in [Task -> Int] /\ \A t \in Task : Owed[t] \in Nat
  BY ContextAssumption DEF Owed, VtimeInv
<1>2. BootTask \in Task
  BY DEF Task
<1> QED
  BY <1>1, <1>2, TaskFinite, SumUpdate

\* The sum follows the place where what is owed changes.
LEMMA OwedStep ==
  ASSUME VtimeInv, NEW t \in Task, NEW v \in Int, Owed'[t] = v,
         \A u \in Task : u # t => Owed'[u] = Owed[u]
  PROVE  SumOf(Owed, Task)' = SumOf(Owed, Task) + (v - Owed[t])
<1>1. Owed \in [Task -> Int]
  BY OwedType
<1>2. Owed' = [Owed EXCEPT ![t] = v]
  <2>1. Owed' = [u \in Task |-> Owed'[u]]
    BY DEF Owed
  <2> QED
    BY <1>1, <2>1
<1>3. SumOf(Owed, Task)' = SumOf(Owed', Task)
  BY DEF SumOf, MapThenSumSet, MapThenFoldSet
<1>4. SumOf([Owed EXCEPT ![t] = v], Task) = SumOf(Owed, Task) + (v - Owed[t])
  BY <1>1, TaskFinite, SumUpdate
<1> QED
  BY <1>2, <1>3, <1>4

LEMMA TimeInitInv == ContextInit => TimeInv
<1> SUFFICES ASSUME ContextInit PROVE TimeInv
  OBVIOUS
<1>1. ContextInv
  BY ContextInitInv
<1>2. Owed = [t \in Task |-> 0]
  BY DEF ContextInit, Owed
<1>3. SumOf(Owed, Task) = 0
  BY <1>2, TaskFinite, SumOfZeros
<1>4. Covers(0)
  BY <1>3 DEF ContextInit, Covers
<1>5. VtimeInv
  BY <1>4, MultiplesStep, ContextAssumption DEF ContextInit, VtimeInv
<1> QED
  BY <1>1, <1>5 DEF TimeInv

\* What a step does to the tasks that count.
Kept(t) == Counts(t)' <=> Counts(t)

LEMMA StartTaskCounts ==
  ASSUME ContextInv, NEW w \in Workers, StartTask(w)
  PROVE  w \in Task /\ ~Counts(w) /\ Counts(w)' /\ \A u \in Task : u # w => Kept(u)
<1>1. /\ w \in Task /\ current \in Task /\ job \in [Task -> Jobs] /\ tstate' = tstate
      /\ tstate[w] = "UNBORN" /\ job[current] = NoJob
      /\ job' = [job EXCEPT ![current] = <<"start", w>>]
      /\ \A c \in Task : job[c] # <<"start", w>> /\ job[c] # <<"total", w>>
  BY DEF ContextInv, ContextType, JobInv, StartTask, Create, Task
<1>2. job'[current] = <<"start", w>> /\ \A c \in Task : c # current => job'[c] = job[c]
  BY <1>1
<1>3. \A u \in Task : job[current] # <<"start", u>> /\ job[current] # <<"total", u>>
  BY <1>1, JobParts
<1> QED
  BY <1>1, <1>2, <1>3 DEF Counts, Kept

LEMMA MainLoopCounts ==
  ASSUME ContextInv, MainLoop
  PROVE  /\ BootTask \in Task /\ ~Counts(BootTask) /\ Counts(BootTask)'
         /\ \A u \in Task : u # BootTask => Kept(u)
<1>1. /\ BootTask \in Task /\ job \in [Task -> Jobs] /\ tstate \in [Task -> States]
      /\ tstate' = [tstate EXCEPT ![BootTask] = "TERMINATED"]
      /\ tstate[BootTask] = "UNBORN" /\ job[BootTask] = NoJob
      /\ job' = [job EXCEPT ![BootTask] = <<"total", BootTask>>]
      /\ \A c \in Task : job[c] # <<"start", BootTask>> /\ job[c] # <<"total", BootTask>>
  BY DEF ContextInv, ContextType, Phases, JobInv, MainLoop, Create, Task
<1>2. /\ job'[BootTask] = <<"total", BootTask>>
      /\ \A c \in Task : c # BootTask => job'[c] = job[c] /\ tstate'[c] = tstate[c]
  BY <1>1
<1>3. \A u \in Task : job[BootTask] # <<"start", u>> /\ job[BootTask] # <<"total", u>>
  BY <1>1, JobParts
<1> QED
  BY <1>1, <1>2, <1>3 DEF Counts, Kept

LEMMA StartCountCounts ==
  ASSUME ContextInv, StartCount PROVE \A u \in Task : Kept(u)
<1> DEFINE w == job[current][2]
<1>1. /\ current \in Task /\ job \in [Task -> Jobs] /\ job[current] = <<"start", w>>
      /\ w \in Task /\ tstate \in [Task -> States]
      /\ tstate' = [tstate EXCEPT ![w] = "IN_QUEUE"]
      /\ job' = [job EXCEPT ![current] = NoJob]
  BY JobParts DEF ContextInv, ContextType, JobInv, StartCount
<1> HIDE DEF w
<1>2. /\ \A c \in Task : c # current => job'[c] = job[c]
      /\ \A u \in Task : u # w => tstate'[u] = tstate[u]
      /\ tstate'[w] = "IN_QUEUE" /\ job'[current] = NoJob
  BY <1>1
<1>3. \A u \in Task : job'[current] # <<"start", u>> /\ job'[current] # <<"total", u>>
  BY <1>2, JobParts
<1> QED
  BY <1>1, <1>2, <1>3 DEF Counts, Kept

LEMMA TerminateTaskCounts ==
  ASSUME ContextInv, NEW t \in Task, TerminateTask(t) PROVE \A u \in Task : Kept(u)
<1>1. /\ current \in Task /\ job \in [Task -> Jobs] /\ job[current] = NoJob
      /\ tstate \in [Task -> States] /\ tstate[t] \in {"RUNNING", "IN_QUEUE"}
      /\ tstate' = [tstate EXCEPT ![t] = "TERMINATED"]
      /\ job' = [job EXCEPT ![current] = <<"total", t>>]
  BY DEF ContextInv, ContextType, JobInv, TerminateTask
<1>2. /\ \A c \in Task : c # current => job'[c] = job[c]
      /\ \A u \in Task : u # t => tstate'[u] = tstate[u]
      /\ job'[current] = <<"total", t>>
  BY <1>1
<1>3. \A u \in Task : job[current] # <<"start", u>> /\ job[current] # <<"total", u>>
  BY <1>1, JobParts
<1> QED
  BY <1>1, <1>2, <1>3 DEF Counts, Kept

LEMMA TerminateTotalCounts ==
  ASSUME ContextInv, NEW t \in Task, job[current] = <<"total", t>>,
         tstate[t] = "TERMINATED", tstate' = tstate,
         job' = [job EXCEPT ![current] = <<"num", t>>]
  PROVE  Counts(t) /\ ~Counts(t)' /\ \A u \in Task : u # t => Kept(u)
<1>1. current \in Task /\ job \in [Task -> Jobs]
  BY DEF ContextInv, ContextType, JobInv
<1>2. /\ \A c \in Task : c # current => job'[c] = job[c]
      /\ job'[current] = <<"num", t>>
  BY <1>1
<1>3. \A c \in Task : /\ job[c] = <<"total", t>> => c = current
                      /\ job[c] # <<"start", t>>
  BY <1>1 DEF ContextInv, JobInv
<1>4. \A u \in Task : /\ job'[current] # <<"start", u>> /\ job'[current] # <<"total", u>>
                      /\ u # t => job[current] # <<"start", u>> /\ job[current] # <<"total", u>>
  BY <1>2
<1>5. Counts(t)
  BY <1>1 DEF Counts
<1>6. ~Counts(t)'
  <2>1. ~(tstate'[t] \in {"RUNNING", "IN_QUEUE"})
    OBVIOUS
  <2>2. ASSUME NEW c \in Task PROVE job'[c] # <<"start", t>> /\ job'[c] # <<"total", t>>
    <3>1. CASE c = current
      BY <1>4, <3>1
    <3>2. CASE c # current
      BY <1>2, <1>3, <3>2
    <3> QED
      BY <3>1, <3>2
  <2> QED
    BY <2>1, <2>2 DEF Counts
<1>7. \A u \in Task : u # t => Kept(u)
  BY <1>1, <1>2, <1>4 DEF Counts, Kept
<1> QED
  BY <1>5, <1>6, <1>7

LEMMA TerminateNumCounts ==
  ASSUME ContextInv, TerminateNum PROVE \A u \in Task : Kept(u)
<1>1. /\ current \in Task /\ job \in [Task -> Jobs] /\ job[current][1] = "num"
      /\ tstate' = tstate /\ job' = [job EXCEPT ![current] = NoJob]
  BY DEF ContextInv, ContextType, JobInv, TerminateNum
<1>2. /\ \A c \in Task : c # current => job'[c] = job[c]
      /\ job'[current] = NoJob
  BY <1>1
<1>3. \A u \in Task : /\ job[current] # <<"start", u>> /\ job[current] # <<"total", u>>
                      /\ job'[current] # <<"start", u>> /\ job'[current] # <<"total", u>>
  <2>1. job[current] = <<"num", job[current][2]>>
    BY <1>1, JobParts
  <2>2. \A u \in Task : NoJob # <<"start", u>> /\ NoJob # <<"total", u>>
    BY JobParts
  <2> QED
    BY <1>2, <2>1, <2>2
<1> QED
  BY <1>1, <1>2, <1>3 DEF Counts, Kept

\* The places that change total_vtime or a virtual time.
LEMMA CreateVtime ==
  ASSUME TimeInv, NEW t \in Task, Create(t), num' \in Nat,
         ~Counts(t), Counts(t)', \A u \in Task : u # t => Kept(u)
  PROVE  VtimeInv'
<1> DEFINE S == SumOf(Owed, Task)
<1>1. StartVtime \in 0..total
  <2>1. total \in Nat /\ num \in Nat
    BY ContextAssumption DEF TimeInv, VtimeInv
  <2>2. num # 0 => total \div num \in 0..total
    BY <2>1
  <2> QED
    BY <2>1, <2>2 DEF StartVtime
<1>2. /\ total \in 0..(VtimeMod - 1) /\ given \in Nat /\ used \in Nat /\ used < VtimeMod
      /\ vtime \in [Task -> 0..(VtimeMod - 1)] /\ VtimeMod \in Nat
      /\ total' = total /\ given' = given + StartVtime /\ used' = used
      /\ vtime' = [vtime EXCEPT ![t] = StartVtime]
  BY ContextAssumption DEF TimeInv, VtimeInv, Create
<1>3. StartVtime \in 0..(VtimeMod - 1)
  BY <1>1, <1>2
<1>4. vtime' \in [Task -> 0..(VtimeMod - 1)] /\ vtime'[t] = StartVtime
  BY <1>2, <1>3
<1>5. /\ Owed[t] = 0 /\ Owed'[t] = StartVtime
      /\ \A u \in Task : u # t => Owed'[u] = Owed[u]
  BY <1>2, <1>4 DEF Owed, Kept
<1>6. S \in Int /\ S' = S + StartVtime
  <2>1. VtimeInv /\ StartVtime \in Int
    BY <1>3 DEF TimeInv
  <2>2. S \in Int /\ S' = S + (StartVtime - 0)
    BY <1>5, <2>1, OwedType, OwedStep
  <2> QED
    BY <2>1, <2>2
<1> HIDE DEF S
<1>7. PICK K \in Multiples : total - K <= used /\ S + K <= total + given
  BY DEF TimeInv, VtimeInv, Covers, S
<1>8. K \in Nat
  BY MultiplesStep
<1>9. total' - K <= used' /\ S' + K <= total' + given'
  BY <1>1, <1>2, <1>3, <1>6, <1>7, <1>8
<1>10. Covers(K)'
  BY <1>9 DEF Covers, S
<1>11. given' \in Nat
  BY <1>2, <1>3
<1> QED
  BY <1>2, <1>4, <1>10, <1>11 DEF VtimeInv, Multiples

LEMMA ChargeVtime ==
  ASSUME TimeInv, NEW t \in Task, Charge(t), \A u \in Task : Kept(u)
  PROVE  VtimeInv'
<1> DEFINE S == SumOf(Owed, Task)
<1>1. PICK d \in Cycles : /\ vtime' = [vtime EXCEPT ![t] = (vtime[t] + d) % VtimeMod]
                          /\ total' = (total + d) % VtimeMod /\ used + d < VtimeMod
                          /\ used' = used + d /\ given' = given /\ num' = num
  BY DEF Charge
<1>2. /\ total \in 0..(VtimeMod - 1) /\ given \in Nat /\ used \in Nat
      /\ vtime \in [Task -> 0..(VtimeMod - 1)] /\ VtimeMod \in Nat /\ VtimeMod # 0
      /\ d \in Nat /\ vtime[t] \in 0..(VtimeMod - 1) /\ num \in Nat
  BY ContextAssumption DEF TimeInv, VtimeInv
<1>3. /\ total' \in {total + d, total + d - VtimeMod}
      /\ total' = total + d - VtimeMod => total + d >= VtimeMod
      /\ total' \in 0..(VtimeMod - 1)
  BY <1>1, <1>2
<1>4. /\ (vtime[t] + d) % VtimeMod \in 0..(VtimeMod - 1)
      /\ (vtime[t] + d) % VtimeMod <= vtime[t] + d
  BY <1>1, <1>2
<1>5. vtime' \in [Task -> 0..(VtimeMod - 1)] /\ vtime'[t] = (vtime[t] + d) % VtimeMod
  BY <1>1, <1>2, <1>4
<1>6. S \in Int /\ S' \in Int /\ S' <= S + d
  <2>1. \A u \in Task : u # t => Owed'[u] = Owed[u]
    BY <1>1, <1>2 DEF Owed, Kept
  <2>2. Owed'[t] \in Int /\ Owed[t] \in Int /\ Owed'[t] <= Owed[t] + d
    BY <1>2, <1>4, <1>5 DEF Owed, Kept
  <2>3. VtimeInv
    BY DEF TimeInv
  <2>4. S \in Int /\ S' = S + (Owed'[t] - Owed[t])
    BY <2>1, <2>2, <2>3, OwedType, OwedStep
  <2> QED
    BY <1>2, <2>2, <2>4
<1> HIDE DEF S
<1>7. PICK K \in Multiples : total - K <= used /\ S + K <= total + given
  BY DEF TimeInv, VtimeInv, Covers, S
<1>8. K \in Nat
  BY MultiplesStep
<1>9. \E L \in Multiples : total' - L <= used' /\ S' + L <= total' + given'
  <2>1. CASE total' = total + d
    <3>1. total' - K <= used' /\ S' + K <= total' + given'
      BY <1>1, <1>2, <1>6, <1>7, <1>8, <2>1
    <3> QED
      BY <3>1
  <2>2. CASE total' = total + d - VtimeMod
    <3>1. K # 0
      BY <1>1, <1>2, <1>3, <1>7, <2>2
    <3>2. K - VtimeMod \in Multiples
      BY <3>1, MultiplesStep
    <3>3. /\ total' - (K - VtimeMod) <= used' /\ S' + (K - VtimeMod) <= total' + given'
      BY <1>1, <1>2, <1>6, <1>7, <1>8, <2>2
    <3> QED
      BY <3>2, <3>3
  <2> QED
    BY <1>3, <2>1, <2>2
<1>10. PICK L \in Multiples : Covers(L)'
  BY <1>9 DEF Covers, S
<1>11. used' \in Nat /\ used' < VtimeMod
  BY <1>1, <1>2
<1> QED
  BY <1>1, <1>2, <1>3, <1>5, <1>10, <1>11 DEF VtimeInv, Multiples

LEMMA TotalVtime == ASSUME TimeInv, TerminateTotal PROVE VtimeInv'
<1> DEFINE S == SumOf(Owed, Task)
<1>1. ContextInv /\ VtimeInv
  BY DEF TimeInv
<1>2. PICK t \in Task : /\ job[current] = <<"total", t>> /\ tstate[t] = "TERMINATED"
                        /\ job' = [job EXCEPT ![current] = <<"num", t>>]
                        /\ total' = (total + (VtimeMod - vtime[t])) % VtimeMod
  BY <1>1, TerminateTotalInv
<1>3. /\ total \in 0..(VtimeMod - 1) /\ given \in Nat /\ used \in Nat
      /\ vtime \in [Task -> 0..(VtimeMod - 1)] /\ VtimeMod \in Nat /\ VtimeMod # 0
      /\ vtime[t] \in 0..(VtimeMod - 1) /\ num \in Nat /\ used < VtimeMod
      /\ UNCHANGED <<vtime, num, given, used, tstate>>
  BY <1>1, ContextAssumption DEF VtimeInv, TerminateTotal
<1>4. /\ total' \in {total - vtime[t], total - vtime[t] + VtimeMod}
      /\ total' \in 0..(VtimeMod - 1)
  <2> DEFINE x == total + (VtimeMod - vtime[t])
  <2>1. x \in Nat /\ x < 2 * VtimeMod
    BY <1>3
  <2> HIDE DEF x
  <2>2. x % VtimeMod \in {x, x - VtimeMod} /\ x % VtimeMod \in 0..(VtimeMod - 1)
    BY <1>3, <2>1
  <2> QED
    BY <1>2, <1>3, <2>2 DEF x
<1>5. Counts(t) /\ ~Counts(t)' /\ \A u \in Task : u # t => Kept(u)
  BY <1>1, <1>2, <1>3, TerminateTotalCounts
<1>6. S \in Int /\ S' = S - vtime[t]
  <2>1. /\ Owed[t] = vtime[t] /\ Owed'[t] = 0
        /\ \A u \in Task : u # t => Owed'[u] = Owed[u]
    BY <1>3, <1>5 DEF Owed, Kept
  <2>2. S \in Int /\ S' = S + (0 - vtime[t])
    BY <1>1, <2>1, OwedType, OwedStep
  <2> QED
    BY <1>3, <2>2
<1> HIDE DEF S
<1>7. PICK K \in Multiples : total - K <= used /\ S + K <= total + given
  BY <1>1 DEF VtimeInv, Covers, S
<1>8. K \in Nat /\ K + VtimeMod \in Multiples
  BY MultiplesStep
<1>9. \E L \in Multiples : total' - L <= used' /\ S' + L <= total' + given'
  <2>1. CASE total' = total - vtime[t]
    <3>1. total' - K <= used' /\ S' + K <= total' + given'
      BY <1>3, <1>6, <1>7, <1>8, <2>1
    <3> QED
      BY <3>1
  <2>2. CASE total' = total - vtime[t] + VtimeMod
    <3>1. total' - (K + VtimeMod) <= used' /\ S' + (K + VtimeMod) <= total' + given'
      BY <1>3, <1>6, <1>7, <1>8, <2>2
    <3> QED
      BY <1>8, <3>1
  <2> QED
    BY <1>4, <2>1, <2>2
<1>10. PICK L \in Multiples : Covers(L)'
  BY <1>9 DEF Covers, S
<1> QED
  BY <1>3, <1>4, <1>10 DEF VtimeInv, Multiples

LEMMA SameVtime ==
  ASSUME TimeInv, \A u \in Task : Kept(u), UNCHANGED <<vtime, total, given, used>>, num' \in Nat
  PROVE  VtimeInv'
<1>1. Owed' = Owed
  BY DEF Owed, Kept
<1>2. SumOf(Owed, Task)' = SumOf(Owed', Task)
  BY DEF SumOf, MapThenSumSet, MapThenFoldSet
<1>3. PICK K \in Multiples : Covers(K)
  BY DEF TimeInv, VtimeInv
<1>4. Covers(K)'
  BY <1>1, <1>2, <1>3 DEF Covers
<1> QED
  BY <1>4 DEF TimeInv, VtimeInv, Multiples

LEMMA TimeStepInv == TimeInv /\ [ContextNext]_contextVars => TimeInv'
<1> SUFFICES ASSUME TimeInv, [ContextNext]_contextVars PROVE VtimeInv'
  BY ContextStepInv DEF TimeInv
<1>1. ContextInv /\ num \in Nat /\ (num + 1) % VtimeMod \in Nat
      /\ (num + (VtimeMod - 1)) % VtimeMod \in Nat
  BY ContextAssumption DEF TimeInv, VtimeInv
<1>2. ASSUME NEW w \in Workers, StartTask(w) PROVE VtimeInv'
  BY <1>1, <1>2, StartTaskCounts, CreateVtime DEF StartTask
<1>3. CASE StartCount
  BY <1>1, <1>3, StartCountCounts, SameVtime DEF StartCount
<1>4. CASE MainLoop
  BY <1>1, <1>4, MainLoopCounts, CreateVtime DEF MainLoop
<1>5. ASSUME NEW n \in Task, Switch(n) PROVE VtimeInv'
  <2>1. \A u \in Task : tstate'[u] \in {"RUNNING", "IN_QUEUE"}
                          <=> tstate[u] \in {"RUNNING", "IN_QUEUE"}
    BY <1>1, <1>5 DEF Switch, Requeued, ContextInv, ContextType, States
  <2>2. current \in Task /\ Charge(current) /\ job' = job
    BY <1>1, <1>5 DEF Switch, ContextInv, ContextType
  <2>3. \A u \in Task : Kept(u)
    BY <2>1, <2>2 DEF Kept, Counts
  <2> QED
    BY <2>2, <2>3, ChargeVtime
<1>6. ASSUME NEW t \in Task, TerminateTask(t) PROVE VtimeInv'
  BY <1>1, <1>6, TerminateTaskCounts, SameVtime DEF TerminateTask, timeVars
<1>7. CASE TerminateTotal
  BY <1>7, TotalVtime
<1>8. CASE TerminateNum
  BY <1>1, <1>8, TerminateNumCounts, SameVtime DEF TerminateNum
<1>9. CASE NmIsr \/ UseRegisters \/ UNCHANGED contextVars
  <2>1. UNCHANGED <<timeVars, tstate, job>>
    BY <1>9 DEF NmIsr, UseRegisters, contextVars
  <2>2. \A u \in Task : Kept(u)
    BY <2>1 DEF Kept, Counts
  <2> QED
    BY <1>1, <2>1, <2>2, SameVtime DEF timeVars
<1> QED
  BY <1>2, <1>3, <1>4, <1>5, <1>6, <1>7, <1>8, <1>9 DEF ContextNext

\* total_vtime falls short of the virtual times of the tasks at most by what
\* start_task has given away, for any number of tasks, whatever they use of the
\* processor and wherever they are preempted, as long as less than 2^64 cycles
\* have been charged: terminate_task, which takes a vtime back in a step of its
\* own, and the charges of tasks on their way out add nothing to the gap.
THEOREM TotalCoversLiveTasks == ContextSpec => []TotalCoversTasks
<1>1. TimeInv => TotalCoversTasks
  <2> SUFFICES ASSUME TimeInv PROVE TotalCoversTasks
    OBVIOUS
  <2>1. PICK K \in Multiples : SumOf(Owed, Task) + K <= total + given
    BY DEF TimeInv, VtimeInv, Covers
  <2>2. K \in Nat /\ SumOf(Owed, Task) \in Int /\ total \in Int /\ given \in Int
    BY MultiplesStep, OwedType, ContextAssumption DEF TimeInv, VtimeInv
  <2>3. SumOf(Owed, Task) <= total + given
    BY <2>1, <2>2
  <2> QED
    BY <2>3 DEF TotalCoversTasks, SumOf
<1> QED
  BY <1>1, TimeInitInv, TimeStepInv, PTL DEF ContextSpec
=============================================================================
