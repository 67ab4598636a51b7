--------------------------- MODULE ConsoleProofs ---------------------------
(***************************************************************************)
(* The console, for any number of tasks, preemptions and calls and any     *)
(* size of the screen: the cursor returns, its drift is bounded, and the   *)
(* screen shows what a single task printed.                                *)
(*                                                                         *)
(* vga_x may only be too large while a task that has the very value in its *)
(* registers is still to test it; the same for vga_y, from the increment   *)
(* to the store that ends vga_scroll.                                      *)
(***************************************************************************)
EXTENDS Console, TLAPS

Fields == {"x", "y", "c", "tab", "blank"}
Word == {n \in Nat : n < 65536}

ConsoleType ==
    /\ x \in Word /\ y \in Word
    /\ current \in Tasks /\ writers \subseteq Tasks
    /\ DOMAIN pc = Tasks /\ DOMAIN reg = Tasks
    /\ \A t \in Tasks : /\ DOMAIN reg[t] = Fields
                        /\ reg[t].x \in Word /\ reg[t].y \in Word

ScrollRows ==
    \A t \in Tasks : pc[t] \in {"scroll_x", "scroll_y"} => reg[t].y <= Height

\* Task t is still to put vga_x, or vga_y, right.
RightsX(t) == (pc[t] = "wrap" /\ reg[t].x = x) \/ pc[t] = "stopped"
RightsY(t) ==
    \/ pc[t] \in {"wrap", "wrap_feed", "scroll", "copy"} /\ reg[t].y = y
    \/ pc[t] \in {"scroll_x", "scroll_y", "stopped"}

ColumnRighted == x >= Width => \E t \in Tasks : RightsX(t)
RowRighted == y > Height => \E t \in Tasks : RightsY(t)

ConsoleInv == ConsoleType /\ ScrollRows /\ ColumnRighted /\ RowRighted

-----------------------------------------------------------------------------
(***************************************************************************)
(* What a step of task t may do                                            *)
(***************************************************************************)

OthersKeep(t) ==
    \A u \in Tasks : u # t => pc'[u] = pc[u] /\ reg'[u] = reg[u]
StepX(t) == RightsX(t)' \/ x' < Width \/ (x' = x /\ ~RightsX(t))
StepY(t) == RightsY(t)' \/ y' <= Height \/ (y' = y /\ ~RightsY(t))
StepType(t) ==
    /\ x' \in Word /\ y' \in Word
    /\ current' = current /\ writers' \subseteq writers
    /\ DOMAIN pc' = Tasks /\ DOMAIN reg' = Tasks
    /\ DOMAIN reg'[t] = Fields /\ reg'[t].x \in Word /\ reg'[t].y \in Word
    /\ pc'[t] \in {"scroll_x", "scroll_y"} => reg'[t].y <= Height
TaskStep(t) == OthersKeep(t) /\ StepX(t) /\ StepY(t) /\ StepType(t)

LEMMA TaskStepInv ==
  ASSUME ConsoleInv, NEW t \in Tasks, TaskStep(t)
  PROVE  ConsoleInv'
<1> USE DEF ConsoleInv, TaskStep
<1>1. \A u \in Tasks : u # t => pc'[u] = pc[u] /\ reg'[u] = reg[u]
  BY DEF OthersKeep
<1>2. ConsoleType'
  BY <1>1 DEF ConsoleType, StepType
<1>3. ScrollRows'
  BY <1>1 DEF ScrollRows, StepType
<1>0. /\ x \in Nat /\ y \in Nat /\ x' \in Nat /\ y' \in Nat
      /\ \A u \in Tasks : reg[u].x \in Nat /\ reg[u].y \in Nat
      /\ Width \in Nat /\ Height \in Nat
  BY ConsoleAssumption DEF ConsoleType, StepType, Word
<1>4. ColumnRighted'
  BY <1>0, <1>1 DEF ColumnRighted, RightsX, StepX
<1>5. RowRighted'
  BY <1>0, <1>1 DEF RowRighted, RightsY, StepY
<1> QED
  BY <1>2, <1>3, <1>4, <1>5

\* A step that moves t only, to a place where it has nothing to put right.
LEMMA MoveStep ==
  ASSUME ConsoleInv, NEW t \in Tasks, NEW l,
         pc' = [pc EXCEPT ![t] = l], l \notin {"scroll_x", "scroll_y"},
         UNCHANGED <<x, y, reg, current, writers>>,
         pc[t] \notin {"wrap", "wrap_feed", "scroll", "copy", "scroll_x", "scroll_y", "stopped"}
  PROVE  TaskStep(t)
  BY DEF ConsoleInv, ConsoleType, TaskStep, OthersKeep, StepX, StepY, StepType,
         RightsX, RightsY

\* A step that does not move it.
LEMMA StayStep ==
  ASSUME ConsoleInv, NEW t \in Tasks, UNCHANGED <<x, y, pc, reg, current, writers>>
  PROVE  ConsoleInv'
  BY DEF ConsoleInv, ConsoleType, ScrollRows, ColumnRighted, RowRighted, RightsX, RightsY

-----------------------------------------------------------------------------
(***************************************************************************)
(* The steps of vga.c                                                      *)
(***************************************************************************)

\* Every part of a step of t, from its definition.
LEMMA ClearXStep == ASSUME ConsoleInv, NEW t \in Tasks, ClearX(t) PROVE TaskStep(t)
<1> USE ConsoleAssumption DEF ConsoleInv, ConsoleType, ClearX, Goto, Rest, screenVars, Fields, Word
<1>1. OthersKeep(t)
  BY DEF OthersKeep
<1>2. StepType(t)
  BY DEF StepType, ScrollRows
<1>3. StepX(t)
  BY DEF StepX, RightsX
<1>4. StepY(t)
  BY DEF StepY, RightsY, ScrollRows
<1> QED
  BY <1>1, <1>2, <1>3, <1>4 DEF TaskStep

LEMMA ClearYStep == ASSUME ConsoleInv, NEW t \in Tasks, ClearY(t) PROVE TaskStep(t)
<1> USE ConsoleAssumption DEF ConsoleInv, ConsoleType, ClearY, Goto, Rest, screenVars, Fields, Word
<1>1. OthersKeep(t)
  BY DEF OthersKeep
<1>2. StepType(t)
  BY DEF StepType, ScrollRows
<1>3. StepX(t)
  BY DEF StepX, RightsX
<1>4. StepY(t)
  BY DEF StepY, RightsY, ScrollRows
<1> QED
  BY <1>1, <1>2, <1>3, <1>4 DEF TaskStep

LEMMA PutcStep == ASSUME ConsoleInv, NEW t \in Tasks, Putc(t) PROVE TaskStep(t)
<1> USE ConsoleAssumption DEF ConsoleInv, ConsoleType, Putc, Goto, Begin, Rest, screenVars, Fields, Word
<1>1. OthersKeep(t)
  BY DEF OthersKeep
<1>2. StepType(t)
  BY DEF StepType, ScrollRows
<1>3. StepX(t)
  BY DEF StepX, RightsX
<1>4. StepY(t)
  BY DEF StepY, RightsY, ScrollRows
<1> QED
  BY <1>1, <1>2, <1>3, <1>4 DEF TaskStep

LEMMA LoadXStep == ASSUME ConsoleInv, NEW t \in Tasks, LoadX(t) PROVE TaskStep(t)
<1> USE ConsoleAssumption DEF ConsoleInv, ConsoleType, LoadX, Goto, Load, Rest, screenVars, Fields, Word
<1>1. OthersKeep(t)
  BY DEF OthersKeep
<1>2. StepType(t)
  BY DEF StepType, ScrollRows
<1>3. StepX(t)
  BY DEF StepX, RightsX
<1>4. StepY(t)
  BY DEF StepY, RightsY, ScrollRows
<1> QED
  BY <1>1, <1>2, <1>3, <1>4 DEF TaskStep

LEMMA LoadYStep == ASSUME ConsoleInv, NEW t \in Tasks, LoadY(t) PROVE TaskStep(t)
<1> USE ConsoleAssumption DEF ConsoleInv, ConsoleType, LoadY, Goto, Load, Rest, screenVars, Fields, Word
<1>1. OthersKeep(t)
  BY DEF OthersKeep
<1>2. StepType(t)
  BY DEF StepType, ScrollRows
<1>3. StepX(t)
  BY DEF StepX, RightsX
<1>4. StepY(t)
  BY DEF StepY, RightsY, ScrollRows
<1> QED
  BY <1>1, <1>2, <1>3, <1>4 DEF TaskStep

LEMMA DecrementStep == ASSUME ConsoleInv, NEW t \in Tasks, Decrement(t) PROVE TaskStep(t)
<1> USE ConsoleAssumption DEF ConsoleInv, ConsoleType, Decrement, Goto, Load, Rest, screenVars, Fields, Word
<1>1. OthersKeep(t)
  BY DEF OthersKeep
<1>2. StepType(t)
  BY DEF StepType, ScrollRows
<1>3. StepX(t)
  BY DEF StepX, RightsX
<1>4. StepY(t)
  BY DEF StepY, RightsY, ScrollRows
<1> QED
  BY <1>1, <1>2, <1>3, <1>4 DEF TaskStep

LEMMA ReloadStep == ASSUME ConsoleInv, NEW t \in Tasks, Reload(t) PROVE TaskStep(t)
<1> USE ConsoleAssumption DEF ConsoleInv, ConsoleType, Reload, Load, Rest, screenVars, Fields, Word
<1>1. OthersKeep(t)
  BY DEF OthersKeep
<1>2. StepType(t)
  BY DEF StepType, ScrollRows
<1>3. StepX(t)
  BY DEF StepX, RightsX
<1>4. StepY(t)
  BY DEF StepY, RightsY, ScrollRows
<1> QED
  BY <1>1, <1>2, <1>3, <1>4 DEF TaskStep

LEMMA ReturnStep == ASSUME ConsoleInv, NEW t \in Tasks, Return(t) PROVE TaskStep(t)
<1> USE ConsoleAssumption DEF ConsoleInv, ConsoleType, Return, Goto, Load, Rest, screenVars, Fields, Word
<1>1. OthersKeep(t)
  BY DEF OthersKeep
<1>2. StepType(t)
  BY DEF StepType, ScrollRows
<1>3. StepX(t)
  BY DEF StepX, RightsX
<1>4. StepY(t)
  BY DEF StepY, RightsY, ScrollRows
<1> QED
  BY <1>1, <1>2, <1>3, <1>4 DEF TaskStep

LEMMA AdvanceStep == ASSUME ConsoleInv, NEW t \in Tasks, Advance(t) PROVE TaskStep(t)
<1> USE ConsoleAssumption DEF ConsoleInv, ConsoleType, Advance, Goto, Load, Rest, screenVars, Fields, Word
<1>1. OthersKeep(t)
  BY DEF OthersKeep
<1>2. StepType(t)
  BY DEF StepType, ScrollRows
<1>3. StepX(t)
  BY DEF StepX, RightsX
<1>4. StepY(t)
  BY DEF StepY, RightsY, ScrollRows
<1> QED
  BY <1>1, <1>2, <1>3, <1>4 DEF TaskStep

LEMMA WrapStep == ASSUME ConsoleInv, NEW t \in Tasks, Wrap(t) PROVE TaskStep(t)
<1> USE ConsoleAssumption DEF ConsoleInv, ConsoleType, Wrap, Goto, Load, Rest, screenVars, Fields, Word
<1>1. OthersKeep(t)
  BY DEF OthersKeep
<1>2. StepType(t)
  BY DEF StepType, ScrollRows
<1>3. StepX(t)
  BY DEF StepX, RightsX
<1>4. StepY(t)
  BY DEF StepY, RightsY, ScrollRows
<1> QED
  BY <1>1, <1>2, <1>3, <1>4 DEF TaskStep

LEMMA FeedStep == ASSUME ConsoleInv, NEW t \in Tasks, Feed(t) PROVE TaskStep(t)
<1> USE ConsoleAssumption DEF ConsoleInv, ConsoleType, Feed, Goto, Load, Rest, screenVars, Fields, Word
<1>1. OthersKeep(t)
  BY DEF OthersKeep
<1>2. StepType(t)
  BY DEF StepType, ScrollRows
<1>3. StepX(t)
  BY DEF StepX, RightsX
<1>4. StepY(t)
  BY DEF StepY, RightsY, ScrollRows
<1> QED
  BY <1>1, <1>2, <1>3, <1>4 DEF TaskStep

LEMMA ScrollTestStep == ASSUME ConsoleInv, NEW t \in Tasks, ScrollTest(t) PROVE TaskStep(t)
<1> USE ConsoleAssumption DEF ConsoleInv, ConsoleType, ScrollTest, Goto, Load, Rest, screenVars, Fields, Word
<1>1. OthersKeep(t)
  BY DEF OthersKeep
<1>2. StepType(t)
  BY DEF StepType, ScrollRows
<1>3. StepX(t)
  BY DEF StepX, RightsX
<1>4. StepY(t)
  BY DEF StepY, RightsY, ScrollRows
<1> QED
  BY <1>1, <1>2, <1>3, <1>4 DEF TaskStep

LEMMA ScrollXStep == ASSUME ConsoleInv, NEW t \in Tasks, ScrollX(t) PROVE TaskStep(t)
<1> USE ConsoleAssumption DEF ConsoleInv, ConsoleType, ScrollX, Goto, Rest, screenVars, Fields, Word
<1>1. OthersKeep(t)
  BY DEF OthersKeep
<1>2. StepType(t)
  BY DEF StepType, ScrollRows
<1>3. StepX(t)
  BY DEF StepX, RightsX
<1>4. StepY(t)
  BY DEF StepY, RightsY, ScrollRows
<1> QED
  BY <1>1, <1>2, <1>3, <1>4 DEF TaskStep

LEMMA ScrollYStep == ASSUME ConsoleInv, NEW t \in Tasks, ScrollY(t) PROVE TaskStep(t)
<1> USE ConsoleAssumption DEF ConsoleInv, ConsoleType, ScrollY, Goto, Rest, screenVars, Fields, Word
<1>1. OthersKeep(t)
  BY DEF OthersKeep
<1>2. StepType(t)
  BY DEF StepType, ScrollRows
<1>3. StepX(t)
  BY DEF StepX, RightsX
<1>4. StepY(t)
  BY DEF StepY, RightsY, ScrollRows
<1> QED
  BY <1>1, <1>2, <1>3, <1>4 DEF TaskStep

LEMMA TabTestStep == ASSUME ConsoleInv, NEW t \in Tasks, TabTest(t) PROVE TaskStep(t)
<1> USE ConsoleAssumption DEF ConsoleInv, ConsoleType, TabTest, Goto, Rest, screenVars, Fields, Word
<1>1. OthersKeep(t)
  BY DEF OthersKeep
<1>2. StepType(t)
  BY DEF StepType, ScrollRows
<1>3. StepX(t)
  BY DEF StepX, RightsX
<1>4. StepY(t)
  BY DEF StepY, RightsY, ScrollRows
<1> QED
  BY <1>1, <1>2, <1>3, <1>4 DEF TaskStep

LEMMA RowsKept == \A v \in Nat : y_to(v) \in Nat /\ y_to(v) <= Height
<1> SUFFICES ASSUME NEW v \in Nat PROVE y_to(v) \in Nat /\ y_to(v) <= Height
  OBVIOUS
<1>1. y_from(v) \in Nat
  BY ConsoleAssumption DEF y_from
<1> QED
  BY <1>1, ConsoleAssumption DEF y_to

LEMMA CopyStep == ASSUME ConsoleInv, NEW t \in Tasks, Copy(t) PROVE TaskStep(t)
<1> DEFINE v == reg[t].y
<1>1. Load(t, "y", y_to(v))
  BY DEF Copy
<1>2. y_to(v) \in Word /\ y_to(v) <= Height
  BY RowsKept, ConsoleAssumption DEF ConsoleInv, ConsoleType, Word
<1> HIDE DEF v
<1> USE ConsoleAssumption DEF ConsoleInv, ConsoleType, Copy, Goto, Load, Rest, Fields
<1>3. OthersKeep(t)
  BY <1>1 DEF OthersKeep
<1>4. StepType(t)
  BY <1>1, <1>2 DEF StepType
<1>5. StepX(t) /\ StepY(t)
  BY <1>1 DEF StepX, StepY, RightsX, RightsY
<1> QED
  BY <1>3, <1>4, <1>5 DEF TaskStep

LEMMA TerminateInv ==
  ASSUME ConsoleInv, NEW t \in Tasks, Terminate(t)
  PROVE  ConsoleInv'
  BY DEF ConsoleInv, ConsoleType, ScrollRows, ColumnRighted, RowRighted, RightsX,
         RightsY, Terminate, screenVars

LEMMA ConsoleInitInv == ConsoleInit => ConsoleInv
  BY ConsoleAssumption DEF ConsoleInit, ConsoleInv, ConsoleType, ScrollRows,
     ColumnRighted, RowRighted, Fields, Word

LEMMA ConsoleStepInv == ConsoleInv /\ [ConsoleNext]_consoleVars => ConsoleInv'
<1> SUFFICES ASSUME ConsoleInv, [ConsoleNext]_consoleVars PROVE ConsoleInv'
  OBVIOUS
<1> DEFINE t == current
<1>1. t \in Tasks
  BY DEF ConsoleInv, ConsoleType
<1>2. ASSUME NEW u \in Tasks, Preempt(u) PROVE ConsoleInv'
  BY <1>2 DEF Preempt, screenVars, ConsoleInv, ConsoleType, ScrollRows, ColumnRighted,
     RowRighted, RightsX, RightsY
<1>3. CASE Call(t) \/ SetForeground(t) \/ SetBackground(t) \/ FreshLine(t)
  BY <1>1, <1>3, StayStep DEF Call, SetForeground, SetBackground, FreshLine, Rest, screenVars
<1>4. CASE Terminate(t)
  BY <1>1, <1>4, TerminateInv
<1>5. CASE Clear(t) \/ Back(t) \/ Store(t) \/ BlankRows(t) \/ UpdateCursor(t)
  <2> DEFINE Moves(l) ==
               /\ pc' = [pc EXCEPT ![t] = l] /\ l \notin {"scroll_x", "scroll_y"}
               /\ UNCHANGED <<x, y, reg, current, writers>>
               /\ pc[t] \notin {"wrap", "wrap_feed", "scroll", "copy", "scroll_x",
                                "scroll_y", "stopped"}
  <2>1. \/ Moves("clear_x") \/ Moves("decrement") \/ Moves("wrap") \/ Moves("advance")
        \/ Moves("cursor") \/ Moves("tab") \/ Moves("idle")
    <3>1. CASE Clear(t)
      BY <3>1 DEF Clear, Begin, Goto, Rest
    <3>2. CASE Store(t)
      BY <3>2 DEF Store, Goto, Rest
    <3>3. CASE BlankRows(t)
      BY <3>3 DEF BlankRows, Goto, Rest
    <3>4. CASE UpdateCursor(t)
      BY <3>4 DEF UpdateCursor, Goto, Rest
    <3>5. CASE Back(t)
      BY <3>5 DEF Back, Goto, Rest, screenVars
    <3> QED
      BY <1>5, <3>1, <3>2, <3>3, <3>4, <3>5
  <2>2. TaskStep(t)
    BY <1>1, <2>1, MoveStep
  <2> QED
    BY <1>1, <2>2, TaskStepInv
<1>6. CASE ClearX(t)
  BY <1>1, <1>6, ClearXStep, TaskStepInv
<1>7. CASE ClearY(t)
  BY <1>1, <1>7, ClearYStep, TaskStepInv
<1>8. CASE Putc(t)
  BY <1>1, <1>8, PutcStep, TaskStepInv
<1>9. CASE LoadX(t)
  BY <1>1, <1>9, LoadXStep, TaskStepInv
<1>10. CASE LoadY(t)
  BY <1>1, <1>10, LoadYStep, TaskStepInv
<1>11. CASE Reload(t) \/ Decrement(t)
  BY <1>1, <1>11, ReloadStep, DecrementStep, TaskStepInv
<1>12. CASE Return(t)
  BY <1>1, <1>12, ReturnStep, TaskStepInv
<1>13. CASE Advance(t)
  BY <1>1, <1>13, AdvanceStep, TaskStepInv
<1>14. CASE Wrap(t)
  BY <1>1, <1>14, WrapStep, TaskStepInv
<1>15. CASE Feed(t)
  BY <1>1, <1>15, FeedStep, TaskStepInv
<1>16. CASE ScrollTest(t)
  BY <1>1, <1>16, ScrollTestStep, TaskStepInv
<1>17. CASE ScrollX(t)
  BY <1>1, <1>17, ScrollXStep, TaskStepInv
<1>18. CASE ScrollY(t)
  BY <1>1, <1>18, ScrollYStep, TaskStepInv
<1>19. CASE TabTest(t)
  BY <1>1, <1>19, TabTestStep, TaskStepInv
<1>20. CASE Copy(t)
  BY <1>1, <1>20, CopyStep, TaskStepInv
<1>21. CASE UNCHANGED consoleVars
  BY <1>1, <1>21, StayStep DEF consoleVars, screenVars
<1> QED
  BY <1>2, <1>3, <1>4, <1>5, <1>6, <1>7, <1>8, <1>9, <1>10, <1>11, <1>12, <1>13, <1>14, <1>15, <1>16, <1>17, <1>18, <1>19, <1>20, <1>21 DEF ConsoleNext

\* vga_putc, vga_clear and vga_scroll bring the cursor back to the screen, or to
\* the row below it, however many tasks print and wherever they are preempted.
THEOREM CursorComesBack == ConsoleSpec => []CursorReturns
<1>1. ConsoleInit => ConsoleInv
  BY ConsoleInitInv
<1>2. ConsoleInv /\ [ConsoleNext]_consoleVars => ConsoleInv'
  BY ConsoleStepInv
<1>3. ConsoleInv => CursorReturns
  BY ConsoleAssumption DEF ConsoleInv, ConsoleType, ColumnRighted, RowRighted, RightsX,
     RightsY, CursorReturns, Quiet, Word
<1> QED
  BY <1>1, <1>2, <1>3, PTL DEF ConsoleSpec
-----------------------------------------------------------------------------
(***************************************************************************)
(* The drift of the cursor.  The task on the processor may be one column   *)
(* (one row) further out than the preemptions so far allow, but only while *)
(* it has the very value in its registers and is about to test it.         *)
(***************************************************************************)

\* Near the screen, or below zero by less than the preemptions.
Near(v) == v < Width + switches \/ v > 65536 - switches

OverX ==
    /\ pc[current] = "wrap"
    /\ x \in {Width + switches, 65536 - switches} /\ reg[current].x = x

OverY ==
    /\ y = Height + switches
    /\ x < Width
    /\ \/ /\ pc[current] \in {"wrap", "scroll", "copy"}
          /\ reg[current].y = y
          /\ pc[current] = "wrap" => reg[current].x < Width
       \/ pc[current] \in {"scroll_x", "scroll_y"}

DriftX ==
    /\ Near(x) \/ OverX
    /\ \A t \in Tasks : Near(reg[t].x) \/ (t = current /\ OverX)

DriftY ==
    /\ y < Height + switches \/ OverY
    /\ \A t \in Tasks :
          \/ reg[t].y < Height + switches
          \/ t = current /\ OverY /\ pc[t] \in {"wrap", "scroll", "copy"}

\* A line feed and the end of a row may both advance vga_y for one character,
\* but only after another task has moved vga_x behind the row, which costs the
\* preemption that pays for the second row.
DriftXY ==
    x >= Width =>
        \/ y + 1 < Height + switches
        \/ /\ y < Height + switches
           /\ \/ pc[current] = "wrap" /\ reg[current].x = x
              \/ pc[current] \in {"wrap", "scroll", "copy"} /\ reg[current].y = y
              \/ pc[current] = "scroll_x"

LateRow ==
    /\ pc[current] \in {"feed", "wrap_feed", "scroll_y"} /\ x >= Width =>
          reg[current].y + 1 < Height + switches
    /\ \A t \in Tasks : pc[t] = "feed" => reg[t].x = 0
    /\ switches = 0 /\ pc[current] = "copy" => y = Height /\ reg[current].y = Height

\* Nobody can come between the test of a backspace and its --vga_x without a
\* preemption.
BackInTime ==
    switches = 0 /\ pc[current] \in {"load_y", "back", "decrement"} =>
        /\ reg[current].x = x
        /\ pc[current] = "decrement" => x > 0

DriftInv ==
    switches \in Nat /\ DriftX /\ DriftY /\ DriftXY /\ LateRow /\ BackInTime

LEMMA DriftInit == ConsoleInit => DriftInv
  BY ConsoleAssumption DEF ConsoleInit, DriftInv, DriftX, DriftY, DriftXY, LateRow,
     BackInTime, Near

\* A preemption lets every bound grow by one, so that nothing is over it.
LEMMA DriftPreempt ==
  ASSUME ConsoleInv, DriftInv, NEW t \in Tasks, Preempt(t)
  PROVE  DriftInv'
  BY ConsoleAssumption
  DEF ConsoleInv, ConsoleType, Preempt, screenVars, DriftInv, DriftX, DriftY,
      DriftXY, LateRow, BackInTime, OverX, OverY, Near, Word

\* Scrolling leaves the cursor on the screen, unless another task came between.
LEMMA DriftCopy ==
  ASSUME ConsoleInv, DriftInv, Copy(current)
  PROVE  DriftInv'
<1> DEFINE v == reg[current].y
<1>1. Load(current, "y", y_to(v))
  BY DEF Copy
<1>2. y_to(v) \in Nat /\ y_to(v) <= Height
  BY RowsKept DEF ConsoleInv, ConsoleType, Word
<1>3. y_to(v) < Height + switches
  <2>1. CASE switches = 0
    <3>1. v = Height
      BY <2>1 DEF Copy, DriftInv, LateRow
    <3>2. y_from(v) = 1
      BY <3>1, ConsoleAssumption DEF y_from
    <3> QED
      BY <2>1, <3>2, ConsoleAssumption DEF y_to
  <2> QED
    BY <1>2, <2>1, ConsoleAssumption DEF DriftInv
<1> HIDE DEF v
<1> QED
  BY <1>1, <1>2, <1>3, ConsoleAssumption
  DEF ConsoleInv, ConsoleType, Fields, Word, Copy, Goto, Load, Rest, DriftInv, DriftX,
      DriftY, DriftXY, LateRow, BackInTime, OverX, OverY, Near

\* The steps that leave vga_x, vga_y and the registers alone.
LEMMA DriftQuiet ==
  ASSUME ConsoleInv, DriftInv, UNCHANGED <<x, y, reg, current, switches>>,
         \A t \in Tasks : pc'[t] = pc[t] \/ pc'[t] # "feed",
         \/ pc'[current] = pc[current]
         \/ /\ pc[current] \notin {"wrap", "scroll", "copy", "scroll_x", "scroll_y"}
            /\ pc'[current] \notin {"feed", "wrap_feed", "scroll_y", "copy", "load_y", "back",
                                    "decrement"}
  PROVE  DriftInv'
  BY ConsoleAssumption
  DEF ConsoleInv, ConsoleType, Word, DriftInv, DriftX, DriftY, DriftXY, LateRow,
      BackInTime, OverX, OverY, Near

\* Every other step of the task on the processor.
LEMMA DriftStep ==
  ASSUME ConsoleInv, DriftInv,
         \/ ClearX(current) \/ ClearY(current) \/ Putc(current) \/ LoadX(current)
         \/ LoadY(current) \/ Reload(current) \/ Back(current) \/ Decrement(current)
         \/ Return(current) \/ Advance(current)
         \/ Wrap(current) \/ Feed(current) \/ ScrollTest(current)
         \/ ScrollX(current) \/ ScrollY(current) \/ TabTest(current)
  PROVE  DriftInv'
<1> USE ConsoleAssumption
    DEF ConsoleInv, ConsoleType, Fields, Word, Goto, Rest, screenVars, DriftInv,
        DriftX, DriftY, DriftXY, LateRow, BackInTime, OverX, OverY, Near
<1>1. CASE ClearX(current)
  BY <1>1 DEF ClearX
<1>2. CASE ClearY(current)
  BY <1>2 DEF ClearY
<1>3. CASE Putc(current)
  BY <1>3 DEF Putc, Begin
<1>4. CASE LoadX(current)
  BY <1>4 DEF LoadX, Load
<1>5. CASE LoadY(current)
  BY <1>5 DEF LoadY, Load
<1>6. CASE Back(current)
  BY <1>6 DEF Back
<1>7. CASE Return(current)
  BY <1>7 DEF Return, Load
<1>8. CASE Advance(current)
  <2> DEFINE v == reg[current].x
  <2>1. x' = (v + 1) % 65536 /\ Load(current, "x", x')
    BY <1>8 DEF Advance
  <2>2. v \in Word /\ Near(v)
    BY <1>8 DEF Advance
  <2>3. /\ pc[current] = "advance" /\ pc'[current] = "wrap"
        /\ y' = y /\ current' = current /\ switches' = switches
        /\ reg'[current].x = x' /\ reg'[current].y = reg[current].y
        /\ \A t \in Tasks : t # current => pc'[t] = pc[t] /\ reg'[t] = reg[t]
    BY <1>8, <2>1 DEF Advance, Load
  <2> HIDE DEF v
  <2>4. /\ \A t \in Tasks : Near(reg[t].x) /\ reg[t].y < Height + switches
        /\ y < Height + switches
    BY <2>3
  <2>5. x' \in Word /\ (x' = v + 1 \/ x' = 0)
    BY <2>1, <2>2
  <2>6. DriftX' /\ DriftY'
    BY <2>2, <2>3, <2>4, <2>5
  <2>7. DriftXY' /\ LateRow' /\ BackInTime'
    BY <2>2, <2>3, <2>4, <2>5
  <2> QED
    BY <2>3, <2>6, <2>7
<1>9. CASE Wrap(current)
  BY <1>9 DEF Wrap, Load
<1>10. CASE Feed(current)
  BY <1>10 DEF Feed, Load
<1>11. CASE ScrollTest(current)
  BY <1>11 DEF ScrollTest, Load
<1>12. CASE ScrollX(current)
  BY <1>12 DEF ScrollX
<1>13. CASE ScrollY(current)
  BY <1>13 DEF ScrollY
<1>14. CASE TabTest(current)
  BY <1>14 DEF TabTest
<1>15. CASE Reload(current)
  BY <1>15 DEF Reload, Load
<1>16. CASE Decrement(current)
  <2> DEFINE v == reg[current].x
  <2>1. x' = (v - 1) % 65536 /\ Load(current, "x", x')
    BY <1>16 DEF Decrement
  <2>2. v \in Word /\ Near(v) /\ (v = 0 => switches > 0)
    BY <1>16 DEF Decrement
  <2>3. /\ pc[current] = "decrement" /\ pc'[current] = "wrap"
        /\ y' = y /\ current' = current /\ switches' = switches
        /\ reg'[current].x = x' /\ reg'[current].y = reg[current].y
        /\ \A t \in Tasks : t # current => pc'[t] = pc[t] /\ reg'[t] = reg[t]
    BY <1>16, <2>1 DEF Decrement, Load
  <2> HIDE DEF v
  <2>4. /\ \A t \in Tasks : Near(reg[t].x) /\ reg[t].y < Height + switches
        /\ y < Height + switches
    BY <2>3
  <2>5. x' \in Word /\ ((v > 0 /\ x' = v - 1) \/ (v = 0 /\ x' = 65535))
    BY <2>1, <2>2
  <2>6. DriftX' /\ DriftY'
    <3>1. Near(x') \/ x' = 65536 - switches
      BY <2>2, <2>5
    <3>2. Near(x)' \/ OverX'
      BY <2>3, <3>1
    <3>3. \A t \in Tasks : Near(reg[t].x)' \/ (t = current' /\ OverX')
      BY <2>3, <2>4, <3>2
    <3>4. DriftY'
      BY <2>3, <2>4
    <3> QED
      BY <3>2, <3>3, <3>4
  <2>7. DriftXY' /\ LateRow' /\ BackInTime'
    BY <2>2, <2>3, <2>4, <2>5
  <2> QED
    BY <2>3, <2>6, <2>7
<1> QED
  BY <1>1, <1>2, <1>3, <1>4, <1>5, <1>6, <1>7, <1>8, <1>9, <1>10, <1>11, <1>12, <1>13, <1>14, <1>15, <1>16

LEMMA DriftInvStep ==
  ConsoleInv /\ DriftInv /\ [ConsoleNext]_consoleVars => DriftInv'
<1> SUFFICES ASSUME ConsoleInv, DriftInv, [ConsoleNext]_consoleVars PROVE DriftInv'
  OBVIOUS
<1> DEFINE t == current
<1>0. t \in Tasks /\ DOMAIN pc = Tasks
  BY DEF ConsoleInv, ConsoleType
<1>1. ASSUME NEW u \in Tasks, Preempt(u) PROVE DriftInv'
  BY <1>1, DriftPreempt
<1>2. CASE Call(t) \/ SetForeground(t) \/ SetBackground(t) \/ FreshLine(t)
  BY <1>2, DriftQuiet DEF Call, SetForeground, SetBackground, FreshLine, Rest, screenVars
<1>3. CASE Terminate(t)
  <2>1. /\ UNCHANGED <<x, y, reg, current, switches>>
        /\ \A u \in Tasks : pc'[u] = pc[u] \/ pc'[u] # "feed"
        /\ pc'[current] = pc[current]
    BY <1>0, <1>3 DEF Terminate, Begin, screenVars
  <2> QED
    BY <2>1, DriftQuiet
<1>4. CASE Clear(t) \/ Store(t) \/ BlankRows(t) \/ UpdateCursor(t)
  <2>1. /\ UNCHANGED <<x, y, reg, current, switches>>
        /\ \A u \in Tasks : pc'[u] = pc[u] \/ pc'[u] # "feed"
        /\ pc[current] \notin {"wrap", "scroll", "copy", "scroll_x", "scroll_y"}
        /\ pc'[current] \notin {"feed", "wrap_feed", "scroll_y", "copy", "load_y", "back",
                                "decrement"}
    BY <1>0, <1>4 DEF Clear, Store, BlankRows, UpdateCursor, Begin, Goto, Rest
  <2> QED
    BY <2>1, DriftQuiet
<1>5. CASE \/ ClearX(t) \/ ClearY(t) \/ Putc(t) \/ LoadX(t) \/ LoadY(t) \/ Reload(t)
           \/ Back(t) \/ Decrement(t) \/ Return(t) \/ Advance(t) \/ Wrap(t) \/ Feed(t) \/ ScrollTest(t)
           \/ ScrollX(t) \/ ScrollY(t) \/ TabTest(t)
  BY <1>5, DriftStep
<1>6. CASE Copy(t)
  BY <1>6, DriftCopy
<1>7. CASE UNCHANGED consoleVars
  BY <1>7, DriftQuiet DEF consoleVars, screenVars
<1> QED
  BY <1>1, <1>2, <1>3, <1>4, <1>5, <1>6, <1>7 DEF ConsoleNext

\* While tasks are inside vga.c, vga_x, vga_y and the cell a character is stored
\* to are at most as far outside the screen as there were preemptions, where a
\* vga_x that has gone below zero counts down from 65536.
THEOREM DriftBounded == ConsoleSpec => []DriftIsBounded
<1>1. ConsoleInv /\ DriftInv => DriftIsBounded
  BY ConsoleAssumption
  DEF ConsoleInv, ConsoleType, Word, DriftInv, DriftX, DriftY, OverX, OverY, Near,
      DriftIsBounded
<1> QED
  BY <1>1, ConsoleInitInv, ConsoleStepInv, DriftInit, DriftInvStep, PTL DEF ConsoleSpec
-----------------------------------------------------------------------------
(***************************************************************************)
(* What a single task prints.  First the cells of the screen: rows and     *)
(* columns of an index.                                                    *)
(***************************************************************************)

Cols == 0..(Width - 1)
RowOf(i) == i \div Width
ColOf(i) == i % Width

\* Larger quotients by at least the divisor.
LEMMA Multiples ==
  ASSUME NEW D \in Nat, NEW a \in Nat, NEW b \in Nat, a < b
  PROVE  D * a \in Nat /\ D * b \in Nat /\ D * b >= D * a + D
<1>1. PICK k \in Nat : b = a + 1 + k
  <2>1. b - (a + 1) \in Nat /\ b = a + 1 + (b - (a + 1))
    OBVIOUS
  <2> QED
    BY <2>1
<1>2. D * b = D * a + D + D * k
  BY <1>1
<1>3. D * k \in Nat /\ D * a \in Nat /\ D * b \in Nat
  OBVIOUS
<1> QED
  BY <1>2, <1>3

\* A number is split into quotient and remainder in one way only.
LEMMA DivUnique ==
  ASSUME NEW D \in Nat \ {0}, NEW r \in Nat, NEW s \in Nat,
         NEW c \in 0..(D - 1), NEW d \in 0..(D - 1), c + D * r = d + D * s
  PROVE  r = s /\ c = d
<1>1. D * r \in Nat /\ D * s \in Nat /\ D \in Nat
  OBVIOUS
<1>2. ~(r < s)
  <2> SUFFICES ASSUME r < s PROVE FALSE
    OBVIOUS
  <2>1. D * s >= D * r + D
    BY <1>1, Multiples
  <2> QED
    BY <1>1, <2>1
<1>3. ~(s < r)
  <2> SUFFICES ASSUME s < r PROVE FALSE
    OBVIOUS
  <2>1. D * r >= D * s + D
    BY <1>1, Multiples
  <2> QED
    BY <1>1, <2>1
<1>4. r = s
  BY <1>2, <1>3
<1> QED
  BY <1>1, <1>4

LEMMA DivMod ==
  ASSUME NEW D \in Nat \ {0}, NEW i \in Nat
  PROVE  i \div D \in Nat /\ i % D \in 0..(D - 1) /\ i = (i % D) + D * (i \div D)
  OBVIOUS

LEMMA SplitUnique ==
  ASSUME NEW r \in Nat, NEW s \in Nat, NEW c \in Cols, NEW d \in Cols,
         c + Width * r = d + Width * s
  PROVE  r = s /\ c = d
  BY DivUnique, ConsoleAssumption DEF Cols

LEMMA SplitOf ==
  ASSUME NEW i \in Nat
  PROVE  RowOf(i) \in Nat /\ ColOf(i) \in Cols /\ i = ColOf(i) + Width * RowOf(i)
  BY ConsoleAssumption DEF RowOf, ColOf, Cols

LEMMA SplitAt ==
  ASSUME NEW r \in Nat, NEW c \in Cols
  PROVE  /\ c + Width * r \in Nat
         /\ RowOf(c + Width * r) = r /\ ColOf(c + Width * r) = c
<1>1. c + Width * r \in Nat
  BY ConsoleAssumption DEF Cols
<1> QED
  BY <1>1, SplitOf, SplitUnique

\* The cells of the screen are those of its rows.
LEMMA CellSplit ==
  ASSUME NEW r \in Nat, NEW c \in Cols
  PROVE  c + Width * r \in Cells <=> r < Height
<1>1. Width * r \in Nat /\ Width * Height \in Nat /\ Width \in Nat /\ Height \in Nat
  BY ConsoleAssumption
<1>2. CASE r < Height
  <2>1. PICK k \in Nat : Height = r + 1 + k
    <3>1. Height - (r + 1) \in Nat /\ Height = r + 1 + (Height - (r + 1))
      BY <1>1, <1>2
    <3> QED
      BY <3>1
  <2>2. Width * Height = Width * r + Width + Width * k
    BY <2>1, ConsoleAssumption
  <2>3. Width * k \in Nat
    BY <1>1
  <2> QED
    BY <1>1, <1>2, <2>2, <2>3 DEF Cells, Cols
<1>3. CASE ~(r < Height)
  <2>1. PICK k \in Nat : r = Height + k
    <3>1. r - Height \in Nat /\ r = Height + (r - Height)
      BY <1>1, <1>3
    <3> QED
      BY <3>1
  <2>2. Width * r = Width * Height + Width * k
    BY <2>1, ConsoleAssumption
  <2>3. Width * k \in Nat
    BY <1>1
  <2> QED
    BY <1>1, <1>3, <2>2, <2>3 DEF Cells, Cols
<1> QED
  BY <1>2, <1>3

LEMMA CellOf ==
  ASSUME NEW i \in Cells
  PROVE  /\ i \in Nat /\ RowOf(i) \in 0..(Height - 1) /\ ColOf(i) \in Cols
         /\ i = ColOf(i) + Width * RowOf(i)
<1>1. i \in Nat
  BY DEF Cells
<1>2. RowOf(i) \in Nat /\ ColOf(i) \in Cols /\ i = ColOf(i) + Width * RowOf(i)
  BY <1>1, SplitOf
<1>3. ColOf(i) + Width * RowOf(i) \in Cells <=> RowOf(i) < Height
  BY <1>2, CellSplit
<1>4. RowOf(i) < Height
  BY <1>2, <1>3
<1> QED
  BY <1>1, <1>2, <1>4, ConsoleAssumption

\* The cell one row further down.
LEMMA CellBelow ==
  ASSUME NEW i \in Cells, RowOf(i) < Height - 1
  PROVE  /\ i + Width \in Cells
         /\ RowOf(i + Width) = RowOf(i) + 1 /\ ColOf(i + Width) = ColOf(i)
<1>1. /\ RowOf(i) \in Nat /\ ColOf(i) \in Cols /\ i = ColOf(i) + Width * RowOf(i)
      /\ RowOf(i) + 1 \in Nat /\ RowOf(i) + 1 < Height /\ Height \in Nat
  BY CellOf, ConsoleAssumption
<1>2. i + Width = ColOf(i) + Width * (RowOf(i) + 1)
  BY <1>1, ConsoleAssumption DEF Cols
<1> QED
  BY <1>1, <1>2, SplitAt, CellSplit

LEMMA CellBefore ==
  ASSUME NEW i \in Cells
  PROVE  i < Width * (Height - 1) <=> RowOf(i) < Height - 1
<1>1. /\ RowOf(i) \in 0..(Height - 1) /\ ColOf(i) \in Cols
      /\ i = ColOf(i) + Width * RowOf(i) /\ i \in Nat
  BY CellOf
<1>2. CASE RowOf(i) < Height - 1
  <2>1. PICK k \in Nat : Height - 1 = RowOf(i) + 1 + k
    <3>1. Height - 1 - (RowOf(i) + 1) \in Nat
          /\ Height - 1 = RowOf(i) + 1 + (Height - 1 - (RowOf(i) + 1))
      BY <1>1, <1>2, ConsoleAssumption
    <3> QED
      BY <3>1
  <2>2. RowOf(i) \in Nat /\ Width \in Nat
    BY <1>1, ConsoleAssumption
  <2>3. Width * (Height - 1) = Width * RowOf(i) + Width + Width * k
    BY <2>1, <2>2
  <2>4. Width * k \in Nat /\ Width * RowOf(i) \in Nat
    BY <2>2
  <2> QED
    BY <1>1, <1>2, <2>2, <2>3, <2>4 DEF Cols
<1>3. CASE ~(RowOf(i) < Height - 1)
  <2>1. RowOf(i) = Height - 1
    BY <1>1, <1>3, ConsoleAssumption
  <2>2. Width * (Height - 1) \in Nat
    BY ConsoleAssumption
  <2> QED
    BY <1>1, <2>1, <2>2 DEF Cols
<1> QED
  BY <1>2, <1>3

-----------------------------------------------------------------------------
(***************************************************************************)
(* Pages                                                                   *)
(***************************************************************************)

Rows(S) == Seq([Cols -> S])
Pages(S) == [rows : Rows(S), row : Nat, col : 0..Width]

\* At least a screen of rows, and the position is in one of the last Height.
IsText(p) ==
    /\ \E S : p \in Pages(S)
    /\ Len(p.rows) >= Height
    /\ p.row <= Len(p.rows) /\ p.row > Len(p.rows) - Height

LEMMA TextFacts ==
  ASSUME NEW p, IsText(p)
  PROVE  /\ Len(p.rows) \in Nat /\ DOMAIN p.rows = 1..Len(p.rows)
         /\ p.row \in 1..Len(p.rows) /\ p.col \in 0..Width
         /\ \A n \in 1..Len(p.rows) : DOMAIN p.rows[n] = Cols
<1>1. PICK S : p \in Pages(S)
  BY DEF IsText
<1>2. p.rows \in Rows(S) /\ p.row \in Nat /\ p.col \in 0..Width
  BY <1>1 DEF Pages
<1>3. Len(p.rows) \in Nat /\ DOMAIN p.rows = 1..Len(p.rows)
  BY <1>2 DEF Rows
<1>4. \A n \in 1..Len(p.rows) : p.rows[n] \in [Cols -> S]
  BY <1>2 DEF Rows
<1>5. p.row \in 1..Len(p.rows)
  BY <1>2, <1>3, ConsoleAssumption DEF IsText
<1> QED
  BY <1>2, <1>3, <1>4, <1>5

LEMMA WidenSeq ==
  ASSUME NEW A, NEW B, A \subseteq B, NEW s \in Seq(A)
  PROVE  s \in Seq(B)
  OBVIOUS

LEMMA AppendFacts ==
  ASSUME NEW B, NEW s \in Seq(B), NEW e \in B
  PROVE  /\ Append(s, e) \in Seq(B) /\ Len(s) \in Nat
         /\ Len(Append(s, e)) = Len(s) + 1
         /\ \A n \in 1..Len(s) : Append(s, e)[n] = s[n]
         /\ Append(s, e)[Len(s) + 1] = e
  OBVIOUS

With(p, n, c, R) == [p EXCEPT !.row = n, !.col = c, !.rows = R]

LEMMA PageWith ==
  ASSUME NEW S, NEW p \in Pages(S), NEW T, NEW R \in Rows(T),
         NEW n \in Nat, NEW c \in 0..Width
  PROVE  /\ With(p, n, c, R) \in Pages(T) /\ With(p, n, c, R).rows = R
         /\ With(p, n, c, R).row = n /\ With(p, n, c, R).col = c
<1> DEFINE X == Rows(T)
           Y == Rows(S)
           C == 0..Width
<1>1. p \in [rows : Y, row : Nat, col : C] /\ R \in X /\ c \in C
  BY DEF Pages
<1> HIDE DEF X, Y, C
<1>2. LET q == [p EXCEPT !.row = n, !.col = c, !.rows = R]
      IN  /\ q \in [rows : X, row : Nat, col : C]
          /\ q.rows = R /\ q.row = n /\ q.col = c
  BY <1>1
<1> QED
  BY <1>2 DEF X, Y, C, Pages, With

\* The position moves inside its row.
LEMMA MovedText ==
  ASSUME NEW p, IsText(p), NEW c \in 0..Width
  PROVE  LET q == [p EXCEPT !.col = c]
         IN  IsText(q) /\ q.rows = p.rows /\ q.row = p.row /\ q.col = c
<1>1. PICK S : p \in Pages(S)
  BY DEF IsText
<1> DEFINE q == [p EXCEPT !.col = c]
<1>2. q \in Pages(S) /\ q.rows = p.rows /\ q.row = p.row /\ q.col = c
  BY <1>1 DEF Pages
<1> QED
  BY <1>2 DEF IsText

LEMMA NextText ==
  ASSUME NEW p, IsText(p), NEW k
  PROVE  LET q == NextRow(p, k)
         IN  /\ IsText(q) /\ q.row = p.row + 1 /\ q.col = 0
             /\ p.row < Len(p.rows) => q.rows = p.rows
             /\ p.row = Len(p.rows) =>
                   /\ Len(q.rows) = Len(p.rows) + 1
                   /\ \A n \in 1..Len(p.rows) : q.rows[n] = p.rows[n]
                   /\ q.rows[Len(q.rows)] = BlankRow(k)
<1>1. PICK S : p \in Pages(S)
  BY DEF IsText
<1> DEFINE q == NextRow(p, k)
           T == S \cup {<<"SP", k>>}
<1>2. p.rows \in Rows(T) /\ p.row \in Nat /\ p.col \in 0..Width
  <2>1. p.rows \in Rows(S) /\ p.row \in Nat /\ p.col \in 0..Width
    BY <1>1 DEF Pages
  <2>3. [Cols -> S] \subseteq [Cols -> T]
    OBVIOUS
  <2> HIDE DEF T
  <2> QED
    BY <2>1, <2>3, WidenSeq DEF Rows
<1>3. BlankRow(k) \in [Cols -> T]
  BY DEF BlankRow, Cols
<1> HIDE DEF T
<1> DEFINE A == Append(p.rows, BlankRow(k))
           R == IF p.row = Len(p.rows) THEN A ELSE p.rows
<1>4. /\ A \in Rows(T)
      /\ Len(A) = Len(p.rows) + 1
      /\ \A n \in 1..Len(p.rows) : A[n] = p.rows[n]
      /\ A[Len(p.rows) + 1] = BlankRow(k)
  BY <1>2, <1>3, AppendFacts DEF Rows
<1> HIDE DEF A
<1>5. R \in Rows(T)
  BY <1>2, <1>4
<1>6. p.row + 1 \in Nat /\ 0 \in 0..Width
  BY <1>2, ConsoleAssumption
<1>7. q \in Pages(T) /\ q.rows = R /\ q.row = p.row + 1 /\ q.col = 0
  <2>1. q = With(p, p.row + 1, 0, R)
    BY <1>1 DEF NextRow, A, Pages, With
  <2> HIDE DEF q, R
  <2>2. LET z == With(p, p.row + 1, 0, R)
        IN  z \in Pages(T) /\ z.rows = R /\ z.row = p.row + 1 /\ z.col = 0
    BY <1>1, <1>5, <1>6, PageWith
  <2> QED
    BY <2>1, <2>2
<1> HIDE DEF q
<1>8. Len(p.rows) \in Nat /\ p.row \in 1..Len(p.rows)
  BY TextFacts
<1>9. Len(q.rows) >= Height /\ q.row <= Len(q.rows) /\ q.row > Len(q.rows) - Height
  BY <1>4, <1>7, <1>8, ConsoleAssumption DEF IsText
<1>10. IsText(q)
  BY <1>7, <1>9 DEF IsText
<1>11. /\ p.row < Len(p.rows) => q.rows = p.rows
       /\ p.row = Len(p.rows) =>
             /\ Len(q.rows) = Len(p.rows) + 1
             /\ \A n \in 1..Len(p.rows) : q.rows[n] = p.rows[n]
             /\ q.rows[Len(q.rows)] = BlankRow(k)
  BY <1>4, <1>7, <1>8
<1>12. q.row = p.row + 1 /\ q.col = 0
  BY <1>7
<1> QED
  BY <1>10, <1>11, <1>12 DEF q

\* Cells of the row of the position are written, and it moves.
Written(p, f, c) == [p EXCEPT !.rows[p.row] = f, !.col = c]
Mark(c, k) == <<c, k>>

LEMMA WrittenText ==
  ASSUME NEW p, IsText(p), NEW c \in 0..Width, NEW f, DOMAIN f = Cols,
         f = [i \in Cols |-> f[i]]
  PROVE  LET q == Written(p, f, c)
         IN  /\ IsText(q) /\ q.row = p.row /\ q.col = c
             /\ Len(q.rows) = Len(p.rows) /\ q.rows[p.row] = f
             /\ \A n \in 1..Len(p.rows) : n # p.row => q.rows[n] = p.rows[n]
<1>1. PICK S : p \in Pages(S)
  BY DEF IsText
<1> DEFINE q == Written(p, f, c)
           T == S \cup {f[i] : i \in Cols}
<1>2. p.rows \in Rows(T) /\ p.row \in Nat /\ p.col \in 0..Width
  <2>1. p.rows \in Rows(S) /\ p.row \in Nat /\ p.col \in 0..Width
    BY <1>1 DEF Pages
  <2>3. [Cols -> S] \subseteq [Cols -> T]
    OBVIOUS
  <2> HIDE DEF T
  <2> QED
    BY <2>1, <2>3, WidenSeq DEF Rows
<1>3. f \in [Cols -> T]
  OBVIOUS
<1> HIDE DEF T
<1>5. Len(p.rows) \in Nat /\ DOMAIN p.rows = 1..Len(p.rows) /\ p.row \in 1..Len(p.rows)
  BY TextFacts
<1> DEFINE R == [p.rows EXCEPT ![p.row] = f]
<1>6. R \in Rows(T) /\ Len(R) = Len(p.rows)
  BY <1>2, <1>3, <1>5 DEF Rows
<1>7. R[p.row] = f /\ \A n \in 1..Len(p.rows) : n # p.row => R[n] = p.rows[n]
  BY <1>5
<1>8. q \in Pages(T) /\ q.rows = R /\ q.row = p.row /\ q.col = c
  <2>1. q = With(p, p.row, c, R)
    BY <1>1 DEF Pages, With, Written
  <2> HIDE DEF q, R
  <2>2. LET z == With(p, p.row, c, R)
        IN  z \in Pages(T) /\ z.rows = R /\ z.row = p.row /\ z.col = c
    BY <1>1, <1>2, <1>6, PageWith
  <2> QED
    BY <2>1, <2>2
<1> HIDE DEF q, R
<1>9. Len(q.rows) >= Height /\ q.row <= Len(q.rows) /\ q.row > Len(q.rows) - Height
  BY <1>6, <1>8 DEF IsText
<1>10. IsText(q)
  BY <1>8, <1>9 DEF IsText
<1> QED
  BY <1>6, <1>7, <1>8, <1>10 DEF q

Poked(p, c, k) == [p EXCEPT !.rows[p.row][p.col] = <<c, k>>, !.col = @ + 1]
Blanked(p, n, k) ==
    [p EXCEPT !.rows[p.row] =
                  [i \in DOMAIN @ |-> IF i \in p.col..(p.col + n - 1)
                                         THEN <<"SP", k>> ELSE @[i]],
              !.col = @ + n]

\* A character is put at the position.
LEMMA PokedText ==
  ASSUME NEW p, IsText(p), p.col < Width, NEW c, NEW k
  PROVE  LET q == Poked(p, c, k)
         IN  /\ IsText(q) /\ q.row = p.row /\ q.col = p.col + 1
             /\ Len(q.rows) = Len(p.rows)
             /\ \A n \in 1..Len(p.rows), i \in Cols :
                   /\ n = p.row /\ i = p.col => q.rows[n][i] = Mark(c, k)
                   /\ ~(n = p.row /\ i = p.col) => q.rows[n][i] = p.rows[n][i]
<1> DEFINE f == [p.rows[p.row] EXCEPT ![p.col] = Mark(c, k)]
           q == Written(p, f, p.col + 1)
<1>1. /\ Len(p.rows) \in Nat /\ DOMAIN p.rows = 1..Len(p.rows)
      /\ p.row \in 1..Len(p.rows) /\ p.col \in 0..Width
      /\ DOMAIN p.rows[p.row] = Cols
  BY TextFacts
<1>2. p.col + 1 \in 0..Width /\ p.col \in Cols
  BY <1>1, ConsoleAssumption DEF Cols
<1>3. DOMAIN f = Cols /\ f = [i \in Cols |-> f[i]]
  BY <1>1
<1>4. /\ f[p.col] = Mark(c, k)
      /\ \A i \in Cols : i # p.col => f[i] = p.rows[p.row][i]
  BY <1>1, <1>2
<1>5. Poked(p, c, k) = q
  BY DEF Poked, Written, Mark
<1> HIDE DEF f
<1>6. /\ IsText(q) /\ q.row = p.row /\ q.col = p.col + 1
      /\ Len(q.rows) = Len(p.rows) /\ q.rows[p.row] = f
      /\ \A n \in 1..Len(p.rows) : n # p.row => q.rows[n] = p.rows[n]
  BY <1>2, <1>3, WrittenText
<1> HIDE DEF q
<1> QED
  BY <1>4, <1>5, <1>6

\* Blanks are put from the position on.
LEMMA BlankedText ==
  ASSUME NEW p, IsText(p), NEW m \in Nat, p.col + m <= Width, NEW k
  PROVE  LET q == Blanked(p, m, k)
         IN  /\ IsText(q) /\ q.row = p.row /\ q.col = p.col + m
             /\ Len(q.rows) = Len(p.rows)
             /\ \A n \in 1..Len(p.rows), i \in Cols :
                   /\ n = p.row /\ i \in p.col..(p.col + m - 1) => q.rows[n][i] = Mark("SP", k)
                   /\ ~(n = p.row /\ i \in p.col..(p.col + m - 1)) => q.rows[n][i] = p.rows[n][i]
<1> DEFINE f == [i \in DOMAIN p.rows[p.row] |->
                    IF i \in p.col..(p.col + m - 1) THEN Mark("SP", k)
                    ELSE p.rows[p.row][i]]
           q == Written(p, f, p.col + m)
<1>1. /\ Len(p.rows) \in Nat /\ DOMAIN p.rows = 1..Len(p.rows)
      /\ p.row \in 1..Len(p.rows) /\ p.col \in 0..Width
      /\ DOMAIN p.rows[p.row] = Cols
  BY TextFacts
<1>2. p.col + m \in 0..Width
  BY <1>1, ConsoleAssumption DEF Cols
<1>3. DOMAIN f = Cols /\ f = [i \in Cols |-> f[i]]
  BY <1>1
<1>4. \A i \in Cols :
         /\ i \in p.col..(p.col + m - 1) => f[i] = Mark("SP", k)
         /\ i \notin p.col..(p.col + m - 1) => f[i] = p.rows[p.row][i]
  BY <1>1
<1>5. Blanked(p, m, k) = q
  BY DEF Blanked, Written, Mark
<1> HIDE DEF f
<1>6. /\ IsText(q) /\ q.row = p.row /\ q.col = p.col + m
      /\ Len(q.rows) = Len(p.rows) /\ q.rows[p.row] = f
      /\ \A n \in 1..Len(p.rows) : n # p.row => q.rows[n] = p.rows[n]
  BY <1>2, <1>3, WrittenText
<1> HIDE DEF q
<1> QED
  BY <1>4, <1>5, <1>6

\* Two pages with the same cells and the same position are one.
LEMMA TextEqual ==
  ASSUME NEW p, IsText(p), NEW q, IsText(q),
         p.row = q.row, p.col = q.col, Len(p.rows) = Len(q.rows),
         \A n \in 1..Len(p.rows), i \in Cols : p.rows[n][i] = q.rows[n][i]
  PROVE  p = q
<1>1. PICK S : p \in Pages(S)
  BY DEF IsText
<1>2. PICK T : q \in Pages(T)
  BY DEF IsText
<1>3. p.rows \in Rows(S) /\ q.rows \in Rows(T)
  BY <1>1, <1>2 DEF Pages
<1>4. \A n \in 1..Len(p.rows) : p.rows[n] = q.rows[n]
  <2> SUFFICES ASSUME NEW n \in 1..Len(p.rows) PROVE p.rows[n] = q.rows[n]
    OBVIOUS
  <2>1. p.rows[n] \in [Cols -> S] /\ q.rows[n] \in [Cols -> T]
    BY <1>3 DEF Rows
  <2> QED
    BY <2>1
<1>5. p.rows = q.rows
  <2> DEFINE A == [Cols -> S]
             B == [Cols -> T]
  <2>1. p.rows \in Seq(A) /\ q.rows \in Seq(B)
    BY <1>3 DEF Rows
  <2> HIDE DEF A, B
  <2> QED
    BY <1>4, <2>1
<1>6. DOMAIN p = {"rows", "row", "col"} /\ DOMAIN q = {"rows", "row", "col"}
  BY <1>1, <1>2 DEF Pages
<1> QED
  BY <1>1, <1>2, <1>5 DEF Pages

\* No blank changes nothing; and a blank is the first of several.
LEMMA NoSpaces ==
  ASSUME NEW p, IsText(p), p.col < Width, NEW k
  PROVE  Spaces(p, 0, k) = p
<1> DEFINE q == Blanked(p, 0, k)
<1>0. p.col \in 0..Width /\ p.col + 0 <= Width /\ Width \in Nat /\ p.row \in Nat
  BY TextFacts, ConsoleAssumption
<1>1. /\ IsText(q) /\ q.row = p.row /\ q.col = p.col + 0
      /\ Len(q.rows) = Len(p.rows)
      /\ \A n \in 1..Len(p.rows), i \in Cols :
            /\ n = p.row /\ i \in p.col..(p.col + 0 - 1) => q.rows[n][i] = Mark("SP", k)
            /\ ~(n = p.row /\ i \in p.col..(p.col + 0 - 1)) => q.rows[n][i] = p.rows[n][i]
  BY <1>0, BlankedText
<1>2. Spaces(p, 0, k) = IF q.col = Width THEN NextRow(q, k) ELSE q
  BY DEF Spaces, Blanked, Wrapped
<1> HIDE DEF q
<1>3. \A n \in 1..Len(q.rows), i \in Cols : q.rows[n][i] = p.rows[n][i]
  BY <1>0, <1>1
<1>4. q.col = p.col
  BY <1>0, <1>1
<1>5. q = p
  BY <1>1, <1>3, <1>4, TextEqual
<1>6. p.col # Width
  BY <1>0
<1> QED
  BY <1>2, <1>5, <1>6

LEMMA MoreSpaces ==
  ASSUME NEW p, IsText(p), NEW m \in Nat, p.col + m + 1 <= Width, NEW k
  PROVE  LET q == TypeOn(p, "SP", k)
         IN  Spaces(p, m + 1, k) = IF q.col = 0 /\ p.col + 1 = Width THEN q ELSE Spaces(q, m, k)
<1> DEFINE u == Poked(p, "SP", k)
           v == Blanked(u, m, k)
           w == Blanked(p, m + 1, k)
<1>0. /\ p.col \in 0..Width /\ Width \in Nat /\ p.row \in 1..Len(p.rows) /\ p.col < Width
      /\ m + 1 \in Nat /\ p.col + (m + 1) <= Width /\ Len(p.rows) \in Nat
  BY TextFacts, ConsoleAssumption
<1>1. /\ IsText(u) /\ u.row = p.row /\ u.col = p.col + 1
      /\ Len(u.rows) = Len(p.rows)
      /\ \A n \in 1..Len(p.rows), i \in Cols :
            /\ n = p.row /\ i = p.col => u.rows[n][i] = Mark("SP", k)
            /\ ~(n = p.row /\ i = p.col) => u.rows[n][i] = p.rows[n][i]
  BY <1>0, PokedText
<1>2. TypeOn(p, "SP", k) = IF u.col = Width THEN NextRow(u, k) ELSE u
  BY DEF TypeOn, Poked, Wrapped
<1>3. Spaces(p, m + 1, k) = IF w.col = Width THEN NextRow(w, k) ELSE w
  BY DEF Spaces, Blanked, Wrapped
<1>4. Spaces(u, m, k) = IF v.col = Width THEN NextRow(v, k) ELSE v
  BY DEF Spaces, Blanked, Wrapped
<1> HIDE DEF u
<1>5. /\ IsText(v) /\ v.row = u.row /\ v.col = u.col + m
      /\ Len(v.rows) = Len(u.rows)
      /\ \A n \in 1..Len(u.rows), i \in Cols :
            /\ n = u.row /\ i \in u.col..(u.col + m - 1) => v.rows[n][i] = Mark("SP", k)
            /\ ~(n = u.row /\ i \in u.col..(u.col + m - 1)) => v.rows[n][i] = u.rows[n][i]
  <2>1. u.col + m <= Width
    BY <1>0, <1>1
  <2> QED
    BY <1>1, <2>1, BlankedText
<1>6. /\ IsText(w) /\ w.row = p.row /\ w.col = p.col + (m + 1)
      /\ Len(w.rows) = Len(p.rows)
      /\ \A n \in 1..Len(p.rows), i \in Cols :
            /\ n = p.row /\ i \in p.col..(p.col + (m + 1) - 1) => w.rows[n][i] = Mark("SP", k)
            /\ ~(n = p.row /\ i \in p.col..(p.col + (m + 1) - 1)) => w.rows[n][i] = p.rows[n][i]
  <2>1. PICK z : z = m + 1
    OBVIOUS
  <2>2. z \in Nat /\ p.col + z <= Width
    BY <1>0, <2>1
  <2>3. LET W == Blanked(p, z, k)
        IN  /\ IsText(W) /\ W.row = p.row /\ W.col = p.col + z
            /\ Len(W.rows) = Len(p.rows)
            /\ \A n \in 1..Len(p.rows), i \in Cols :
                  /\ n = p.row /\ i \in p.col..(p.col + z - 1) => W.rows[n][i] = Mark("SP", k)
                  /\ ~(n = p.row /\ i \in p.col..(p.col + z - 1)) => W.rows[n][i] = p.rows[n][i]
    BY <2>2, BlankedText
  <2> QED
    BY <2>1, <2>3
<1> HIDE DEF v, w
<1>7. v = w
  <2>1. \A i \in Cols : i \in p.col..(p.col + (m + 1) - 1) <=>
                         (i = p.col \/ i \in u.col..(u.col + m - 1))
    BY <1>0, <1>1 DEF Cols
  <2>2. \A n \in 1..Len(v.rows), i \in Cols : v.rows[n][i] = w.rows[n][i]
    <3> SUFFICES ASSUME NEW n \in 1..Len(v.rows), NEW i \in Cols
                 PROVE  v.rows[n][i] = w.rows[n][i]
      OBVIOUS
    <3>1. n \in 1..Len(p.rows) /\ n \in 1..Len(u.rows)
      BY <1>1, <1>5
    <3>2. CASE n = p.row /\ i \in p.col..(p.col + (m + 1) - 1)
      <4>1. w.rows[n][i] = Mark("SP", k)
        BY <1>6, <3>1, <3>2
      <4>2. CASE i \in u.col..(u.col + m - 1)
        BY <1>1, <1>5, <3>1, <3>2, <4>1, <4>2
      <4>3. CASE i \notin u.col..(u.col + m - 1)
        <5>1. i = p.col
          BY <2>1, <3>2, <4>3
        <5>2. v.rows[n][i] = u.rows[n][i]
          BY <1>5, <3>1, <4>3
        <5>3. u.rows[n][i] = Mark("SP", k)
          BY <1>1, <3>1, <3>2, <5>1
        <5> QED
          BY <4>1, <5>2, <5>3
      <4> QED
        BY <4>2, <4>3
    <3>3. CASE ~(n = p.row /\ i \in p.col..(p.col + (m + 1) - 1))
      <4>1. w.rows[n][i] = p.rows[n][i]
        BY <1>6, <3>1, <3>3
      <4>2. ~(n = u.row /\ i \in u.col..(u.col + m - 1)) /\ ~(n = p.row /\ i = p.col)
        BY <1>1, <2>1, <3>3
      <4>3. v.rows[n][i] = u.rows[n][i]
        BY <1>5, <3>1, <4>2
      <4>4. u.rows[n][i] = p.rows[n][i]
        BY <1>1, <3>1, <4>2
      <4> QED
        BY <4>1, <4>3, <4>4
    <3> QED
      BY <3>2, <3>3
  <2>3. v.row = w.row /\ Len(v.rows) = Len(w.rows)
    BY <1>1, <1>5, <1>6
  <2>4. v.col = p.col + 1 + m /\ w.col = p.col + (m + 1)
    BY <1>1, <1>5, <1>6
  <2>5. v.col = w.col
    BY <1>0, <2>4
  <2> QED
    BY <1>5, <1>6, <2>2, <2>3, <2>5, TextEqual
<1>8. CASE p.col + 1 = Width
  <2>1. m = 0 /\ u.col = Width
    BY <1>0, <1>1, <1>8
  <2>2. v = u
    <3>1. \A n \in 1..Len(v.rows), i \in Cols : v.rows[n][i] = u.rows[n][i]
      BY <1>0, <1>1, <1>5, <2>1 DEF Cols
    <3>2. v.col = u.col
      BY <1>0, <1>1, <1>5, <2>1
    <3> QED
      BY <1>1, <1>5, <3>1, <3>2, TextEqual
  <2>3. Spaces(p, m + 1, k) = NextRow(u, k) /\ TypeOn(p, "SP", k) = NextRow(u, k)
    BY <1>2, <1>3, <1>7, <2>1, <2>2
  <2>4. NextRow(u, k).col = 0
    BY <1>1, NextText
  <2> QED
    BY <1>8, <2>3, <2>4
<1>9. CASE p.col + 1 # Width
  BY <1>0, <1>1, <1>2, <1>3, <1>4, <1>7, <1>9
<1> QED
  BY <1>8, <1>9

-----------------------------------------------------------------------------
(***************************************************************************)
(* Tabulators                                                              *)
(***************************************************************************)

\* The blanks a tabulator still has to print at column c: none at a stop.
Left(c) == IF c % Tab = 0 THEN 0 ELSE Tab - (c % Tab)

LEMMA TabColumns ==
  ASSUME NEW c \in Nat, c < Width
  PROVE  /\ c % Tab \in 0..(Tab - 1)
         /\ c + (Tab - (c % Tab)) <= Width
         /\ Left(0) = 0 /\ Left(c + 1) = Tab - (c % Tab) - 1
<1> DEFINE a == c \div Tab
           r == c % Tab
           b == Width \div Tab
<1>0. Tab \in Nat \ {0} /\ Width \in Nat /\ Width % Tab = 0
  BY ConsoleAssumption
<1>1. a \in Nat /\ r \in 0..(Tab - 1) /\ c = r + Tab * a
  BY <1>0, DivMod
<1>2. b \in Nat /\ Width = Tab * b
  BY <1>0, DivMod
<1>3. \A n \in Nat : \A q \in Nat, e \in 0..(Tab - 1) : n = e + Tab * q => n % Tab = e
  <2> SUFFICES ASSUME NEW n \in Nat, NEW q \in Nat, NEW e \in 0..(Tab - 1), n = e + Tab * q
               PROVE  n % Tab = e
    OBVIOUS
  <2>1. n \div Tab \in Nat /\ n % Tab \in 0..(Tab - 1) /\ n = (n % Tab) + Tab * (n \div Tab)
    BY <1>0, DivMod
  <2> QED
    BY <1>0, <2>1, DivUnique
<1> HIDE DEF a, r, b
<1>4. Tab * a \in Nat /\ Tab * b \in Nat /\ Tab * (a + 1) = Tab * a + Tab
  BY <1>0, <1>1, <1>2
<1>5. a < b
  <2> SUFFICES ASSUME ~(a < b) PROVE FALSE
    OBVIOUS
  <2>1. a = b \/ b < a
    BY <1>1, <1>2
  <2>2. Tab * a >= Tab * b
    BY <1>0, <1>1, <1>2, <1>4, <2>1, Multiples
  <2> QED
    BY <1>0, <1>1, <1>2, <1>4, <2>2
<1>6. Tab * b >= Tab * a + Tab
  BY <1>0, <1>1, <1>2, <1>5, Multiples
<1>7. c + (Tab - r) <= Width
  BY <1>0, <1>1, <1>2, <1>4, <1>6
<1>8. 0 % Tab = 0
  <2>1. 0 = 0 + Tab * 0 /\ 0 \in 0..(Tab - 1)
    BY <1>0
  <2> QED
    BY <1>3, <2>1
<1>9. (c + 1) % Tab = IF r = Tab - 1 THEN 0 ELSE r + 1
  <2>1. CASE r = Tab - 1
    <3>1. c + 1 = 0 + Tab * (a + 1) /\ c + 1 \in Nat /\ a + 1 \in Nat /\ 0 \in 0..(Tab - 1)
      BY <1>0, <1>1, <1>4, <2>1
    <3> QED
      BY <1>3, <2>1, <3>1
  <2>2. CASE r # Tab - 1
    <3>1. c + 1 = (r + 1) + Tab * a /\ c + 1 \in Nat /\ r + 1 \in 0..(Tab - 1)
      BY <1>0, <1>1, <1>4, <2>2
    <3> QED
      BY <1>1, <1>3, <2>2, <3>1
  <2> QED
    BY <2>1, <2>2
<1>10. Left(0) = 0 /\ Left(c + 1) = Tab - r - 1
  BY <1>0, <1>1, <1>8, <1>9 DEF Left
<1> QED
  BY <1>1, <1>7, <1>10 DEF r

\* A tabulator is a loop of blanks.
LEMMA TabLoop ==
  ASSUME NEW p, IsText(p), p.col < Width, NEW k
  PROVE  LET q == TypeOn(p, "SP", k)
         IN  Spaces(p, Tab - (p.col % Tab), k) = Spaces(q, Left(q.col), k)
<1> DEFINE u == Poked(p, "SP", k)
           q == TypeOn(p, "SP", k)
           m == Tab - (p.col % Tab) - 1
<1>0. p.col \in Nat /\ p.col \in 0..Width /\ Width \in Nat /\ Tab \in Nat \ {0}
  BY TextFacts, ConsoleAssumption
<1>1. /\ p.col % Tab \in 0..(Tab - 1) /\ p.col + (Tab - (p.col % Tab)) <= Width
      /\ Left(0) = 0 /\ Left(p.col + 1) = m
  BY <1>0, TabColumns
<1>2. m \in Nat /\ p.col + m + 1 <= Width /\ m + 1 = Tab - (p.col % Tab)
  BY <1>0, <1>1
<1>3. IsText(u) /\ u.col = p.col + 1
  BY PokedText
<1>4. q = IF u.col = Width THEN NextRow(u, k) ELSE u
  BY DEF TypeOn, Poked, Wrapped
<1> HIDE DEF u
<1>5. Spaces(p, m + 1, k) = IF q.col = 0 /\ p.col + 1 = Width THEN q ELSE Spaces(q, m, k)
  BY <1>2, MoreSpaces
<1> HIDE DEF q, m
<1>6. CASE p.col + 1 = Width
  <2>1. q = NextRow(u, k)
    BY <1>3, <1>4, <1>6
  <2>2. IsText(q) /\ q.col = 0
    BY <1>3, <2>1, NextText
  <2>3. Spaces(q, 0, k) = q
    BY <1>0, <1>6, <2>2, NoSpaces
  <2> QED
    BY <1>1, <1>2, <1>5, <1>6, <2>2, <2>3 DEF q
<1>7. CASE p.col + 1 # Width
  <2>1. q.col = p.col + 1
    BY <1>3, <1>4, <1>7
  <2> QED
    BY <1>0, <1>1, <1>2, <1>5, <1>7, <2>1 DEF q
<1> QED
  BY <1>6, <1>7

-----------------------------------------------------------------------------
(***************************************************************************)
(* What the screen shows at every label, for the only task that prints.    *)
(* p is the page so far; the page is ahead of it by the rest of a          *)
(* character and of a tabulator.                                           *)
(***************************************************************************)

Off(p) == Len(p.rows) - Height

\* The first n rows of the screen are those of p from row o + 1 on.
Shows(p, o, n) ==
    \A i \in Cells : RowOf(i) < n => buf[i] = p.rows[o + RowOf(i) + 1][ColOf(i)]

\* The new last row of p is still below the screen.
Below(p, o) ==
    /\ o = Off(p) - 1 /\ p.row = Len(p.rows) /\ p.col = 0
    /\ p.rows[p.row] = BlankRow(color)

Goal(t, p) ==
    /\ reg[t].tab => reg[t].c = "SP" /\ page = Spaces(p, Left(p.col), color)
    /\ ~reg[t].tab => page = p

Pending(t, p) ==
    /\ reg[t].tab => reg[t].c = "SP" /\ page = Spaces(p, Tab - (p.col % Tab), color)
    /\ ~reg[t].tab => reg[t].c # "HT" /\ page = Typed(p, reg[t].c, color)

Position(p, o) == x = p.col /\ y = p.row - o - 1
Held(t) == reg[t].x = x /\ reg[t].y = y

Before(t, p) ==
    /\ pc[t] \in {"load_x", "load_y", "back", "decrement", "return", "store"}
    /\ IsText(p) /\ p.col < Width
    /\ Shows(p, Off(p), Height) /\ Position(p, Off(p)) /\ Pending(t, p)
    /\ pc[t] = "load_y" => reg[t].x = x
    /\ pc[t] \in {"back", "decrement", "return", "store"} => Held(t)
    /\ pc[t] \in {"back", "decrement"} => reg[t].c = "BS"
    /\ pc[t] = "decrement" => x > 0
    /\ pc[t] = "return" => reg[t].c \in {"CR", "LF"}
    /\ pc[t] = "store" => reg[t].c \notin {"BS", "CR", "LF", "ctl"}

Stored(t, p) ==
    /\ pc[t] = "advance"
    /\ IsText(p) /\ p.col > 0
    /\ Shows(p, Off(p), Height) /\ Goal(t, Wrapped(p, color))
    /\ x = p.col - 1 /\ y = p.row - Off(p) - 1 /\ Held(t)

Wrapping(t, p, o) ==
    /\ pc[t] = "wrap"
    /\ IsText(p) /\ (o = Off(p) \/ Below(p, o))
    /\ Shows(p, o, Height) /\ Goal(t, Wrapped(p, color))
    /\ Position(p, o) /\ Held(t)

Feeding(t, p) ==
    /\ pc[t] \in {"feed", "wrap_feed"}
    /\ IsText(p)
    /\ Shows(p, Off(p), Height) /\ Goal(t, NextRow(p, color))
    /\ x = 0 /\ y = p.row - Off(p) - 1 /\ Held(t)

Scrolling(t, p, o) ==
    /\ pc[t] \in {"scroll", "copy"}
    /\ IsText(p) /\ p.col < Width /\ (o = Off(p) \/ Below(p, o))
    /\ Shows(p, o, Height) /\ Goal(t, p)
    /\ Position(p, o) /\ reg[t].y = y
    /\ pc[t] = "copy" => Below(p, o) /\ reg[t].blank = Blank

Copied(t, p) ==
    /\ pc[t] \in {"scroll_x", "scroll_y", "blank"}
    /\ IsText(p) /\ Below(p, Off(p) - 1)
    /\ Shows(p, Off(p), Height - 1) /\ Goal(t, p)
    /\ reg[t].y = Height - 1 /\ reg[t].blank = Blank
    /\ pc[t] # "scroll_x" => x = 0
    /\ pc[t] = "blank" => y = Height - 1

Clearing(t, p) ==
    /\ pc[t] \in {"clear_x", "clear_y"}
    /\ IsText(p) /\ p.col = 0 /\ p.row = Off(p) + 1
    /\ Shows(p, Off(p), Height) /\ ~reg[t].tab /\ page = p
    /\ pc[t] = "clear_y" => x = 0

Shown(t, p) ==
    /\ pc[t] \in {"cursor", "tab", "idle"}
    /\ IsText(p) /\ p.col < Width
    /\ Shows(p, Off(p), Height) /\ Goal(t, p) /\ Position(p, Off(p))
    /\ pc[t] = "tab" => reg[t].tab
    /\ pc[t] = "idle" => ~reg[t].tab
    /\ pc[t] # "cursor" => cursor = x + Width * y

Stage(t, p, o) ==
    \/ Before(t, p) \/ Stored(t, p) \/ Wrapping(t, p, o) \/ Feeding(t, p)
    \/ Scrolling(t, p, o) \/ Copied(t, p) \/ Clearing(t, p) \/ Shown(t, p)

ScreenInv ==
    /\ DOMAIN buf = Cells
    /\ \A t \in Tasks :
          writers = {t} => current = t /\ \E p, o : Stage(t, p, o)

LEMMA OffFacts ==
  ASSUME NEW p, IsText(p)
  PROVE  /\ Off(p) \in Nat /\ Len(p.rows) = Off(p) + Height
         /\ p.row \in (Off(p) + 1)..(Off(p) + Height)
         /\ p.row \in Nat /\ p.col \in Nat /\ p.col <= Width
<1>1. /\ Len(p.rows) \in Nat /\ p.row \in 1..Len(p.rows) /\ p.col \in 0..Width
      /\ Len(p.rows) >= Height /\ p.row > Len(p.rows) - Height
  BY TextFacts DEF IsText
<1> QED
  BY <1>1, ConsoleAssumption DEF Off

\* The effect of Load.
LEMMA LoadEffect ==
  ASSUME ConsoleInv, NEW t \in Tasks, NEW f \in Fields, NEW v, Load(t, f, v)
  PROVE  /\ reg'[t][f] = v
         /\ \A g \in Fields : g # f => reg'[t][g] = reg[t][g]
  BY DEF ConsoleInv, ConsoleType, Load

LEMMA GotoEffect ==
  ASSUME ConsoleInv, NEW t \in Tasks, NEW l, Goto(t, l)
  PROVE  pc'[t] = l
  BY DEF ConsoleInv, ConsoleType, Goto

LEMMA LoadXShow ==
  ASSUME ConsoleInv, NEW t \in Tasks, NEW p, Before(t, p), LoadX(t)
  PROVE  Before(t, p)'
<1>1. pc'[t] = "load_y"
  BY GotoEffect DEF LoadX
<1>2. reg'[t].x = x /\ reg'[t].c = reg[t].c /\ reg'[t].tab = reg[t].tab
  BY LoadEffect DEF LoadX, Fields
<1>3. x' = x /\ y' = y /\ buf' = buf /\ color' = color /\ page' = page
  BY DEF LoadX, screenVars
<1> QED
  BY <1>1, <1>2, <1>3 DEF Before, Shows, Position, Pending

LEMMA LoadYShow ==
  ASSUME ConsoleInv, NEW t \in Tasks, NEW p, Before(t, p), LoadY(t)
  PROVE  Before(t, p)' \/ Wrapping(t, p, Off(p))'
<1>0. pc[t] = "load_y" /\ reg[t].x = x
  BY DEF LoadY, Before
<1>2. /\ reg'[t].x = reg[t].x /\ reg'[t].y = y
      /\ reg'[t].c = reg[t].c /\ reg'[t].tab = reg[t].tab
  BY LoadEffect DEF LoadY, Fields
<1>3. x' = x /\ y' = y /\ buf' = buf /\ color' = color /\ page' = page
  BY DEF LoadY, screenVars
<1>4. Held(t)' /\ Position(p, Off(p))' /\ Shows(p, Off(p), Height)' /\ Pending(t, p)'
  BY <1>0, <1>2, <1>3 DEF Before, Held, Position, Shows, Pending
<1>5. IsText(p) /\ p.col < Width
  BY DEF Before
<1>6. CASE reg[t].c = "BS"
  <2>1. pc'[t] = "back"
    BY <1>6, GotoEffect DEF LoadY
  <2> QED
    BY <1>2, <1>4, <1>5, <1>6, <2>1 DEF Before
<1>7. CASE reg[t].c \in {"CR", "LF"}
  <2>1. pc'[t] = "return"
    BY <1>7, GotoEffect DEF LoadY
  <2> QED
    BY <1>2, <1>4, <1>5, <1>7, <2>1 DEF Before
<1>8. CASE reg[t].c = "ctl"
  <2>1. pc'[t] = "wrap"
    BY <1>8, GotoEffect DEF LoadY
  <2>2. ~reg[t].tab /\ page = p
    BY <1>8 DEF Before, Pending, Typed
  <2>3. p.col # Width
    BY <1>5, OffFacts
  <2>4. Goal(t, Wrapped(p, color))'
    BY <1>2, <1>3, <2>2, <2>3 DEF Goal, Wrapped
  <2> QED
    BY <1>4, <1>5, <2>1, <2>4 DEF Wrapping
<1>9. CASE reg[t].c \notin {"BS", "CR", "LF", "ctl"}
  <2>1. pc'[t] = "store"
    BY <1>9, GotoEffect DEF LoadY
  <2> QED
    BY <1>2, <1>4, <1>5, <1>9, <2>1 DEF Before
<1> QED
  BY <1>6, <1>7, <1>8, <1>9

\* A step that changes no row of the page.
LEMMA ShowsSame ==
  ASSUME NEW p, NEW q, q.rows = p.rows, Shows(p, Off(p), Height), buf' = buf
  PROVE  Shows(q, Off(q), Height)' /\ Off(q) = Off(p)
  BY DEF Shows, Off

LEMMA BackShow ==
  ASSUME ConsoleInv, NEW t \in Tasks, NEW p, Before(t, p), Back(t)
  PROVE  Before(t, p)' \/ Wrapping(t, p, Off(p))'
<1>0. /\ pc[t] = "back" /\ reg[t].c = "BS" /\ Held(t) /\ IsText(p) /\ p.col < Width
      /\ Shows(p, Off(p), Height) /\ Position(p, Off(p)) /\ Pending(t, p)
  BY DEF Back, Before
<1>1. p.col \in Nat /\ reg[t].x = p.col /\ x = p.col
  BY <1>0, OffFacts DEF Held, Position
<1>2. x' = x /\ y' = y /\ reg' = reg /\ buf' = buf /\ color' = color /\ page' = page
  BY DEF Back, screenVars
<1>3. Held(t)' /\ Position(p, Off(p))' /\ Shows(p, Off(p), Height)' /\ Pending(t, p)'
  BY <1>0, <1>2 DEF Held, Position, Shows, Pending
<1>4. CASE p.col > 0
  <2>1. pc'[t] = "decrement"
    BY <1>1, <1>4, GotoEffect DEF Back
  <2> QED
    BY <1>0, <1>1, <1>2, <1>3, <1>4, <2>1 DEF Before
<1>5. CASE p.col = 0
  <2>1. pc'[t] = "wrap"
    BY <1>1, <1>5, GotoEffect DEF Back
  <2>2. 0 \in 0..Width /\ p.col # Width
    BY <1>0, <1>5, ConsoleAssumption
  <2>3. page = [p EXCEPT !.col = 0] /\ ~reg[t].tab
    BY <1>0, <1>5 DEF Pending, Typed
  <2>4. page = p
    <3>1. PICK S : p \in Pages(S)
      BY <1>0 DEF IsText
    <3> QED
      BY <1>5, <2>3, <3>1 DEF Pages
  <2>5. Goal(t, Wrapped(p, color))'
    BY <1>2, <2>2, <2>3, <2>4 DEF Goal, Wrapped
  <2> QED
    BY <1>0, <1>3, <2>1, <2>5 DEF Wrapping
<1> QED
  BY <1>1, <1>4, <1>5

LEMMA DecrementShow ==
  ASSUME ConsoleInv, NEW t \in Tasks, NEW p, Before(t, p), Decrement(t)
  PROVE  \E q, o : Wrapping(t, q, o)'
<1>0. /\ pc[t] = "decrement" /\ reg[t].c = "BS" /\ Held(t) /\ IsText(p) /\ p.col < Width
      /\ Shows(p, Off(p), Height) /\ Position(p, Off(p)) /\ Pending(t, p) /\ x > 0
  BY DEF Decrement, Before
<1>1. p.col \in Nat /\ p.row \in Nat /\ Off(p) \in Nat /\ Width \in Nat /\ p.col > 0
  BY <1>0, OffFacts, ConsoleAssumption DEF Position
<1> DEFINE c == p.col - 1
           q == [p EXCEPT !.col = c]
<1>2. c \in 0..Width /\ c < Width
  BY <1>0, <1>1
<1>3. page = q /\ ~reg[t].tab
  BY <1>0, <1>1 DEF Pending, Typed
<1> HIDE DEF c
<1>4. IsText(q) /\ q.rows = p.rows /\ q.row = p.row /\ q.col = c
  BY <1>0, <1>2, MovedText
<1> HIDE DEF q
<1>5. pc'[t] = "wrap"
  BY GotoEffect DEF Decrement
<1>6. /\ x' = c /\ reg'[t].x = c /\ reg'[t].y = reg[t].y
      /\ reg'[t].c = reg[t].c /\ reg'[t].tab = reg[t].tab
  <2>1. x' = (reg[t].x - 1) % 65536 /\ Load(t, "x", x')
    BY DEF Decrement
  <2>2. reg[t].x = p.col /\ reg[t].x \in Word
    BY <1>0 DEF Held, Position, ConsoleInv, ConsoleType
  <2>3. x' = c
    BY <1>1, <2>1, <2>2 DEF c, Word
  <2>4. reg'[t].x = x' /\ reg'[t].y = reg[t].y /\ reg'[t].c = reg[t].c /\ reg'[t].tab = reg[t].tab
    BY <2>1, LoadEffect DEF Fields
  <2> QED
    BY <2>3, <2>4
<1>7. y' = y /\ buf' = buf /\ color' = color /\ page' = page
  BY DEF Decrement
<1>8. Shows(q, Off(q), Height)' /\ Off(q) = Off(p)
  BY <1>0, <1>4, <1>7, ShowsSame
<1>9. Held(t)' /\ Position(q, Off(q))'
  BY <1>0, <1>4, <1>6, <1>7, <1>8 DEF Held, Position
<1>10. Goal(t, Wrapped(q, color))'
  <2>1. q.col # Width
    BY <1>1, <1>2, <1>4
  <2> QED
    BY <1>3, <1>6, <1>7, <2>1 DEF Goal, Wrapped
<1>11. Wrapping(t, q, Off(q))'
  BY <1>4, <1>5, <1>8, <1>9, <1>10 DEF Wrapping
<1> QED
  BY <1>11

LEMMA ReturnShow ==
  ASSUME ConsoleInv, NEW t \in Tasks, NEW p, Before(t, p), Return(t)
  PROVE  \E q, o : Wrapping(t, q, o)' \/ Feeding(t, q)'
<1>0. /\ reg[t].c \in {"CR", "LF"} /\ Held(t) /\ IsText(p) /\ p.col < Width
      /\ Shows(p, Off(p), Height) /\ Position(p, Off(p)) /\ Pending(t, p)
  BY DEF Return, Before
<1>1. p.col \in Nat /\ p.row \in Nat /\ Off(p) \in Nat /\ Width \in Nat \ {0}
  BY <1>0, OffFacts, ConsoleAssumption
<1>2. x' = 0 /\ reg'[t].x = 0 /\ reg'[t].y = reg[t].y /\ reg'[t].c = reg[t].c /\ reg'[t].tab = reg[t].tab
  BY LoadEffect DEF Return, Fields
<1>3. y' = y /\ buf' = buf /\ color' = color /\ page' = page
  BY DEF Return
<1>4. ~reg[t].tab
  BY <1>0 DEF Pending
<1>5. CASE reg[t].c = "CR"
  <2> DEFINE q == [p EXCEPT !.col = 0]
  <2>1. page = q
    BY <1>0, <1>4, <1>5 DEF Pending, Typed
  <2>2. 0 \in 0..Width
    BY <1>1
  <2>3. IsText(q) /\ q.rows = p.rows /\ q.row = p.row /\ q.col = 0
    BY <1>0, <2>2, MovedText
  <2> HIDE DEF q
  <2>4. pc'[t] = "wrap"
    BY <1>5, GotoEffect DEF Return
  <2>5. Shows(q, Off(q), Height)' /\ Off(q) = Off(p)
    BY <1>0, <1>3, <2>3, ShowsSame
  <2>6. Held(t)' /\ Position(q, Off(q))'
    BY <1>0, <1>2, <1>3, <2>3, <2>5 DEF Held, Position
  <2>7. Goal(t, Wrapped(q, color))'
    BY <1>1, <1>2, <1>3, <1>4, <2>1, <2>3 DEF Goal, Wrapped
  <2>8. Wrapping(t, q, Off(q))'
    BY <2>3, <2>4, <2>5, <2>6, <2>7 DEF Wrapping
  <2> QED
    BY <2>8
<1>6. CASE reg[t].c = "LF"
  <2>1. page = NextRow(p, color)
    BY <1>0, <1>4, <1>6 DEF Pending, Typed
  <2>2. pc'[t] = "feed"
    BY <1>6, GotoEffect DEF Return
  <2>3. Shows(p, Off(p), Height)'
    BY <1>0, <1>3 DEF Shows
  <2>4. Goal(t, NextRow(p, color))'
    BY <1>2, <1>3, <1>4, <2>1 DEF Goal
  <2>5. Feeding(t, p)'
    BY <1>0, <1>2, <1>3, <2>2, <2>3, <2>4 DEF Feeding, Held, Position
  <2> QED
    BY <2>5
<1> QED
  BY <1>0, <1>5, <1>6

\* The cell of the character, and no other, is written.
LEMMA StoreShow ==
  ASSUME ConsoleInv, DOMAIN buf = Cells, NEW t \in Tasks, NEW p, Before(t, p), Store(t)
  PROVE  DOMAIN buf' = Cells /\ \E q : Stored(t, q)'
<1>0. /\ reg[t].c \notin {"BS", "CR", "LF", "ctl"} /\ Held(t) /\ IsText(p)
      /\ p.col < Width
      /\ Shows(p, Off(p), Height) /\ Position(p, Off(p)) /\ Pending(t, p)
  BY DEF Store, Before
<1>1. /\ p.col \in Nat /\ p.row \in Nat /\ Off(p) \in Nat /\ Width \in Nat \ {0}
      /\ Height \in Nat \ {0} /\ p.row \in (Off(p) + 1)..(Off(p) + Height)
      /\ Len(p.rows) = Off(p) + Height
  BY <1>0, OffFacts, ConsoleAssumption
<1>2. PICK c : c = reg[t].c
  OBVIOUS
<1>3. PICK k : k = color
  OBVIOUS
<1>4. PICK i : i = reg[t].x + Width * reg[t].y
  OBVIOUS
<1>5. PICK q : q = Poked(p, c, k)
  OBVIOUS
<1>6. /\ IsText(q) /\ q.row = p.row /\ q.col = p.col + 1
      /\ Len(q.rows) = Len(p.rows)
      /\ \A n \in 1..Len(p.rows), j \in Cols :
            /\ n = p.row /\ j = p.col => q.rows[n][j] = Mark(c, k)
            /\ ~(n = p.row /\ j = p.col) => q.rows[n][j] = p.rows[n][j]
  BY <1>0, <1>5, PokedText
<1>7. /\ x = p.col /\ y = p.row - Off(p) - 1 /\ x \in Cols /\ y \in Nat /\ y < Height
  BY <1>0, <1>1 DEF Position, Held, Cols
<1>16. i = x + Width * y
  BY <1>0, <1>4 DEF Held
<1>8. i \in Cells /\ RowOf(i) = y /\ ColOf(i) = x
  BY <1>7, <1>16, SplitAt, CellSplit
<1>9. buf' = [buf EXCEPT ![i] = Mark(c, k)]
  BY <1>2, <1>3, <1>4, <1>8 DEF Store, Mark
<1>10. pc'[t] = "advance"
  BY GotoEffect DEF Store
<1>11. UNCHANGED <<x, y, color, reg, page>>
  BY DEF Store
<1>12. DOMAIN buf' = Cells
  BY <1>9
<1>13. Shows(q, Off(q), Height)'
  <2> SUFFICES ASSUME NEW j \in Cells, RowOf(j) < Height
               PROVE  buf'[j] = q.rows[Off(q) + RowOf(j) + 1][ColOf(j)]
    BY DEF Shows
  <2>1. /\ RowOf(j) \in 0..(Height - 1) /\ ColOf(j) \in Cols
        /\ j = ColOf(j) + Width * RowOf(j)
    BY CellOf
  <2>2. Off(q) = Off(p)
    BY <1>6 DEF Off
  <2>3. Off(p) + RowOf(j) + 1 \in 1..Len(p.rows)
    BY <1>1, <2>1
  <2>4. buf[j] = p.rows[Off(p) + RowOf(j) + 1][ColOf(j)]
    BY <1>0, <2>1 DEF Shows
  <2>5. CASE j = i
    <3>0. RowOf(j) = y /\ ColOf(j) = x
      BY <1>8, <2>5
    <3>1. Off(p) + RowOf(j) + 1 = p.row /\ ColOf(j) = p.col
      BY <1>1, <1>7, <3>0
    <3>2. buf'[j] = Mark(c, k)
      BY <1>8, <1>9, <2>5
    <3> QED
      BY <1>6, <2>1, <2>2, <2>3, <3>1, <3>2
  <2>6. CASE j # i
    <3>1. ~(Off(p) + RowOf(j) + 1 = p.row /\ ColOf(j) = p.col)
      <4> SUFFICES ASSUME Off(p) + RowOf(j) + 1 = p.row, ColOf(j) = p.col PROVE FALSE
        OBVIOUS
      <4>1. RowOf(j) = y /\ ColOf(j) = x
        BY <1>1, <1>7, <2>1
      <4> QED
        BY <1>16, <2>1, <2>6, <4>1
    <3>2. buf'[j] = buf[j]
      BY <1>9, <2>6
    <3> QED
      BY <1>6, <2>1, <2>2, <2>3, <2>4, <3>1, <3>2
  <2> QED
    BY <2>5, <2>6
<1>14. Goal(t, Wrapped(q, color))'
  <2>1. Wrapped(q, color) = TypeOn(p, c, color)
    BY <1>3, <1>5 DEF TypeOn, Poked
  <2>2. CASE reg[t].tab
    <3>1. c = "SP" /\ page = Spaces(p, Tab - (p.col % Tab), color)
      BY <1>0, <1>2, <2>2 DEF Pending
    <3>2. LET z == TypeOn(p, "SP", color)
          IN  Spaces(p, Tab - (p.col % Tab), color) = Spaces(z, Left(z.col), color)
      BY <1>0, TabLoop
    <3>3. page = Spaces(Wrapped(q, color), Left(Wrapped(q, color).col), color)
      BY <2>1, <3>1, <3>2
    <3> QED
      BY <1>2, <1>11, <2>2, <3>1, <3>3 DEF Goal
  <2>3. CASE ~reg[t].tab
    <3>1. c \notin {"BS", "CR", "LF", "ctl", "HT"} /\ page = Typed(p, c, color)
      BY <1>0, <1>2, <2>3 DEF Pending
    <3>2. page = Wrapped(q, color)
      BY <2>1, <3>1 DEF Typed
    <3> QED
      BY <1>11, <2>3, <3>2 DEF Goal
  <2> QED
    BY <2>2, <2>3
<1>15. Stored(t, q)'
  <2>0. Off(q) = Off(p) /\ q.row = p.row /\ q.col = p.col + 1
    BY <1>6 DEF Off
  <2>1. x = p.col /\ y = p.row - Off(p) - 1 /\ p.col \in Nat
    BY <1>1, <1>7
  <2>2. q.col > 0 /\ x = q.col - 1
    BY <2>0, <2>1
  <2>3. y = q.row - Off(q) - 1
    BY <2>0, <2>1
  <2> QED
    BY <1>0, <1>6, <1>10, <1>11, <1>13, <1>14, <2>2, <2>3 DEF Stored, Held
<1> QED
  BY <1>12, <1>15

LEMMA AdvanceShow ==
  ASSUME ConsoleInv, NEW t \in Tasks, NEW p, Stored(t, p), Advance(t)
  PROVE  Wrapping(t, p, Off(p))'
<1>0. /\ IsText(p) /\ p.col > 0 /\ Shows(p, Off(p), Height) /\ Goal(t, Wrapped(p, color))
      /\ x = p.col - 1 /\ y = p.row - Off(p) - 1 /\ Held(t)
  BY DEF Stored
<1>1. x' = x + 1 /\ Load(t, "x", x + 1)
  <2>1. x' = (x + 1) % 65536 /\ Load(t, "x", x')
    BY <1>0 DEF Advance, Held
  <2>2. p.col <= Width /\ p.col \in Nat
    BY <1>0, OffFacts
  <2>3. x + 1 \in Nat /\ x + 1 < 65536
    BY <1>0, <2>2, ConsoleAssumption
  <2> QED
    BY <2>1, <2>3
<1>2. reg'[t].x = x + 1 /\ reg'[t].y = reg[t].y /\ reg'[t].c = reg[t].c /\ reg'[t].tab = reg[t].tab
  BY <1>1, LoadEffect DEF Fields
<1>3. pc'[t] = "wrap"
  BY GotoEffect DEF Advance
<1>4. y' = y /\ buf' = buf /\ color' = color /\ page' = page
  BY DEF Advance
<1>5. p.col \in Nat
  BY <1>0, OffFacts
<1>6. Held(t)' /\ Position(p, Off(p))'
  BY <1>0, <1>1, <1>2, <1>4, <1>5 DEF Held, Position
<1>7. Shows(p, Off(p), Height)'
  BY <1>0, <1>4 DEF Shows
<1>8. Goal(t, Wrapped(p, color))'
  BY <1>0, <1>2, <1>4 DEF Goal
<1> QED
  BY <1>0, <1>3, <1>6, <1>7, <1>8 DEF Wrapping

LEMMA WrapShow ==
  ASSUME ConsoleInv, NEW t \in Tasks, NEW p, NEW o, Wrapping(t, p, o), Wrap(t)
  PROVE  Feeding(t, p)' \/ Scrolling(t, p, o)'
<1>0. /\ IsText(p) /\ (o = Off(p) \/ Below(p, o)) /\ Shows(p, o, Height)
      /\ Goal(t, Wrapped(p, color)) /\ Position(p, o) /\ Held(t)
  BY DEF Wrapping
<1>1. p.col \in Nat /\ p.col <= Width /\ Width \in Nat \ {0}
  BY <1>0, OffFacts, ConsoleAssumption
<1>2. y' = y /\ buf' = buf /\ color' = color /\ page' = page
  BY DEF Wrap
<1>3. x = p.col /\ reg[t].x = x
  BY <1>0 DEF Position, Held
<1>4. CASE x >= Width
  <2>1. x' = 0 /\ Load(t, "x", 0) /\ Goto(t, "wrap_feed")
    BY <1>3, <1>4 DEF Wrap
  <2>2. reg'[t].x = 0 /\ reg'[t].y = reg[t].y /\ reg'[t].c = reg[t].c /\ reg'[t].tab = reg[t].tab
    BY <2>1, LoadEffect DEF Fields
  <2>3. pc'[t] = "wrap_feed"
    BY <2>1, GotoEffect
  <2>4. p.col = Width /\ o = Off(p)
    BY <1>0, <1>1, <1>3, <1>4 DEF Below
  <2>5. Goal(t, NextRow(p, color))'
    BY <1>0, <1>2, <2>2, <2>4 DEF Goal, Wrapped
  <2>6. Shows(p, Off(p), Height)'
    BY <1>0, <1>2, <2>4 DEF Shows
  <2> QED
    BY <1>0, <1>2, <2>1, <2>2, <2>3, <2>4, <2>5, <2>6 DEF Feeding, Position, Held
<1>5. CASE ~(x >= Width)
  <2>1. x' = x /\ reg' = reg /\ Goto(t, "scroll")
    BY <1>3, <1>5 DEF Wrap
  <2>2. pc'[t] = "scroll"
    BY <2>1, GotoEffect
  <2>3. p.col < Width /\ p.col # Width
    BY <1>1, <1>3, <1>5
  <2>4. Goal(t, p)'
    BY <1>0, <1>2, <2>1, <2>3 DEF Goal, Wrapped
  <2>5. Shows(p, o, Height)' /\ (o = Off(p) \/ Below(p, o))'
    BY <1>0, <1>2 DEF Shows, Below
  <2> QED
    BY <1>0, <1>2, <2>1, <2>2, <2>3, <2>4, <2>5 DEF Scrolling, Position, Held
<1> QED
  BY <1>4, <1>5

LEMMA FeedShow ==
  ASSUME ConsoleInv, NEW t \in Tasks, NEW p, Feeding(t, p), Feed(t)
  PROVE  \E q, o : Wrapping(t, q, o)' \/ Scrolling(t, q, o)'
<1>0. /\ IsText(p) /\ Shows(p, Off(p), Height) /\ Goal(t, NextRow(p, color))
      /\ x = 0 /\ y = p.row - Off(p) - 1 /\ Held(t)
  BY DEF Feeding
<1>1. /\ Off(p) \in Nat /\ Len(p.rows) = Off(p) + Height
      /\ p.row \in (Off(p) + 1)..(Off(p) + Height) /\ p.row \in Nat
      /\ Height \in Nat \ {0} /\ Width \in Nat \ {0}
  BY <1>0, OffFacts, ConsoleAssumption
<1>2. PICK k : k = color
  OBVIOUS
<1>3. PICK q : q = NextRow(p, k)
  OBVIOUS
<1>4. PICK o : o = Off(p)
  OBVIOUS
<1>5. /\ IsText(q) /\ q.row = p.row + 1 /\ q.col = 0
      /\ p.row < Len(p.rows) => q.rows = p.rows
      /\ p.row = Len(p.rows) =>
            /\ Len(q.rows) = Len(p.rows) + 1
            /\ \A n \in 1..Len(p.rows) : q.rows[n] = p.rows[n]
            /\ q.rows[Len(q.rows)] = BlankRow(k)
  BY <1>0, <1>3, NextText
<1>6. y' = y + 1 /\ Load(t, "y", y + 1)
  <2>1. y' = (y + 1) % 65536 /\ Load(t, "y", y')
    BY <1>0 DEF Feed, Held
  <2>2. y + 1 \in Nat /\ y + 1 < 65536
    BY <1>0, <1>1, ConsoleAssumption
  <2> QED
    BY <2>1, <2>2
<1>7. reg'[t].y = y + 1 /\ reg'[t].x = reg[t].x /\ reg'[t].c = reg[t].c /\ reg'[t].tab = reg[t].tab
  BY <1>6, LoadEffect DEF Fields
<1>8. x' = x /\ buf' = buf /\ color' = color /\ page' = page
  BY DEF Feed
<1>9. (o = Off(q) \/ Below(q, o))' /\ \A n \in 1..Len(p.rows) : q.rows[n] = p.rows[n]
  <2>1. CASE p.row < Len(p.rows)
    BY <1>4, <1>5, <2>1 DEF Off
  <2>2. CASE p.row = Len(p.rows)
    <3>1. o = Off(q) - 1 /\ q.row = Len(q.rows)
      BY <1>1, <1>4, <1>5, <2>2 DEF Off
    <3> QED
      BY <1>2, <1>5, <1>8, <2>2, <3>1 DEF Below
  <2> QED
    BY <1>1, <2>1, <2>2
<1>10. Shows(q, o, Height)'
  <2> SUFFICES ASSUME NEW j \in Cells, RowOf(j) < Height
               PROVE  buf'[j] = q.rows[o + RowOf(j) + 1][ColOf(j)]
    BY DEF Shows
  <2>1. RowOf(j) \in 0..(Height - 1)
    BY CellOf
  <2>2. o + RowOf(j) + 1 \in 1..Len(p.rows)
    BY <1>1, <1>4, <2>1
  <2>3. buf[j] = p.rows[o + RowOf(j) + 1][ColOf(j)]
    BY <1>0, <1>4, <2>1 DEF Shows
  <2> QED
    BY <1>8, <1>9, <2>2, <2>3
<1>11. Held(t)' /\ Position(q, o)'
  BY <1>0, <1>1, <1>4, <1>5, <1>6, <1>7, <1>8 DEF Held, Position
<1>12. Goal(t, q)'
  BY <1>0, <1>2, <1>3, <1>7, <1>8 DEF Goal
<1>13. CASE pc[t] = "feed"
  <2>1. pc'[t] = "wrap"
    BY <1>13, GotoEffect DEF Feed
  <2>2. Goal(t, Wrapped(q, color))'
    BY <1>1, <1>5, <1>12 DEF Goal, Wrapped
  <2> QED
    BY <1>5, <1>9, <1>10, <1>11, <2>1, <2>2 DEF Wrapping
<1>14. CASE pc[t] = "wrap_feed"
  <2>1. pc'[t] = "scroll"
    BY <1>14, GotoEffect DEF Feed
  <2>2. q.col < Width
    BY <1>1, <1>5
  <2> QED
    BY <1>5, <1>9, <1>10, <1>11, <1>12, <2>1, <2>2 DEF Scrolling, Held
<1> QED
  BY <1>13, <1>14 DEF Feeding

LEMMA ScrollTestShow ==
  ASSUME ConsoleInv, NEW t \in Tasks, NEW p, NEW o, Scrolling(t, p, o), ScrollTest(t)
  PROVE  Scrolling(t, p, o)' \/ Shown(t, p)'
<1>0. /\ IsText(p) /\ p.col < Width /\ (o = Off(p) \/ Below(p, o))
      /\ Shows(p, o, Height) /\ Goal(t, p) /\ Position(p, o) /\ reg[t].y = y
  BY DEF Scrolling
<1>1. /\ Off(p) \in Nat /\ Len(p.rows) = Off(p) + Height
      /\ p.row \in (Off(p) + 1)..(Off(p) + Height) /\ p.row \in Nat
      /\ Height \in Nat \ {0}
  BY <1>0, OffFacts, ConsoleAssumption
<1>2. Load(t, "blank", Blank) /\ Goto(t, IF y >= Height THEN "copy" ELSE "cursor")
  BY <1>0 DEF ScrollTest
<1>3. reg'[t].y = y /\ reg'[t].blank = Blank /\ reg'[t].c = reg[t].c /\ reg'[t].tab = reg[t].tab
  BY <1>0, <1>2, LoadEffect DEF Fields
<1>4. x' = x /\ y' = y /\ buf' = buf /\ color' = color /\ page' = page
  BY DEF ScrollTest, screenVars
<1>5. Shows(p, o, Height)' /\ Goal(t, p)' /\ Position(p, o)'
  BY <1>0, <1>3, <1>4 DEF Shows, Goal, Position
<1>6. CASE o = Off(p)
  <2>1. ~(y >= Height)
    BY <1>0, <1>1, <1>6 DEF Position
  <2>2. pc'[t] = "cursor"
    BY <1>2, <2>1, GotoEffect
  <2> QED
    BY <1>0, <1>5, <1>6, <2>2 DEF Shown
<1>7. CASE Below(p, o)
  <2>1. o = Off(p) - 1 /\ p.row = Len(p.rows)
    BY <1>7 DEF Below
  <2>2. y >= Height
    BY <1>0, <1>1, <2>1 DEF Position
  <2>3. pc'[t] = "copy"
    BY <1>2, <2>2, GotoEffect
  <2>4. Below(p, o)' /\ reg'[t].blank = Blank'
    BY <1>3, <1>4, <1>7 DEF Below, Blank
  <2> QED
    BY <1>0, <1>3, <1>4, <1>5, <2>3, <2>4 DEF Scrolling
<1> QED
  BY <1>0, <1>6, <1>7

\* One row is scrolled: vga_y is the height.
LEMMA CopyShow ==
  ASSUME ConsoleInv, NEW t \in Tasks, NEW p, NEW o, Scrolling(t, p, o), Copy(t)
  PROVE  DOMAIN buf' = Cells /\ Copied(t, p)'
<1>0. /\ IsText(p) /\ Below(p, o) /\ Shows(p, o, Height) /\ Goal(t, p)
      /\ Position(p, o) /\ reg[t].y = y /\ reg[t].blank = Blank
  BY DEF Scrolling, Copy
<1>1. /\ Off(p) \in Nat /\ Len(p.rows) = Off(p) + Height
      /\ p.row = Len(p.rows) /\ o = Off(p) - 1
      /\ Height \in Nat \ {0} /\ Width \in Nat \ {0}
  BY <1>0, OffFacts, ConsoleAssumption DEF Below
<1>2. y = Height
  BY <1>0, <1>1 DEF Position
<1>3. y_from(y) = 1
  BY <1>1, <1>2 DEF y_from
<1>4. y_to(y) = Height - 1
  BY <1>1, <1>3 DEF y_to
<1>5. /\ buf' = [i \in Cells |-> IF i < Width * y_to(y)
                                THEN buf[i + (Width * y_from(y))] ELSE buf[i]]
      /\ Load(t, "y", y_to(y))
  BY <1>0 DEF Copy
<1>6. buf' = [i \in Cells |-> IF i < Width * (Height - 1) THEN buf[i + Width] ELSE buf[i]]
  <2>1. Width * 1 = Width
    BY <1>1
  <2> QED
    BY <1>3, <1>4, <1>5, <2>1
<1>7. /\ reg'[t].y = Height - 1 /\ reg'[t].blank = reg[t].blank
      /\ reg'[t].c = reg[t].c /\ reg'[t].tab = reg[t].tab
  BY <1>4, <1>5, LoadEffect DEF Fields
<1>8. color' = color /\ page' = page
  BY DEF Copy
<1>9. pc'[t] = "scroll_x"
  BY GotoEffect DEF Copy
<1>10. Shows(p, Off(p), Height - 1)'
  <2> SUFFICES ASSUME NEW j \in Cells, RowOf(j) < Height - 1
               PROVE  buf'[j] = p.rows[Off(p) + RowOf(j) + 1][ColOf(j)]
    BY DEF Shows
  <2>1. RowOf(j) \in 0..(Height - 1)
    BY CellOf
  <2>2. /\ j + Width \in Cells /\ RowOf(j + Width) = RowOf(j) + 1
        /\ ColOf(j + Width) = ColOf(j)
    BY CellBelow
  <2>3. buf'[j] = buf[j + Width]
    BY <1>6, CellBefore
  <2>4. RowOf(j + Width) < Height
    BY <1>1, <2>1, <2>2
  <2>5. buf[j + Width] = p.rows[o + RowOf(j + Width) + 1][ColOf(j + Width)]
    BY <1>0, <2>2, <2>4 DEF Shows
  <2>6. o + RowOf(j + Width) + 1 = Off(p) + RowOf(j) + 1
    BY <1>1, <2>1, <2>2
  <2> QED
    BY <2>2, <2>3, <2>5, <2>6
<1>11. Below(p, Off(p) - 1)' /\ Goal(t, p)' /\ reg'[t].blank = Blank'
  BY <1>0, <1>7, <1>8 DEF Below, Goal, Blank
<1>12. DOMAIN buf' = Cells
  BY <1>6
<1> QED
  BY <1>0, <1>7, <1>9, <1>10, <1>11, <1>12 DEF Copied

LEMMA ScrollXShow ==
  ASSUME ConsoleInv, NEW t \in Tasks, NEW p, Copied(t, p), ScrollX(t)
  PROVE  Copied(t, p)'
<1>1. pc'[t] = "scroll_y"
  BY GotoEffect DEF ScrollX
<1>2. x' = 0 /\ UNCHANGED <<buf, reg, color, page>>
  BY DEF ScrollX
<1>3. Below(p, Off(p) - 1)' /\ Goal(t, p)' /\ Blank' = Blank /\ Shows(p, Off(p), Height - 1)'
  BY <1>2 DEF Copied, Below, Goal, Blank, Shows
<1> QED
  BY <1>1, <1>2, <1>3 DEF Copied

LEMMA ScrollYShow ==
  ASSUME ConsoleInv, NEW t \in Tasks, NEW p, Copied(t, p), ScrollY(t)
  PROVE  Copied(t, p)'
<1>1. pc'[t] = "blank"
  BY GotoEffect DEF ScrollY
<1>2. x' = x /\ y' = reg[t].y /\ UNCHANGED <<buf, reg, color, page>>
  BY DEF ScrollY
<1>3. Below(p, Off(p) - 1)' /\ Goal(t, p)' /\ Blank' = Blank /\ Shows(p, Off(p), Height - 1)'
  BY <1>2 DEF Copied, Below, Goal, Blank, Shows
<1>4. x = 0
  BY DEF ScrollY, Copied
<1> QED
  BY <1>1, <1>2, <1>3, <1>4 DEF Copied

LEMMA BlankRowsShow ==
  ASSUME ConsoleInv, NEW t \in Tasks, NEW p, Copied(t, p), BlankRows(t)
  PROVE  DOMAIN buf' = Cells /\ Shown(t, p)'
<1>0. /\ IsText(p) /\ Below(p, Off(p) - 1) /\ Shows(p, Off(p), Height - 1) /\ Goal(t, p)
      /\ reg[t].y = Height - 1 /\ reg[t].blank = Blank /\ x = 0 /\ y = Height - 1
  BY DEF Copied, BlankRows
<1>1. /\ Off(p) \in Nat /\ Len(p.rows) = Off(p) + Height
      /\ p.row = Len(p.rows) /\ p.col = 0 /\ p.rows[p.row] = BlankRow(color)
      /\ Height \in Nat \ {0} /\ Width \in Nat \ {0}
  BY <1>0, OffFacts, ConsoleAssumption DEF Below
<1>2. buf' = [i \in Cells |-> IF i >= Width * (Height - 1) THEN Blank ELSE buf[i]]
  BY <1>0 DEF BlankRows
<1>3. UNCHANGED <<x, y, color, reg, page>>
  BY DEF BlankRows
<1>4. pc'[t] = "cursor"
  BY GotoEffect DEF BlankRows
<1>5. Shows(p, Off(p), Height)'
  <2> SUFFICES ASSUME NEW j \in Cells, RowOf(j) < Height
               PROVE  buf'[j] = p.rows[Off(p) + RowOf(j) + 1][ColOf(j)]
    BY DEF Shows
  <2>1. RowOf(j) \in 0..(Height - 1) /\ ColOf(j) \in Cols /\ j \in Nat
    BY CellOf
  <2>2. Width * (Height - 1) \in Nat
    BY <1>1
  <2>3. CASE RowOf(j) < Height - 1
    <3>1. ~(j >= Width * (Height - 1))
      BY <2>1, <2>2, <2>3, CellBefore
    <3> QED
      BY <1>0, <1>2, <2>3, <3>1 DEF Shows
  <2>4. CASE ~(RowOf(j) < Height - 1)
    <3>1. j >= Width * (Height - 1)
      BY <2>1, <2>2, <2>4, CellBefore
    <3>2. buf'[j] = Blank
      BY <1>2, <3>1
    <3>3. Off(p) + RowOf(j) + 1 = p.row
      BY <1>1, <2>1, <2>4
    <3>4. BlankRow(color)[ColOf(j)] = Blank
      BY <2>1 DEF BlankRow, Blank, Cols
    <3> QED
      BY <1>1, <3>2, <3>3, <3>4
  <2> QED
    BY <2>3, <2>4
<1>6. Goal(t, p)' /\ Position(p, Off(p))'
  BY <1>0, <1>1, <1>3 DEF Goal, Position
<1>7. p.col < Width /\ DOMAIN buf' = Cells
  BY <1>1, <1>2
<1> QED
  BY <1>0, <1>4, <1>5, <1>6, <1>7 DEF Shown

LEMMA UpdateCursorShow ==
  ASSUME ConsoleInv, NEW t \in Tasks, NEW p, Shown(t, p), UpdateCursor(t)
  PROVE  Shown(t, p)'
<1>1. cursor' = x + Width * y /\ UNCHANGED <<buf, x, y, color, reg, page>>
  BY DEF UpdateCursor
<1>2. Shows(p, Off(p), Height)' /\ Goal(t, p)' /\ Position(p, Off(p))'
  BY <1>1 DEF Shown, Shows, Goal, Position
<1>3. CASE reg[t].tab
  <2>1. pc'[t] = "tab"
    BY <1>3, GotoEffect DEF UpdateCursor
  <2> QED
    BY <1>1, <1>2, <1>3, <2>1 DEF Shown
<1>4. CASE ~reg[t].tab
  <2>1. pc'[t] = "idle"
    BY <1>4, GotoEffect DEF UpdateCursor
  <2> QED
    BY <1>1, <1>2, <1>4, <2>1 DEF Shown
<1> QED
  BY <1>3, <1>4

LEMMA TabTestShow ==
  ASSUME ConsoleInv, NEW t \in Tasks, NEW p, Shown(t, p), TabTest(t)
  PROVE  Before(t, p)'
<1>0. /\ IsText(p) /\ p.col < Width /\ Shows(p, Off(p), Height)
      /\ page = Spaces(p, Left(p.col), color) /\ Position(p, Off(p))
      /\ reg[t].tab /\ reg[t].c = "SP"
  BY DEF Shown, TabTest, Goal
<1>1. pc'[t] = "load_x"
  BY GotoEffect DEF TabTest
<1>2. x' = x /\ y' = y /\ buf' = buf /\ color' = color /\ page' = page
  BY DEF TabTest, screenVars
<1>3. Shows(p, Off(p), Height)' /\ Position(p, Off(p))'
  BY <1>0, <1>2 DEF Shows, Position
<1>4. x = p.col
  BY <1>0 DEF Position
<1>5. Pending(t, p)'
  <2>1. CASE x % Tab # 0
    <3>1. reg' = reg
      BY <2>1 DEF TabTest
    <3>2. Left(p.col) = Tab - (p.col % Tab)
      BY <1>4, <2>1 DEF Left
    <3> QED
      BY <1>0, <1>2, <3>1, <3>2 DEF Pending
  <2>2. CASE x % Tab = 0
    <3>1. reg'[t].c = "ctl" /\ reg'[t].tab = FALSE
      BY <2>2 DEF TabTest, ConsoleInv, ConsoleType, Fields
    <3>2. Left(p.col) = 0
      BY <1>4, <2>2 DEF Left
    <3>3. page = p
      BY <1>0, <3>2, NoSpaces
    <3> QED
      BY <1>2, <3>1, <3>3 DEF Pending, Typed
  <2> QED
    BY <2>1, <2>2
<1> QED
  BY <1>0, <1>1, <1>3, <1>5 DEF Before

\* A character is printed at once on the page.
LEMMA PutcShow ==
  ASSUME ConsoleInv, NEW t \in Tasks, writers = {t}, NEW p, Shown(t, p), Putc(t)
  PROVE  Before(t, p)'
<1>0. /\ IsText(p) /\ p.col < Width /\ Shows(p, Off(p), Height)
      /\ page = p /\ Position(p, Off(p))
  BY DEF Shown, Putc, Begin, Goal
<1>1. pc'[t] = "load_x"
  BY GotoEffect DEF Putc
<1>2. x' = x /\ y' = y /\ buf' = buf /\ color' = color
  BY DEF Putc, screenVars
<1>3. page' = Typed(p, Op(t), color)
  BY <1>0 DEF Putc, Record
<1>4. Shows(p, Off(p), Height)' /\ Position(p, Off(p))'
  BY <1>0, <1>2 DEF Shows, Position
<1>5. Pending(t, p)'
  <2>1. CASE Op(t) = "HT"
    <3>1. reg'[t].c = "SP" /\ reg'[t].tab = TRUE
      BY <2>1 DEF Putc, ConsoleInv, ConsoleType, Fields
    <3>2. page' = Spaces(p, Tab - (p.col % Tab), color)
      BY <1>3, <2>1 DEF Typed
    <3> QED
      BY <1>2, <3>1, <3>2 DEF Pending
  <2>2. CASE Op(t) # "HT"
    <3>1. reg'[t].c = Op(t) /\ reg'[t].tab = FALSE
      BY <2>2 DEF Putc, ConsoleInv, ConsoleType, Fields
    <3>2. page' = Typed(p, reg'[t].c, color')
      BY <1>2, <1>3, <3>1
    <3> QED
      BY <2>2, <3>1, <3>2 DEF Pending
  <2> QED
    BY <2>1, <2>2
<1> QED
  BY <1>0, <1>1, <1>4, <1>5 DEF Before

\* A screen of blanks shows the empty page.
LEMMA ClearedShows ==
  ASSUME NEW k
  PROVE  LET q == Cleared(k)
         IN  /\ IsText(q) /\ q.col = 0 /\ q.row = 1 /\ Off(q) = 0
             /\ \A i \in Cells : q.rows[Off(q) + RowOf(i) + 1][ColOf(i)] = Mark("SP", k)
<1> DEFINE q == Cleared(k)
           R == [r \in 1..Height |-> BlankRow(k)]
           S == {Mark("SP", k)}
<1>0. Height \in Nat \ {0} /\ Width \in Nat \ {0}
  BY ConsoleAssumption
<1>1. q.rows = R /\ q.row = 1 /\ q.col = 0 /\ q = [rows |-> R, row |-> 1, col |-> 0]
  BY DEF Cleared
<1>2. BlankRow(k) \in [Cols -> S] /\ \A c \in Cols : BlankRow(k)[c] = Mark("SP", k)
  BY DEF BlankRow, Cols, Mark
<1> HIDE DEF S
<1>3. R \in Rows(S) /\ Len(R) = Height
  BY <1>0, <1>2 DEF Rows
<1>4. \A n \in 1..Height : R[n] = BlankRow(k)
  OBVIOUS
<1> HIDE DEF R
<1>5. q \in Pages(S)
  BY <1>0, <1>1, <1>3 DEF Pages
<1> HIDE DEF q
<1>6. IsText(q) /\ Off(q) = 0
  BY <1>0, <1>1, <1>3, <1>5 DEF IsText, Off
<1>7. ASSUME NEW i \in Cells PROVE q.rows[Off(q) + RowOf(i) + 1][ColOf(i)] = Mark("SP", k)
  <2>1. RowOf(i) \in 0..(Height - 1) /\ ColOf(i) \in Cols
    BY CellOf
  <2>2. Off(q) + RowOf(i) + 1 \in 1..Height
    BY <1>0, <1>6, <2>1
  <2> QED
    BY <1>1, <1>2, <1>4, <2>1, <2>2
<1> QED
  BY <1>1, <1>6, <1>7 DEF q

LEMMA ClearShow ==
  ASSUME ConsoleInv, NEW t \in Tasks, writers = {t}, NEW p, Shown(t, p), Clear(t)
  PROVE  DOMAIN buf' = Cells /\ \E q : Clearing(t, q)'
<1>0. PICK k : k = color
  OBVIOUS
<1>1. PICK q : q = Cleared(k)
  OBVIOUS
<1>2. /\ IsText(q) /\ q.col = 0 /\ q.row = 1 /\ Off(q) = 0
      /\ \A i \in Cells : q.rows[Off(q) + RowOf(i) + 1][ColOf(i)] = Mark("SP", k)
  BY <1>1, ClearedShows
<1>3. buf' = [i \in Cells |-> Mark("SP", k)]
  BY <1>0 DEF Clear, Blank, Mark
<1>4. page' = q /\ reg' = reg
  BY <1>0, <1>1 DEF Clear, Record
<1>5. pc'[t] = "clear_x"
  BY GotoEffect DEF Clear
<1>6. ~reg[t].tab
  BY DEF Shown, Clear, Begin
<1>7. Shows(q, Off(q), Height)'
  BY <1>2, <1>3 DEF Shows
<1>8. DOMAIN buf' = Cells
  BY <1>3
<1>9. Clearing(t, q)'
  BY <1>2, <1>4, <1>5, <1>6, <1>7 DEF Clearing
<1> QED
  BY <1>8, <1>9

LEMMA ClearXShow ==
  ASSUME ConsoleInv, NEW t \in Tasks, NEW p, Clearing(t, p), ClearX(t)
  PROVE  Clearing(t, p)'
<1>1. pc'[t] = "clear_y"
  BY GotoEffect DEF ClearX
<1>2. x' = 0 /\ UNCHANGED <<buf, reg, page>>
  BY DEF ClearX
<1>3. Shows(p, Off(p), Height)'
  BY <1>2 DEF Clearing, Shows
<1> QED
  BY <1>1, <1>2, <1>3 DEF Clearing

LEMMA ClearYShow ==
  ASSUME ConsoleInv, NEW t \in Tasks, NEW p, Clearing(t, p), ClearY(t)
  PROVE  Shown(t, p)'
<1>0. /\ IsText(p) /\ p.col = 0 /\ p.row = Off(p) + 1 /\ x = 0
      /\ ~reg[t].tab /\ page = p
  BY DEF Clearing, ClearY
<1>1. pc'[t] = "cursor"
  BY GotoEffect DEF ClearY
<1>2. x' = x /\ y' = 0 /\ UNCHANGED <<buf, reg, page>>
  BY DEF ClearY
<1>3. Shows(p, Off(p), Height)'
  BY <1>2 DEF Clearing, Shows
<1>4. Off(p) \in Nat /\ Width \in Nat \ {0}
  BY <1>0, OffFacts, ConsoleAssumption
<1>5. Position(p, Off(p))' /\ p.col < Width
  BY <1>0, <1>2, <1>4 DEF Position
<1>6. Goal(t, p)'
  BY <1>0, <1>2 DEF Goal
<1> QED
  BY <1>0, <1>1, <1>3, <1>5, <1>6 DEF Shown

\* Operations that print nothing.
LEMMA QuietShow ==
  ASSUME NEW t \in Tasks, NEW p, Shown(t, p), pc[t] = "idle",
         UNCHANGED <<buf, x, y, cursor, pc, reg, page>>
  PROVE  Shown(t, p)'
<1>1. page = p /\ ~reg[t].tab
  BY DEF Shown, Goal
<1>2. Shows(p, Off(p), Height)' /\ Position(p, Off(p))'
  BY DEF Shown, Shows, Position
<1>3. Goal(t, p)'
  BY <1>1 DEF Goal
<1> QED
  BY <1>2, <1>3 DEF Shown

LEMMA StageStays ==
  ASSUME NEW t \in Tasks, NEW p, NEW o, Stage(t, p, o),
         UNCHANGED <<buf, x, y, color, cursor, page>>, pc'[t] = pc[t],
         \A f \in Fields : reg'[t][f] = reg[t][f]
  PROVE  Stage(t, p, o)'
<1>0. /\ reg'[t].x = reg[t].x /\ reg'[t].y = reg[t].y /\ reg'[t].c = reg[t].c
      /\ reg'[t].tab = reg[t].tab /\ reg'[t].blank = reg[t].blank
  BY DEF Fields
<1>1. \A a, n : Shows(p, a, n) => Shows(p, a, n)'
  BY DEF Shows
<1>2. \A a : (Below(p, a) => Below(p, a)') /\ (Position(p, a) => Position(p, a)')
  BY DEF Below, Position
<1>3. \A q : Goal(t, q) => Goal(t, q)'
  BY <1>0 DEF Goal
<1>4. /\ Pending(t, p) => Pending(t, p)'
      /\ Held(t) => Held(t)'
      /\ Blank' = Blank
  BY <1>0 DEF Pending, Held, Blank
<1>5. CASE Before(t, p)
  BY <1>0, <1>1, <1>2, <1>4, <1>5 DEF Stage, Before
<1>6. CASE Stored(t, p)
  BY <1>0, <1>1, <1>3, <1>4, <1>6 DEF Stage, Stored
<1>7. CASE Wrapping(t, p, o)
  BY <1>0, <1>1, <1>2, <1>3, <1>4, <1>7 DEF Stage, Wrapping
<1>8. CASE Feeding(t, p)
  BY <1>0, <1>1, <1>3, <1>4, <1>8 DEF Stage, Feeding
<1>9. CASE Scrolling(t, p, o)
  BY <1>0, <1>1, <1>2, <1>3, <1>4, <1>9 DEF Stage, Scrolling
<1>10. CASE Copied(t, p)
  BY <1>0, <1>1, <1>2, <1>3, <1>4, <1>10 DEF Stage, Copied
<1>11. CASE Clearing(t, p)
  BY <1>0, <1>1, <1>11 DEF Stage, Clearing
<1>12. CASE Shown(t, p)
  BY <1>0, <1>1, <1>2, <1>3, <1>12 DEF Stage, Shown
<1> QED
  BY <1>5, <1>6, <1>7, <1>8, <1>9, <1>10, <1>11, <1>12 DEF Stage

\* What the only task that prints reads again has not changed.
LEMMA ReloadShow ==
  ASSUME ConsoleInv, NEW t \in Tasks, NEW p, NEW o, Stage(t, p, o), Reload(t)
  PROVE  Stage(t, p, o)'
<1>1. /\ pc[t] \in {"decrement", "advance", "wrap"} => reg[t].x = x
      /\ pc[t] \in {"feed", "wrap_feed", "scroll", "copy"} => reg[t].y = y
  BY DEF Stage, Before, Stored, Wrapping, Feeding, Scrolling, Copied, Clearing, Shown, Held
<1>2. \A f \in Fields : reg'[t][f] = reg[t][f]
  <2>1. CASE pc[t] \in {"decrement", "advance", "wrap"}
    <3>1. Load(t, "x", x) /\ reg[t].x = x /\ "x" \in Fields
      BY <1>1, <2>1 DEF Reload, Fields
    <3> QED
      BY <3>1, LoadEffect
  <2>2. CASE pc[t] \in {"feed", "wrap_feed", "scroll", "copy"}
    <3>1. Load(t, "y", y) /\ reg[t].y = y /\ "y" \in Fields
      BY <1>1, <2>2 DEF Reload, Fields
    <3> QED
      BY <3>1, LoadEffect
  <2> QED
    BY <2>1, <2>2 DEF Reload
<1>3. UNCHANGED <<buf, x, y, color, cursor, page>> /\ pc'[t] = pc[t]
  BY DEF Reload, screenVars
<1> QED
  BY <1>2, <1>3, StageStays

LEMMA ScreenInit == ConsoleInit => ScreenInv
<1> SUFFICES ASSUME ConsoleInit PROVE ScreenInv
  OBVIOUS
<1> DEFINE q == Cleared(15)
<1>0. color = 15 /\ page = q /\ x = 0 /\ y = 0 /\ cursor = 0
  BY DEF ConsoleInit
<1>1. /\ IsText(q) /\ q.col = 0 /\ q.row = 1 /\ Off(q) = 0
      /\ \A i \in Cells : q.rows[Off(q) + RowOf(i) + 1][ColOf(i)] = Mark("SP", 15)
  BY ClearedShows
<1> HIDE DEF q
<1>2. buf = [i \in Cells |-> Mark("SP", 15)]
  BY DEF ConsoleInit, Blank, Mark
<1>3. DOMAIN buf = Cells /\ Shows(q, Off(q), Height)
  BY <1>1, <1>2 DEF Shows
<1>4. Width \in Nat \ {0}
  BY ConsoleAssumption
<1>5. Position(q, Off(q)) /\ q.col < Width /\ cursor = x + Width * y
  BY <1>0, <1>1, <1>4 DEF Position
<1>6. ASSUME NEW t \in Tasks, writers = {t} PROVE current = t /\ Stage(t, q, 0)
  <2>1. current = t
    BY <1>6 DEF ConsoleInit
  <2>2. pc[t] = "idle" /\ reg[t].tab = FALSE
    BY DEF ConsoleInit
  <2>3. Shown(t, q)
    BY <1>0, <1>1, <1>3, <1>5, <2>2 DEF Shown, Goal
  <2> QED
    BY <2>1, <2>3 DEF Stage
<1> QED
  BY <1>3, <1>6 DEF ScreenInv

\* A step of the only task that prints.
LEMMA StageStep ==
  ASSUME ConsoleInv, DOMAIN buf = Cells, NEW t \in Tasks, writers = {t},
         NEW p, NEW o, Stage(t, p, o), [ConsoleNext]_consoleVars, current = t,
         writers' = {t}
  PROVE  current' = t /\ \E q, r : Stage(t, q, r)'
<1> USE DEF Stage
<1>1. CASE Call(t) \/ SetForeground(t) \/ SetBackground(t) \/ FreshLine(t)
  <2>1. pc[t] = "idle" /\ UNCHANGED <<buf, x, y, cursor, pc, reg, page, current>>
    BY <1>1 DEF Call, SetForeground, SetBackground, FreshLine, Begin, Rest, screenVars
  <2>2. Shown(t, p)
    BY <2>1 DEF Before, Stored, Wrapping, Feeding, Scrolling, Copied, Clearing
  <2> QED
    BY <2>1, <2>2, QuietShow
<1>2. CASE Terminate(t)
  BY <1>2 DEF Terminate
<1>3. CASE Clear(t)
  <2>1. Shown(t, p) /\ current' = t
    BY <1>3 DEF Clear, Rest, Before, Stored, Wrapping, Feeding, Scrolling, Copied, Clearing, Begin
  <2> QED
    BY <1>3, <2>1, ClearShow
<1>4. CASE ClearX(t)
  <2>1. Clearing(t, p) /\ current' = t
    BY <1>4 DEF ClearX, Rest, Before, Stored, Wrapping, Feeding, Scrolling, Copied, Shown
  <2> QED
    BY <1>4, <2>1, ClearXShow
<1>5. CASE ClearY(t)
  <2>1. Clearing(t, p) /\ current' = t
    BY <1>5 DEF ClearY, Rest, Before, Stored, Wrapping, Feeding, Scrolling, Copied, Shown
  <2> QED
    BY <1>5, <2>1, ClearYShow
<1>6. CASE Putc(t)
  <2>1. Shown(t, p) /\ current' = t
    BY <1>6 DEF Putc, Rest, Before, Stored, Wrapping, Feeding, Scrolling, Copied, Clearing, Begin
  <2> QED
    BY <1>6, <2>1, PutcShow
<1>7. CASE LoadX(t)
  <2>1. Before(t, p) /\ current' = t
    BY <1>7 DEF LoadX, Rest, Stored, Wrapping, Feeding, Scrolling, Copied, Clearing, Shown
  <2> QED
    BY <1>7, <2>1, LoadXShow
<1>8. CASE LoadY(t)
  <2>1. Before(t, p) /\ current' = t
    BY <1>8 DEF LoadY, Rest, Stored, Wrapping, Feeding, Scrolling, Copied, Clearing, Shown
  <2> QED
    BY <1>8, <2>1, LoadYShow
<1>9. CASE Back(t)
  <2>1. Before(t, p) /\ current' = t
    BY <1>9 DEF Back, Rest, Stored, Wrapping, Feeding, Scrolling, Copied, Clearing, Shown
  <2> QED
    BY <1>9, <2>1, BackShow
<1>24. CASE Decrement(t)
  <2>1. Before(t, p) /\ current' = t
    BY <1>24 DEF Decrement, Rest, Stored, Wrapping, Feeding, Scrolling, Copied, Clearing, Shown
  <2> QED
    BY <1>24, <2>1, DecrementShow
<1>25. CASE Reload(t)
  <2>1. Stage(t, p, o)' /\ current' = t
    BY <1>25, ReloadShow DEF Reload, Rest
  <2> QED
    BY <2>1
<1>10. CASE Return(t)
  <2>1. Before(t, p) /\ current' = t
    BY <1>10 DEF Return, Rest, Stored, Wrapping, Feeding, Scrolling, Copied, Clearing, Shown
  <2> QED
    BY <1>10, <2>1, ReturnShow
<1>11. CASE Store(t)
  <2>1. Before(t, p) /\ current' = t
    BY <1>11 DEF Store, Rest, Stored, Wrapping, Feeding, Scrolling, Copied, Clearing, Shown
  <2> QED
    BY <1>11, <2>1, StoreShow
<1>12. CASE Advance(t)
  <2>1. Stored(t, p) /\ current' = t
    BY <1>12 DEF Advance, Rest, Before, Wrapping, Feeding, Scrolling, Copied, Clearing, Shown
  <2> QED
    BY <1>12, <2>1, AdvanceShow
<1>13. CASE Wrap(t)
  <2>1. Wrapping(t, p, o) /\ current' = t
    BY <1>13 DEF Wrap, Rest, Before, Stored, Feeding, Scrolling, Copied, Clearing, Shown
  <2> QED
    BY <1>13, <2>1, WrapShow
<1>14. CASE Feed(t)
  <2>1. Feeding(t, p) /\ current' = t
    BY <1>14 DEF Feed, Rest, Before, Stored, Wrapping, Scrolling, Copied, Clearing, Shown
  <2> QED
    BY <1>14, <2>1, FeedShow
<1>15. CASE ScrollTest(t)
  <2>1. Scrolling(t, p, o) /\ current' = t
    BY <1>15 DEF ScrollTest, Rest, Before, Stored, Wrapping, Feeding, Copied, Clearing, Shown
  <2> QED
    BY <1>15, <2>1, ScrollTestShow
<1>16. CASE Copy(t)
  <2>1. Scrolling(t, p, o) /\ current' = t
    BY <1>16 DEF Copy, Rest, Before, Stored, Wrapping, Feeding, Copied, Clearing, Shown
  <2> QED
    BY <1>16, <2>1, CopyShow
<1>17. CASE ScrollX(t)
  <2>1. Copied(t, p) /\ current' = t
    BY <1>17 DEF ScrollX, Rest, Before, Stored, Wrapping, Feeding, Scrolling, Clearing, Shown
  <2> QED
    BY <1>17, <2>1, ScrollXShow
<1>18. CASE ScrollY(t)
  <2>1. Copied(t, p) /\ current' = t
    BY <1>18 DEF ScrollY, Rest, Before, Stored, Wrapping, Feeding, Scrolling, Clearing, Shown
  <2> QED
    BY <1>18, <2>1, ScrollYShow
<1>19. CASE BlankRows(t)
  <2>1. Copied(t, p) /\ current' = t
    BY <1>19 DEF BlankRows, Rest, Before, Stored, Wrapping, Feeding, Scrolling, Clearing, Shown
  <2> QED
    BY <1>19, <2>1, BlankRowsShow
<1>20. CASE UpdateCursor(t)
  <2>1. Shown(t, p) /\ current' = t
    BY <1>20 DEF UpdateCursor, Rest, Before, Stored, Wrapping, Feeding, Scrolling, Copied, Clearing
  <2> QED
    BY <1>20, <2>1, UpdateCursorShow
<1>21. CASE TabTest(t)
  <2>1. Shown(t, p) /\ current' = t
    BY <1>21 DEF TabTest, Rest, Before, Stored, Wrapping, Feeding, Scrolling, Copied, Clearing
  <2> QED
    BY <1>21, <2>1, TabTestShow
<1>22. CASE UNCHANGED consoleVars
  <2>1. UNCHANGED <<buf, x, y, color, cursor, pc, reg, page, current>>
    BY <1>22 DEF consoleVars, screenVars
  <2>2. Stage(t, p, o)'
    BY <2>1, StageStays
  <2> QED
    BY <2>1, <2>2
<1>23. ASSUME NEW u \in Tasks, Preempt(u) PROVE FALSE
  BY <1>23 DEF Preempt
<1> QED
  BY <1>1, <1>2, <1>3, <1>4, <1>5, <1>6, <1>7, <1>8, <1>9, <1>10, <1>11, <1>12, <1>13, <1>14, <1>15, <1>16, <1>17, <1>18, <1>19, <1>20, <1>21, <1>22, <1>23,
     <1>24, <1>25 DEF ConsoleNext

LEMMA CellsStay ==
  ASSUME DOMAIN buf = Cells, [ConsoleNext]_consoleVars
  PROVE  DOMAIN buf' = Cells
<1> DEFINE t == current
<1>1. CASE buf' = buf
  BY <1>1
<1>2. CASE Clear(t)
  BY <1>2 DEF Clear
<1>3. CASE Store(t)
  BY <1>3 DEF Store
<1>4. CASE Copy(t)
  BY <1>4 DEF Copy
<1>5. CASE BlankRows(t)
  BY <1>5 DEF BlankRows
<1> QED
  BY <1>1, <1>2, <1>3, <1>4, <1>5
  DEF ConsoleNext, consoleVars, screenVars, Preempt, Call, SetForeground, SetBackground,
      FreshLine, Terminate, ClearX, ClearY, Putc, LoadX, LoadY, Reload, Back, Decrement, Return,
      Advance, Wrap, Feed, ScrollTest, ScrollX, ScrollY, UpdateCursor, TabTest

\* No task becomes the only one that prints.
LEMMA WritersStay ==
  ASSUME [ConsoleNext]_consoleVars
  PROVE  writers' = writers \/ writers' = {}
  BY DEF ConsoleNext, consoleVars, screenVars, Preempt, Call, SetForeground, SetBackground,
      FreshLine, Terminate, ClearX, ClearY, Putc, LoadX, LoadY, Reload, Back, Decrement, Return,
      Advance, Wrap, Feed, ScrollTest, ScrollX, ScrollY, UpdateCursor, TabTest, Clear, Store, Copy,
      BlankRows, Rest

LEMMA ScreenStep == ConsoleInv /\ ScreenInv /\ [ConsoleNext]_consoleVars => ScreenInv'
<1> SUFFICES ASSUME ConsoleInv, ScreenInv, [ConsoleNext]_consoleVars PROVE ScreenInv'
  OBVIOUS
<1>1. DOMAIN buf' = Cells
  BY CellsStay DEF ScreenInv
<1>2. ASSUME NEW t \in Tasks, writers' = {t}
      PROVE  current' = t /\ \E q, r : Stage(t, q, r)'
  <2>1. writers = {t}
    BY <1>2, WritersStay
  <2>2. current = t /\ DOMAIN buf = Cells
    BY <2>1 DEF ScreenInv
  <2>3. PICK p, o : Stage(t, p, o)
    BY <2>1 DEF ScreenInv
  <2> QED
    BY <1>2, <2>1, <2>2, <2>3, StageStep
<1> QED
  BY <1>1, <1>2 DEF ScreenInv

\* Between any two characters of the only task that prints the screen shows the
\* end of what was printed, with its colours, and the cursor is at its position:
\* vga_putc, with its tabulators and line ends, vga_clear and vga_scroll lose
\* nothing, on a screen of any size.
THEOREM ScreenIsPage == ConsoleSpec => []ScreenShowsPage
<1>1. ScreenInv => ScreenShowsPage
  <2> SUFFICES ASSUME ScreenInv, Quiet, NEW t \in Tasks, writers = {t}
               PROVE  LET above == Len(page.rows) - Height
                      IN  /\ \A i \in Cells :
                                buf[i] = page.rows[above + (i \div Width) + 1][i % Width]
                          /\ x = page.col
                          /\ y = page.row - above - 1
                          /\ cursor = x + (Width * y)
    BY DEF ScreenShowsPage
  <2>1. PICK p, o : Stage(t, p, o)
    BY DEF ScreenInv
  <2>2. pc[t] = "idle"
    BY DEF Quiet
  <2>3. Shown(t, p)
    BY <2>1, <2>2 DEF Stage, Before, Stored, Wrapping, Feeding, Scrolling, Copied, Clearing
  <2>4. /\ page = p /\ Shows(p, Off(p), Height) /\ Position(p, Off(p))
        /\ cursor = x + Width * y
    BY <2>2, <2>3 DEF Shown, Goal
  <2>5. \A i \in Cells : RowOf(i) < Height
    BY CellOf, ConsoleAssumption
  <2>6. \A i \in Cells : buf[i] = p.rows[Off(p) + RowOf(i) + 1][ColOf(i)]
    BY <2>4, <2>5 DEF Shows
  <2> QED
    BY <2>4, <2>6 DEF Off, RowOf, ColOf, Position
<1> QED
  BY <1>1, ConsoleInitInv, ConsoleStepInv, ScreenInit, ScreenStep, PTL DEF ConsoleSpec
=============================================================================
