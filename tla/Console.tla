------------------------------ MODULE Console ------------------------------
(***************************************************************************)
(* The text console of src/src/io/vga.c, written to by one task or by      *)
(* several that the timer preempts: nothing protects vga_x, vga_y and the  *)
(* screen.                                                                 *)
(*                                                                         *)
(* A step is one access to the console's variables.  A value that a task   *)
(* has read or written before is in a register (-O2, the default of the    *)
(* Makefile), or is read from memory again (-O0): Reload does that, in a   *)
(* step of its own.  The colour is set in one step: nothing below is about *)
(* colours that two tasks set at once.                                     *)
(*                                                                         *)
(* page is what was printed, on a page of unlimited length; it is recorded *)
(* while a single task prints.                                             *)
(***************************************************************************)
EXTENDS Integers, Sequences

CONSTANTS
    Width, Height,   \* of the screen: 80 and 25 in the code
    Tab,             \* distance of tabulator stops: 8 in the code
    Tasks,           \* the tasks that may print
    Messages,        \* what they print: sequences of characters
    Panics,          \* messages of PANIC
    Colors,          \* foreground colours they choose
    MaxCalls,        \* bound on the calls made
    MaxSwitches      \* bound on the preemptions

ASSUME ConsoleAssumption ==
    /\ Width \in Nat \ {0} /\ Height \in Nat \ {0} /\ Tab \in Nat \ {0}
    /\ Width < 65536 /\ Height < 65536
    /\ Width % Tab = 0
    /\ Colors \subseteq 0..15

VARIABLES
    buf,      \* the cells of vga_buffer on the screen: pairs <<char, colour>>
    x, y,     \* vga_x, vga_y, of type uint16_t
    color,    \* vga_color: 16 * background + foreground
    cursor,   \* the position in the cursor registers of the display
    pc, reg,  \* where a task is in vga.c, and its registers: x, y, char, tab, blank
    todo,     \* the operations a task is still to perform
    writers,  \* the tasks that print
    current,  \* the one on the processor
    calls,    \* the number of calls made
    switches, \* the number of preemptions
    page      \* what was printed: rows, and the position on them

screenVars == <<buf, x, y, color, cursor>>
consoleVars == <<screenVars, pc, reg, todo, writers,
                 current, calls, switches, page>>

Cells == 0..(Width * Height - 1)
LIGHT_RED == 12
LIGHT_GREEN == 10

Blank == <<"SP", color>>
BlankRow(k) == [i \in 0..(Width - 1) |-> <<"SP", k>>]

-----------------------------------------------------------------------------
(***************************************************************************)
(* The page: what a reader of the text expects, printed in the colour k.   *)
(***************************************************************************)

\* Start a row; it is blank if nothing was there.
NextRow(p, k) ==
    [p EXCEPT !.row = @ + 1, !.col = 0,
              !.rows = IF p.row = Len(@) THEN Append(@, BlankRow(k)) ELSE @]

Wrapped(p, k) == IF p.col = Width THEN NextRow(p, k) ELSE p

TypeOn(p, c, k) ==
    Wrapped([p EXCEPT !.rows[p.row][p.col] = <<c, k>>, !.col = @ + 1], k)

\* n blanks; a tabulator ends in its row, as Width is a multiple of Tab.
Spaces(p, n, k) ==
    Wrapped([p EXCEPT !.rows[p.row] =
                          [i \in DOMAIN @ |-> IF i \in p.col..(p.col + n - 1)
                                                 THEN <<"SP", k>> ELSE @[i]],
                      !.col = @ + n], k)

Typed(p, c, k) ==
    CASE c = "BS" -> [p EXCEPT !.col = IF @ = 0 THEN 0 ELSE @ - 1]
      [] c = "HT" -> Spaces(p, Tab - (p.col % Tab), k)
      [] c = "CR" -> [p EXCEPT !.col = 0]
      [] c = "LF" -> NextRow(p, k)
      [] c = "ctl" -> p
      [] OTHER    -> TypeOn(p, c, k)

Cleared(k) == [rows |-> [r \in 1..Height |-> BlankRow(k)], row |-> 1, col |-> 0]

\* Performed by a task before its first step; nothing with several writers.
Record(p) == page' = IF \E t \in Tasks : writers = {t} THEN p ELSE page

-----------------------------------------------------------------------------
(***************************************************************************)
(* Operations of a task.  An operation is a pair <<what, argument>>.       *)
(***************************************************************************)

Puts(s) == [i \in DOMAIN s |-> <<"putc", s[i]>>]

\* The macro PANIC, up to its terminate().
Panic(s) ==
    <<<<"fg", LIGHT_RED>>, <<"bg", 0>>, <<"fresh", 0>>>> \o Puts(s)
        \o <<<<"terminate", 0>>>>

\* vga_init: the screen is cleared and the cursor moved to the origin.
ConsoleInit ==
    /\ color = 15
    /\ buf = [i \in Cells |-> Blank]
    /\ x = 0 /\ y = 0 /\ cursor = 0
    /\ pc = [t \in Tasks |-> "idle"]
    /\ reg = [t \in Tasks |-> [x |-> 0, y |-> 0, c |-> "ctl", tab |-> FALSE,
                             blank |-> Blank]]
    /\ todo = [t \in Tasks |-> <<>>]
    /\ writers \in SUBSET Tasks \ {{}}
    /\ current \in writers
    /\ calls = 0 /\ switches = 0
    /\ page = Cleared(color)

\* A task calls a function of the console or PANIC.
Call(t) ==
    /\ writers # {}
    /\ calls < MaxCalls
    /\ pc[t] = "idle" /\ todo[t] = <<>>
    /\ \E ops \in {Puts(s) : s \in Messages} \cup {Panic(s) : s \in Panics}
                  \cup {<<<<"fg", c>>>> : c \in Colors} \cup {<<<<"clear", 0>>>>} :
          todo' = [todo EXCEPT ![t] = ops]
    /\ calls' = calls + 1
    /\ UNCHANGED <<screenVars, pc, reg, writers, current, switches, page>>

Goto(t, l) == pc' = [pc EXCEPT ![t] = l]
Begin(t, op) == pc[t] = "idle" /\ todo[t] # <<>> /\ Head(todo[t])[1] = op
Op(t) == Head(todo[t])[2]
Done(t) == todo' = [todo EXCEPT ![t] = Tail(@)]
Load(t, field, v) == reg' = [reg EXCEPT ![t][field] = v]
Rest == UNCHANGED <<writers, current, calls, switches>>

\* vga_x or vga_y, which a register of t holds too, is read again.
Reload(t) ==
    /\ \/ pc[t] \in {"decrement", "advance", "wrap"} /\ Load(t, "x", x)
       \/ pc[t] \in {"feed", "wrap_feed", "scroll", "copy"} /\ Load(t, "y", y)
    /\ UNCHANGED <<screenVars, pc, todo, page>> /\ Rest

SetForeground(t) ==
    /\ Begin(t, "fg")
    /\ color' = 16 * (color \div 16) + Op(t)
    /\ Done(t)
    /\ UNCHANGED <<buf, x, y, cursor, pc, reg, page>> /\ Rest

SetBackground(t) ==
    /\ Begin(t, "bg")
    /\ color' = 16 * Op(t) + (color % 16)
    /\ Done(t)
    /\ UNCHANGED <<buf, x, y, cursor, pc, reg, page>> /\ Rest

\* if (vga_get_x() != 0) vga_putc('\n')
FreshLine(t) ==
    /\ Begin(t, "fresh")
    /\ todo' = [todo EXCEPT ![t] =
                   IF x = 0 THEN Tail(@) ELSE <<<<"putc", "LF">>>> \o Tail(@)]
    /\ UNCHANGED <<screenVars, pc, reg, page>> /\ Rest

\* cli; hlt: no task runs any more.
Terminate(t) ==
    /\ Begin(t, "terminate")
    /\ writers' = {}
    /\ todo' = [u \in Tasks |-> <<>>]
    /\ pc' = [u \in Tasks |-> IF pc[u] = "idle" THEN "idle" ELSE "stopped"]
    /\ UNCHANGED <<screenVars, reg, current, calls, switches, page>>

-----------------------------------------------------------------------------
(***************************************************************************)
(* vga_clear                                                               *)
(***************************************************************************)

Clear(t) ==
    /\ Begin(t, "clear")
    /\ buf' = [i \in Cells |-> Blank]
    /\ Done(t) /\ Goto(t, "clear_x")
    /\ Record(Cleared(color))
    /\ UNCHANGED <<x, y, color, cursor, reg>> /\ Rest

ClearX(t) ==
    /\ pc[t] = "clear_x"
    /\ x' = 0
    /\ Goto(t, "clear_y")
    /\ UNCHANGED <<buf, y, color, cursor, reg, todo, page>> /\ Rest

ClearY(t) ==
    /\ pc[t] = "clear_y"
    /\ y' = 0
    /\ Goto(t, "cursor")
    /\ UNCHANGED <<buf, x, color, cursor, reg, todo, page>> /\ Rest

-----------------------------------------------------------------------------
(***************************************************************************)
(* vga_putc                                                                *)
(***************************************************************************)

\* A tabulator is a loop of vga_putc(' ').
Putc(t) ==
    /\ Begin(t, "putc")
    /\ reg' = [reg EXCEPT ![t].c = IF Op(t) = "HT" THEN "SP" ELSE Op(t),
                          ![t].tab = Op(t) = "HT"]
    /\ Done(t) /\ Goto(t, "load_x")
    /\ Record(Typed(page, Op(t), color))
    /\ UNCHANGED screenVars /\ Rest

LoadX(t) ==
    /\ pc[t] = "load_x"
    /\ Load(t, "x", x) /\ Goto(t, "load_y")
    /\ UNCHANGED <<screenVars, todo, page>> /\ Rest

LoadY(t) ==
    /\ pc[t] = "load_y"
    /\ Load(t, "y", y)
    /\ Goto(t, CASE reg[t].c = "BS" -> "back"
                 [] reg[t].c \in {"CR", "LF"} -> "return"
                 [] reg[t].c = "ctl" -> "wrap"
                 [] OTHER -> "store")
    /\ UNCHANGED <<screenVars, todo, page>> /\ Rest

\* if (vga_x > 0)
Back(t) ==
    /\ pc[t] = "back"
    /\ Goto(t, IF reg[t].x > 0 THEN "decrement" ELSE "wrap")
    /\ UNCHANGED <<screenVars, reg, todo, page>> /\ Rest

\* --vga_x
Decrement(t) ==
    /\ pc[t] = "decrement"
    /\ x' = (reg[t].x - 1) % 65536 /\ Load(t, "x", x')
    /\ Goto(t, "wrap")
    /\ UNCHANGED <<buf, y, color, cursor, todo, page>> /\ Rest

Return(t) ==
    /\ pc[t] = "return"
    /\ x' = 0 /\ Load(t, "x", 0)
    /\ Goto(t, IF reg[t].c = "LF" THEN "feed" ELSE "wrap")
    /\ UNCHANGED <<buf, y, color, cursor, todo, page>> /\ Rest

\* The cell of the character; behind the screen it is written but never shown.
Store(t) ==
    LET i == reg[t].x + Width * reg[t].y
    IN  /\ pc[t] = "store"
        /\ buf' = IF i \in Cells THEN [buf EXCEPT ![i] = <<reg[t].c, color>>]
                  ELSE buf
        /\ Goto(t, "advance")
        /\ UNCHANGED <<x, y, color, cursor, reg, todo, page>> /\ Rest

Advance(t) ==
    /\ pc[t] = "advance"
    /\ x' = (reg[t].x + 1) % 65536 /\ Load(t, "x", x')
    /\ Goto(t, "wrap")
    /\ UNCHANGED <<buf, y, color, cursor, todo, page>> /\ Rest

\* Mutation of Wrap: one column too late.
WrapLate(t) ==
    /\ pc[t] = "wrap"
    /\ IF reg[t].x > Width
         THEN x' = 0 /\ Load(t, "x", 0) /\ Goto(t, "wrap_feed")
         ELSE UNCHANGED <<x, reg>> /\ Goto(t, "scroll")
    /\ UNCHANGED <<buf, y, color, cursor, todo, page>> /\ Rest

\* if (vga_x >= vga_width)
Wrap(t) ==
    /\ pc[t] = "wrap"
    /\ IF reg[t].x >= Width
         THEN x' = 0 /\ Load(t, "x", 0) /\ Goto(t, "wrap_feed")
         ELSE UNCHANGED <<x, reg>> /\ Goto(t, "scroll")
    /\ UNCHANGED <<buf, y, color, cursor, todo, page>> /\ Rest

\* ++vga_y, for '\n' and at the end of a row
Feed(t) ==
    /\ pc[t] \in {"feed", "wrap_feed"}
    /\ y' = (reg[t].y + 1) % 65536 /\ Load(t, "y", y')
    /\ Goto(t, IF pc[t] = "feed" THEN "wrap" ELSE "scroll")
    /\ UNCHANGED <<buf, x, color, cursor, todo, page>> /\ Rest

-----------------------------------------------------------------------------
(***************************************************************************)
(* vga_scroll.  The number of rows to scroll is vga_y - vga_height + 1 in  *)
(* uint16_t; vga_y is read for the test and once more for it.  The colour  *)
(* of the blanks is read first.                                            *)
(***************************************************************************)

\* Mutation of ScrollTest: only the row just below the screen scrolls.
ScrollTestEqual(t) ==
    /\ pc[t] = "scroll"
    /\ Load(t, "blank", Blank)
    /\ Goto(t, IF reg[t].y = Height THEN "copy" ELSE "cursor")
    /\ UNCHANGED <<screenVars, todo, page>> /\ Rest

ScrollTest(t) ==
    /\ pc[t] = "scroll"
    /\ Load(t, "blank", Blank)
    /\ Goto(t, IF reg[t].y >= Height THEN "copy" ELSE "cursor")
    /\ UNCHANGED <<screenVars, todo, page>> /\ Rest

y_from(v) == (v - Height + 1) % 65536
y_to(v) == IF y_from(v) < Height THEN Height - y_from(v) ELSE 0

\* The rows y_from.. are moved to 0..; y_to, their number, stays in a register.
Copy(t) ==
    LET v == reg[t].y
    IN  /\ pc[t] = "copy"
        /\ buf' = [i \in Cells |-> IF i < Width * y_to(v)
                                     THEN buf[i + (Width * y_from(v))] ELSE buf[i]]
        /\ Load(t, "y", y_to(v))
        /\ Goto(t, "scroll_x")
        /\ UNCHANGED <<x, y, color, cursor, todo, page>> /\ Rest

ScrollX(t) ==
    /\ pc[t] = "scroll_x"
    /\ x' = 0
    /\ Goto(t, "scroll_y")
    /\ UNCHANGED <<buf, y, color, cursor, reg, todo, page>> /\ Rest

ScrollY(t) ==
    /\ pc[t] = "scroll_y"
    /\ y' = reg[t].y
    /\ Goto(t, "blank")
    /\ UNCHANGED <<buf, x, color, cursor, reg, todo, page>> /\ Rest

\* Mutation of BlankRows: the last row keeps the text that was moved up.
BlankRowsNot(t) ==
    /\ pc[t] = "blank"
    /\ Goto(t, "cursor")
    /\ UNCHANGED <<screenVars, reg, todo, page>> /\ Rest

BlankRows(t) ==
    /\ pc[t] = "blank"
    /\ buf' = [i \in Cells |-> IF i >= Width * reg[t].y THEN reg[t].blank ELSE buf[i]]
    /\ Goto(t, "cursor")
    /\ UNCHANGED <<x, y, color, cursor, reg, todo, page>> /\ Rest

\* vga_update_cursor; then the next round of a tabulator, or the end.
UpdateCursor(t) ==
    /\ pc[t] = "cursor"
    /\ cursor' = x + Width * y
    /\ Goto(t, IF reg[t].tab THEN "tab" ELSE "idle")
    /\ UNCHANGED <<buf, x, y, color, reg, todo, page>> /\ Rest

\* while (vga_x & 7); behind the loop come the tests of any character
TabTest(t) ==
    /\ pc[t] = "tab"
    /\ IF x % Tab # 0
         THEN Goto(t, "load_x") /\ UNCHANGED reg
         ELSE /\ Goto(t, "load_x")
              /\ reg' = [reg EXCEPT ![t].c = "ctl", ![t].tab = FALSE]
    /\ UNCHANGED <<screenVars, todo, page>> /\ Rest

\* The timer fires: another task that prints goes on.
Preempt(t) ==
    /\ switches < MaxSwitches
    /\ t \in writers \ {current}
    /\ current' = t
    /\ switches' = switches + 1
    /\ UNCHANGED <<screenVars, pc, reg, todo, writers, calls, page>>

ConsoleNext ==
    \/ \E t \in Tasks : Preempt(t)
    \/ \E t \in {current} :
        \/ Call(t) \/ SetForeground(t) \/ SetBackground(t) \/ FreshLine(t)
        \/ Terminate(t)
        \/ Clear(t) \/ ClearX(t) \/ ClearY(t)
        \/ Putc(t) \/ LoadX(t) \/ LoadY(t) \/ Reload(t) \/ Back(t) \/ Decrement(t)
        \/ Return(t) \/ Store(t) \/ Advance(t) \/ Wrap(t) \/ Feed(t)
        \/ ScrollTest(t) \/ Copy(t) \/ ScrollX(t) \/ ScrollY(t) \/ BlankRows(t)
        \/ UpdateCursor(t) \/ TabTest(t)

ConsoleSpec == ConsoleInit /\ [][ConsoleNext]_consoleVars

-----------------------------------------------------------------------------
(***************************************************************************)
(* Properties                                                              *)
(***************************************************************************)

Quiet == \A t \in Tasks : pc[t] = "idle"

\* While one task prints, the screen shows the end of the page between any two
\* characters: vga_scroll loses no row, shows none twice and keeps the colours,
\* and vga_x, vga_y and the hardware cursor are at the position on the page.
ScreenShowsPage ==
    (Quiet /\ \E t \in Tasks : writers = {t}) =>
        LET above == Len(page.rows) - Height
        IN  /\ \A i \in Cells :
                  buf[i] = page.rows[above + (i \div Width) + 1][i % Width]
            /\ x = page.col
            /\ y = page.row - above - 1
            /\ cursor = x + (Width * y)

\* However the tasks preempted one another, once nobody is inside vga.c the
\* cursor is in a column of the screen and at most one row below it (there a
\* second vga_scroll leaves it that was overtaken by the first).
CursorReturns == Quiet => x < Width /\ y <= Height

\* While somebody is inside, each preemption lets the cursor, and the store of
\* a character before it is tested, get at most one column and one row further
\* out, on the right, below, or on the left: a backspace whose vga_x is set to 0
\* between its test and its --vga_x leaves 65535.
DriftIsBounded ==
    /\ x <= Width + switches \/ x >= 65536 - switches
    /\ y <= Height + switches
    /\ \A t \in Tasks :
          pc[t] = "store" =>
              /\ reg[t].x < Width + switches \/ reg[t].x > 65536 - switches
              /\ reg[t].y < Height + switches
=============================================================================
