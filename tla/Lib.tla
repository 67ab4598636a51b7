-------------------------------- MODULE Lib ---------------------------------
(***************************************************************************)
(* The support library: a printf, a division or a string function at work. *)
(***************************************************************************)
EXTENDS Printf, Strings

CONSTANT PrintCalls    \* pairs <<format, arguments>>

VARIABLE job    \* "print", "divide" or "string"

libVars == <<job, divVars, printfVars, stringVars>>

StringsIdle ==
    /\ mem = [x \in Addrs |-> 0] /\ mem0 = mem
    /\ k = 0 /\ result = 0 /\ spc = "idle"
    /\ scall = [fn |-> "strlen", a |-> 0, b |-> 0, n |-> 0]

LibInit ==
    /\ DivInit
    /\ \/ /\ job = "print" /\ \E c \in PrintCalls : PrintfInit(c[1], c[2])
          /\ StringsIdle
       \/ job = "divide" /\ PrintfInit(<<>>, <<>>) /\ StringsIdle
       \/ job = "string" /\ PrintfInit(<<>>, <<>>) /\ StringsInit

RunPrintf == job = "print" /\ PrintfNext /\ UNCHANGED <<job, stringVars>>

\* The compiler's calls, of which one is followed to its end.
CallDivision ==
    /\ job = "divide" /\ divCall = NoCall
    /\ \/ \E fn \in SignedFns, x, y \in SignedWord : Divide(fn, x, y)
       \/ \E fn \in UnsignedFns, x, y \in Word : Divide(fn, x, y)
    /\ UNCHANGED <<job, printfVars, stringVars>>

RunDivision ==
    job = "divide" /\ DivLoop /\ UNCHANGED <<job, printfVars, stringVars>>

RunString ==
    job = "string" /\ StringsNext /\ UNCHANGED <<job, divVars, printfVars>>

LibNext == RunPrintf \/ CallDivision \/ RunDivision \/ RunString

LibSpec == LibInit /\ [][LibNext]_libVars
=============================================================================
