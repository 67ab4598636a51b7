------------------------------ MODULE Division ------------------------------
(***************************************************************************)
(* The 64-bit division of the 32-bit loader, src/src/loader/divdi3.c: the  *)
(* shift-and-subtract loops of __udivmoddi4, and the four functions the    *)
(* compiler calls around it.                                               *)
(***************************************************************************)
EXTENDS Integers

CONSTANT Half    \* 2^63, scaled: words are 0..(2 * Half - 1)

ASSUME HalfAssumption == Half \in Nat \ {0}

Word == 0..(2 * Half - 1)
SignedWord == (-Half)..(Half - 1)
SignedFns == {"__divdi3", "__moddi3"}
UnsignedFns == {"__udivdi3", "__umoddi3"}

VARIABLES
    divCall,            \* the function called and its arguments
    dpc,                \* "idle", "shift", "reduce" or "done"
    num, den, quot, qbit    \* the variables of __udivmoddi4

divVars == <<divCall, dpc, num, den, quot, qbit>>

NoCall == [fn |-> "__udivdi3", num |-> 0, den |-> 1]

DivInit ==
    /\ divCall = NoCall /\ dpc = "idle"
    /\ num = 0 /\ den = 1 /\ quot = 0 /\ qbit = 0

\* The arguments without their signs; -INT64_MIN is 2^63 as an unsigned word.
Magnitude(x) == IF x < 0 THEN -x ELSE x

\* A division by 0 is undefined, and never ends here.
Divide(fn, n, d) ==
    /\ dpc = "idle" /\ d # 0
    /\ divCall' = [fn |-> fn, num |-> n, den |-> d]
    /\ num' = Magnitude(n) /\ den' = Magnitude(d)
    /\ quot' = 0 /\ qbit' = 1
    /\ dpc' = "shift"

\* Mutation of TopBit: the loop stops a bit too early.
TopBitEarly == 2 * den >= Half

\* (int64_t) den < 0
TopBit == den >= Half

Shift ==
    /\ dpc = "shift" /\ ~TopBit
    /\ den' = 2 * den /\ qbit' = 2 * qbit
    /\ UNCHANGED <<divCall, dpc, num, quot>>

Shifted ==
    /\ dpc = "shift" /\ TopBit
    /\ dpc' = "reduce"
    /\ UNCHANGED <<divCall, num, den, quot, qbit>>

Reduce ==
    /\ dpc = "reduce" /\ qbit # 0
    /\ IF den <= num THEN num' = num - den /\ quot' = quot + qbit
       ELSE UNCHANGED <<num, quot>>
    /\ den' = den \div 2 /\ qbit' = qbit \div 2
    /\ UNCHANGED <<divCall, dpc>>

Reduced ==
    /\ dpc = "reduce" /\ qbit = 0
    /\ dpc' = "done"
    /\ UNCHANGED <<divCall, num, den, quot, qbit>>

DivReturn ==
    /\ dpc = "done"
    /\ dpc' = "idle"
    /\ UNCHANGED <<divCall, num, den, quot, qbit>>

\* An int64_t from a value of twice its range.
ToSigned(x) ==
    IF x >= Half THEN x - 2 * Half ELSE IF x < -Half THEN x + 2 * Half ELSE x

\* What the function returns.
DivResult ==
    LET v   == IF divCall.fn \in {"__divdi3", "__udivdi3"} THEN quot ELSE num
        neg == ~(divCall.num < 0 <=> divCall.den < 0)
    IN  IF divCall.fn \in SignedFns THEN ToSigned(IF neg THEN -v ELSE v) ELSE v

DivLoop == Shift \/ Shifted \/ Reduce \/ Reduced

DivNext ==
    \/ \E fn \in SignedFns, n, d \in SignedWord : Divide(fn, n, d)
    \/ \E fn \in UnsignedFns, n, d \in Word : Divide(fn, n, d)
    \/ DivLoop \/ DivReturn

DivSpec == DivInit /\ [][DivNext]_divVars

-----------------------------------------------------------------------------
(***************************************************************************)
(* Properties                                                              *)
(***************************************************************************)

\* r is the remainder of a division of n by d towards 0.
IsRemainder(r, n, d) ==
    /\ Magnitude(r) < Magnitude(d)
    /\ (n >= 0 => r >= 0) /\ (n <= 0 => r <= 0)

\* The one quotient that is no int64_t.
Overflow == divCall.num = -Half /\ divCall.den = -1

\* When the loops end, what they return is the quotient and the remainder, and
\* the variables never outgrow a word; the signed functions round towards 0.
\* __moddi3 gives the remainder the sign of the quotient: where the divisor is
\* negative, C has the other sign.
DivisionExact ==
    /\ dpc # "idle" => {num, den, quot, qbit} \subseteq Word
    /\ dpc = "done" =>
         CASE divCall.fn \in {"__divdi3", "__udivdi3"} ->
                ~Overflow => IsRemainder(divCall.num - DivResult * divCall.den,
                                         divCall.num, divCall.den)
           [] divCall.fn \in {"__moddi3", "__umoddi3"} ->
                /\ IF divCall.num < 0 <=> divCall.den < 0
                     THEN DivResult >= 0 ELSE DivResult <= 0
                /\ Magnitude(DivResult) < Magnitude(divCall.den)
                /\ \E q \in Word : Magnitude(divCall.num) =
                      q * Magnitude(divCall.den) + Magnitude(DivResult)
=============================================================================
