----------------------------- MODULE LibProofs ------------------------------
(***************************************************************************)
(* The support library, for every word size, every memory and all          *)
(* arguments: the division of the loader and the functions of string.c.    *)
(***************************************************************************)
EXTENDS Division, Strings, WellFoundedInduction, TLAPS

-----------------------------------------------------------------------------
(***************************************************************************)
(* __udivmoddi4 and the functions around it divide, for every word size.   *)
(*                                                                         *)
(* The loops keep den = den0 * qbit and num0 = quot * den0 + num, with     *)
(* num < 2 * den in the second one.  That halving den and qbit is exact    *)
(* needs that qbit is a power of two until it is 0; the set of the powers  *)
(* is the least one that has 1 and is closed under doubling, so that no    *)
(* induction is needed.                                                    *)
(***************************************************************************)

Closed(S) == 1 \in S /\ \A x \in S : 2 * x \in S
PowersOfTwo == {q \in Nat : \A S \in SUBSET Nat : Closed(S) => q \in S}

\* The powers of two are closed, and each but 1 is twice another.
LEMMA PowersClosed == Closed(PowersOfTwo) /\ PowersOfTwo \subseteq Nat
  BY DEF PowersOfTwo, Closed

LEMMA PowersHalve ==
  ASSUME NEW q \in PowersOfTwo
  PROVE  q = 1 \/ \E r \in PowersOfTwo : q = 2 * r
<1> DEFINE S == {1} \cup {2 * r : r \in PowersOfTwo}
<1>1. S \in SUBSET Nat
  BY PowersClosed
<1>2. S \subseteq PowersOfTwo
  BY PowersClosed DEF Closed
<1>3. \A x \in S : 2 * x \in S
  BY <1>2
<1>4. Closed(S)
  BY <1>3 DEF Closed
<1>5. q \in S
  BY <1>1, <1>4 DEF PowersOfTwo
<1> QED
  BY <1>5

LEMMA PowersPositive == \A q \in PowersOfTwo : q \in Nat /\ q > 0
<1> DEFINE S == Nat \ {0}
<1>1. S \in SUBSET Nat /\ Closed(S)
  BY DEF Closed
<1> QED
  BY <1>1 DEF PowersOfTwo

-----------------------------------------------------------------------------
(***************************************************************************)
(* The inductive invariant                                                 *)
(***************************************************************************)

Num0 == Magnitude(divCall.num)
Den0 == Magnitude(divCall.den)

CallOK ==
    \/ divCall.fn \in SignedFns /\ divCall.num \in SignedWord /\ divCall.den \in SignedWord
    \/ divCall.fn \in UnsignedFns /\ divCall.num \in Word /\ divCall.den \in Word

DivType ==
    /\ dpc \in {"idle", "shift", "reduce", "done"}
    /\ CallOK /\ divCall.den # 0
    /\ num \in Nat /\ den \in Nat /\ quot \in Nat /\ qbit \in Nat

Shifting ==
    dpc = "shift" =>
        /\ num = Num0 /\ quot = 0 /\ den < 2 * Half
        /\ qbit \in PowersOfTwo /\ den = Den0 * qbit

Reducing ==
    dpc \in {"reduce", "done"} =>
        /\ Num0 = quot * Den0 + num /\ den < 2 * Half
        /\ qbit \in PowersOfTwo \cup {0}
        /\ qbit # 0 => den = Den0 * qbit /\ num < 2 * den
        /\ qbit = 0 => num < Den0
        /\ dpc = "done" => qbit = 0

DivInv == DivType /\ Shifting /\ Reducing

LEMMA Magnitudes ==
  ASSUME CallOK, divCall.den # 0
  PROVE  /\ Num0 \in Word /\ Den0 \in Word \ {0}
         /\ divCall.num \in Int /\ divCall.den \in Int
  BY HalfAssumption DEF CallOK, Num0, Den0, Magnitude, Word, SignedWord

LEMMA DivInitInv == DivInit => DivInv
  BY HalfAssumption DEF DivInit, DivInv, DivType, Shifting, Reducing, CallOK, NoCall,
     SignedFns, UnsignedFns, Word

LEMMA DivideInv ==
  ASSUME DivInv, NEW fn, NEW n, NEW d, Divide(fn, n, d),
         \/ fn \in SignedFns /\ n \in SignedWord /\ d \in SignedWord
         \/ fn \in UnsignedFns /\ n \in Word /\ d \in Word
  PROVE  DivInv'
<1>1. divCall'.fn = fn /\ divCall'.num = n /\ divCall'.den = d
  BY DEF Divide
<1>2. CallOK' /\ divCall'.den # 0
  BY <1>1 DEF CallOK, Divide
<1>3. Magnitude(n) \in Word /\ Magnitude(d) \in Word
  BY HalfAssumption DEF Magnitude, Word, SignedWord
<1>4. DivType'
  BY <1>2, <1>3, HalfAssumption DEF DivType, Divide, Word
<1>5. Shifting'
  BY <1>1, <1>3, HalfAssumption, PowersClosed
     DEF Shifting, Divide, Num0, Den0, Word, Closed
<1>6. Reducing'
  BY DEF Reducing, Divide
<1> QED
  BY <1>4, <1>5, <1>6 DEF DivInv

LEMMA ShiftInv == ASSUME DivInv, Shift PROVE DivInv'
<1> USE DEF DivInv, DivType
<1>1. Num0 \in Nat /\ Den0 \in Nat /\ Num0' = Num0 /\ Den0' = Den0
  BY Magnitudes DEF Shift, Num0, Den0, Word
<1>2. qbit \in PowersOfTwo /\ qbit' = 2 * qbit /\ qbit' \in PowersOfTwo
  BY PowersClosed DEF Shift, Shifting, Closed
<1>3. den = Den0 * qbit
  BY DEF Shift, Shifting
<1>4. 2 * (Den0 * qbit) = Den0 * (2 * qbit)
  BY <1>1
<1>5. den' = Den0 * qbit'
  BY <1>2, <1>3, <1>4 DEF Shift
<1>6. DivType'
  BY DEF Shift, CallOK
<1>7. Shifting'
  BY <1>1, <1>2, <1>5, HalfAssumption DEF Shift, Shifting, TopBit
<1>8. Reducing'
  BY DEF Shift, Reducing
<1> QED
  BY <1>6, <1>7, <1>8

LEMMA ShiftedInv == ASSUME DivInv, Shifted PROVE DivInv'
<1> USE DEF DivInv, DivType
<1>1. Num0 \in Word /\ Den0 \in Nat /\ Num0' = Num0 /\ Den0' = Den0
  BY Magnitudes DEF Shifted, Num0, Den0, Word
<1>2. num < 2 * den
  BY <1>1, HalfAssumption DEF Shifted, Shifting, TopBit, Word
<1>3. Num0 = quot * Den0 + num
  BY <1>1 DEF Shifted, Shifting, Word
<1>4. DivType'
  BY DEF Shifted, CallOK
<1>5. Shifting'
  BY DEF Shifted, Shifting
<1>6. Reducing'
  BY <1>1, <1>2, <1>3, PowersPositive DEF Shifted, Reducing, Shifting
<1> QED
  BY <1>4, <1>5, <1>6

LEMMA ReduceInv == ASSUME DivInv, Reduce PROVE DivInv'
<1> USE DEF DivInv, DivType
<1>1. /\ Num0 \in Nat /\ Den0 \in Nat \ {0} /\ Num0' = Num0 /\ Den0' = Den0
      /\ qbit \in PowersOfTwo /\ den = Den0 * qbit /\ num < 2 * den
      /\ Num0 = quot * Den0 + num /\ den < 2 * Half
  BY Magnitudes DEF Reduce, Reducing, Num0, Den0, Word
<1>2. den' = den \div 2 /\ qbit' = qbit \div 2 /\ dpc' = "reduce" /\ dpc = "reduce"
  BY DEF Reduce
<1>3. /\ num' \in Nat /\ quot' \in Nat /\ num' < den
      /\ Num0 = quot' * Den0 + num'
  <2>1. CASE den <= num
    <3>1. num' = num - den /\ quot' = quot + qbit
      BY <2>1 DEF Reduce
    <3>2. (quot + qbit) * Den0 = (quot * Den0) + (qbit * Den0)
      BY <1>1
    <3>3. qbit * Den0 = den
      BY <1>1
    <3> QED
      BY <1>1, <2>1, <3>1, <3>2, <3>3
  <2>2. CASE ~(den <= num)
    <3>1. num' = num /\ quot' = quot
      BY <2>2 DEF Reduce
    <3> QED
      BY <1>1, <2>2, <3>1
  <2> QED
    BY <2>1, <2>2
<1>4. den' \in Nat /\ qbit' \in Nat /\ den' < 2 * Half
  BY <1>1, <1>2, HalfAssumption
<1>5. /\ qbit' \in PowersOfTwo \cup {0}
      /\ qbit' # 0 => den' = Den0 * qbit' /\ num' < 2 * den'
      /\ qbit' = 0 => num' < Den0
  <2>1. CASE qbit = 1
    BY <1>1, <1>2, <1>3, <2>1
  <2>2. CASE \E r \in PowersOfTwo : qbit = 2 * r
    <3>1. PICK r \in PowersOfTwo : qbit = 2 * r
      BY <2>2
    <3>2. r \in Nat /\ r > 0
      BY PowersPositive
    <3>3. qbit' = r
      BY <1>2, <3>1, <3>2
    <3>4. Den0 * (2 * r) = 2 * (Den0 * r) /\ Den0 * r \in Nat
      BY <1>1, <3>2
    <3>5. den = 2 * (Den0 * r)
      BY <1>1, <3>1, <3>4
    <3>6. den' = Den0 * r
      BY <1>2, <3>4, <3>5
    <3> QED
      BY <1>3, <3>2, <3>3, <3>5, <3>6
  <2> QED
    BY <1>1, <2>1, <2>2, PowersHalve
<1>6. DivType'
  BY <1>3, <1>4 DEF Reduce, CallOK
<1>7. Shifting'
  BY <1>2 DEF Shifting
<1>8. Reducing'
  BY <1>1, <1>2, <1>3, <1>4, <1>5 DEF Reducing
<1> QED
  BY <1>6, <1>7, <1>8

LEMMA DivStepInv == DivInv /\ [DivNext]_divVars => DivInv'
<1> SUFFICES ASSUME DivInv, [DivNext]_divVars PROVE DivInv'
  OBVIOUS
<1>1. CASE Shift
  BY <1>1, ShiftInv
<1>2. CASE Shifted
  BY <1>2, ShiftedInv
<1>3. CASE Reduce
  BY <1>3, ReduceInv
<1>4. CASE Reduced
  BY <1>4 DEF Reduced, DivInv, DivType, Shifting, Reducing, CallOK, Num0, Den0
<1>5. CASE DivReturn
  BY <1>5 DEF DivReturn, DivInv, DivType, Shifting, Reducing, CallOK, Num0, Den0
<1>6. ASSUME NEW fn \in SignedFns, NEW n \in SignedWord, NEW d \in SignedWord,
             Divide(fn, n, d)
      PROVE  DivInv'
  BY <1>6, DivideInv
<1>7. ASSUME NEW fn \in UnsignedFns, NEW n \in Word, NEW d \in Word, Divide(fn, n, d)
      PROVE  DivInv'
  BY <1>7, DivideInv
<1>8. CASE UNCHANGED divVars
  BY <1>8 DEF divVars, DivInv, DivType, Shifting, Reducing, CallOK, Num0, Den0
<1> QED
  BY <1>1, <1>2, <1>3, <1>4, <1>5, <1>6, <1>7, <1>8 DEF DivNext, DivLoop

-----------------------------------------------------------------------------
(***************************************************************************)
(* What follows from it                                                    *)
(***************************************************************************)

LEMMA ProductBounds == \A a, b \in Nat : b > 0 => a <= a * b /\ a <= b * a
<1> SUFFICES ASSUME NEW a \in Nat, NEW b \in Nat, b > 0 PROVE a <= a * b /\ a <= b * a
  OBVIOUS
<1>1. a * b = a + (a * (b - 1)) /\ a * (b - 1) \in Nat /\ b * a = a * b
  OBVIOUS
<1> QED
  BY <1>1

\* No variable of the loops outgrows a word.
LEMMA DivWords ==
  ASSUME DivInv, dpc # "idle"
  PROVE  {num, den, quot, qbit} \subseteq Word
<1> USE DEF DivInv, DivType
<1>1. Num0 \in Nat /\ Num0 < 2 * Half /\ Den0 \in Nat /\ Den0 > 0
  BY Magnitudes, HalfAssumption DEF Word
<1>2. quot <= quot * Den0 /\ qbit <= Den0 * qbit /\ quot * Den0 \in Nat
  BY <1>1, ProductBounds
<1>3. CASE dpc = "shift"
  BY <1>1, <1>2, <1>3, HalfAssumption DEF Shifting, Word
<1>4. CASE dpc \in {"reduce", "done"}
  BY <1>1, <1>2, <1>4, HalfAssumption DEF Reducing, Word
<1> QED
  BY <1>3, <1>4

SignedQuot == IF ~(divCall.num < 0 <=> divCall.den < 0) THEN -quot ELSE quot
SignedNum == IF divCall.num < 0 THEN -num ELSE num

\* With the signs of the arguments, quot and num are the quotient and the
\* remainder of a division towards 0.
LEMMA Signs ==
  ASSUME DivInv, dpc = "done"
  PROVE  divCall.num - SignedQuot * divCall.den = SignedNum
<1> DEFINE n == divCall.num
           d == divCall.den
<1>1. /\ n \in Int /\ d \in Int /\ d # 0 /\ quot \in Nat /\ num \in Nat
      /\ Magnitude(n) = quot * Magnitude(d) + num
  BY Magnitudes DEF DivInv, DivType, Reducing, Num0, Den0
<1> HIDE DEF n, d
<1>2. quot * d \in Int /\ (-quot) * d = -(quot * d) /\ quot * (-d) = -(quot * d)
  BY <1>1
<1>3. CASE n >= 0 /\ d >= 0
  <2>1. SignedQuot = quot /\ SignedNum = num
    BY <1>1, <1>3 DEF SignedQuot, SignedNum, n, d
  <2> QED
    BY <1>1, <1>2, <1>3, <2>1 DEF Magnitude, n, d
<1>4. CASE n >= 0 /\ d < 0
  <2>1. SignedQuot = -quot /\ SignedNum = num
    BY <1>1, <1>4 DEF SignedQuot, SignedNum, n, d
  <2> QED
    BY <1>1, <1>2, <1>4, <2>1 DEF Magnitude, n, d
<1>5. CASE n < 0 /\ d >= 0
  <2>1. SignedQuot = -quot /\ SignedNum = -num
    BY <1>1, <1>5 DEF SignedQuot, SignedNum, n, d
  <2> QED
    BY <1>1, <1>2, <1>5, <2>1 DEF Magnitude, n, d
<1>6. CASE n < 0 /\ d < 0
  <2>1. SignedQuot = quot /\ SignedNum = -num
    BY <1>1, <1>6 DEF SignedQuot, SignedNum, n, d
  <2>2. Magnitude(n) = -n /\ Magnitude(d) = -d
    BY <1>1, <1>6 DEF Magnitude
  <2>3. n - quot * d = -num
    BY <1>1, <1>2, <2>2
  <2> QED
    BY <2>1, <2>3 DEF n, d
<1> QED
  BY <1>1, <1>3, <1>4, <1>5, <1>6 DEF n, d

\* The quotient, when the loops have ended.
LEMMA QuotientExact ==
  ASSUME DivInv, dpc = "done", ~Overflow, divCall.fn \in {"__divdi3", "__udivdi3"}
  PROVE  IsRemainder(divCall.num - DivResult * divCall.den, divCall.num, divCall.den)
<1> DEFINE n == divCall.num
           d == divCall.den
           s == IF ~(n < 0 <=> d < 0) THEN -quot ELSE quot
<1>1. /\ n \in Int /\ d \in Int /\ d # 0 /\ quot \in Nat /\ num \in Nat
      /\ Magnitude(n) = quot * Magnitude(d) + num /\ num < Magnitude(d)
  BY Magnitudes DEF DivInv, DivType, Reducing, Num0, Den0
<1>2. DivResult = s
  <2>1. CASE divCall.fn = "__udivdi3"
    <3>1. n >= 0 /\ d >= 0
      BY <2>1, HalfAssumption DEF DivInv, DivType, CallOK, SignedFns, UnsignedFns, Word
    <3> QED
      BY <1>1, <2>1, <3>1 DEF DivResult, SignedFns
  <2>2. CASE divCall.fn = "__divdi3"
    <3>1. n \in SignedWord /\ d \in SignedWord
      BY <2>2 DEF DivInv, DivType, CallOK, UnsignedFns
    <3>2. Magnitude(n) <= Half /\ Magnitude(d) > 0 /\ Magnitude(d) \in Nat
      BY <1>1, <3>1, HalfAssumption DEF Magnitude, SignedWord
    <3>3. quot <= quot * Magnitude(d) /\ quot * Magnitude(d) \in Nat
      BY <1>1, <3>2, ProductBounds
    <3>4. quot <= Half
      BY <1>1, <3>2, <3>3, HalfAssumption
    <3>5. (n < 0 <=> d < 0) => quot < Half
      <4> SUFFICES ASSUME quot = Half, (n < 0 <=> d < 0) PROVE FALSE
        BY <1>1, <3>4, HalfAssumption
      <4>1. Half * Magnitude(d) <= Half
        BY <1>1, <3>2, <3>3, HalfAssumption
      <4>2. Magnitude(d) = 1
        <5> SUFFICES ASSUME Magnitude(d) >= 2 PROVE FALSE
          BY <3>2
        <5>1. Half * Magnitude(d) = (Half + Half) + Half * (Magnitude(d) - 2)
          BY <3>2, HalfAssumption
        <5>2. Half * (Magnitude(d) - 2) \in Nat
          BY <3>2, HalfAssumption
        <5> QED
          BY <4>1, <5>1, <5>2, HalfAssumption
      <4>3. Magnitude(n) = Half
        BY <1>1, <3>2, <4>2, HalfAssumption
      <4>4. n = -Half
        BY <3>1, <4>3, HalfAssumption DEF Magnitude, SignedWord
      <4>5. d = -1
        BY <1>1, <4>2, <4>4, HalfAssumption DEF Magnitude
      <4> QED
        BY <4>4, <4>5 DEF Overflow
    <3>6. ToSigned(s) = s
      BY <1>1, <3>4, <3>5, HalfAssumption DEF ToSigned
    <3> QED
      BY <2>2, <3>6 DEF DivResult, SignedFns
  <2> QED
    BY <2>1, <2>2
<1>3. s \in Int
  BY <1>1
<1>4. n - s * d = IF n < 0 THEN -num ELSE num
  BY Signs DEF SignedQuot, SignedNum
<1>5. n = 0 => num = 0
  <2> SUFFICES ASSUME n = 0 PROVE num = 0
    OBVIOUS
  <2>1. Magnitude(n) = 0 /\ Magnitude(d) \in Nat
    BY <1>1 DEF Magnitude
  <2>2. quot * Magnitude(d) \in Nat
    BY <1>1, <2>1
  <2> QED
    BY <1>1, <2>1, <2>2
<1> HIDE DEF s
<1> QED
  BY <1>1, <1>2, <1>4, <1>5 DEF IsRemainder, Magnitude

\* The remainder, and its sign.
LEMMA RemainderExact ==
  ASSUME DivInv, dpc = "done", divCall.fn \in {"__moddi3", "__umoddi3"}
  PROVE  /\ IF divCall.num < 0 <=> divCall.den < 0
              THEN DivResult >= 0 ELSE DivResult <= 0
         /\ Magnitude(DivResult) < Magnitude(divCall.den)
         /\ \E q \in Word : Magnitude(divCall.num) =
               q * Magnitude(divCall.den) + Magnitude(DivResult)
<1> DEFINE n == divCall.num
           d == divCall.den
           neg == ~(n < 0 <=> d < 0)
           r == IF neg THEN -num ELSE num
<1>1. /\ n \in Int /\ d \in Int /\ d # 0 /\ quot \in Nat /\ num \in Nat
      /\ Magnitude(n) = quot * Magnitude(d) + num /\ num < Magnitude(d)
  BY Magnitudes DEF DivInv, DivType, Reducing, Num0, Den0, Magnitude
<1>2. DivResult = r
  <2>1. CASE divCall.fn = "__umoddi3"
    <3>1. n >= 0 /\ d >= 0
      BY <2>1, HalfAssumption DEF DivInv, DivType, CallOK, SignedFns, UnsignedFns, Word
    <3> QED
      BY <1>1, <2>1, <3>1 DEF DivResult, SignedFns
  <2>2. CASE divCall.fn = "__moddi3"
    <3>1. d \in SignedWord
      BY <2>2 DEF DivInv, DivType, CallOK, UnsignedFns
    <3>2. num < Half
      BY <1>1, <3>1, HalfAssumption DEF SignedWord, Magnitude
    <3>3. ToSigned(r) = r
      BY <1>1, <3>2, HalfAssumption DEF ToSigned
    <3> QED
      BY <2>2, <3>3 DEF DivResult, SignedFns
  <2> QED
    BY <2>1, <2>2
<1>3. Magnitude(r) = num
  BY <1>1 DEF Magnitude
<1>4. quot \in Word
  <2>1. Magnitude(d) \in Nat \ {0}
    BY <1>1 DEF Magnitude
  <2>2. quot * Magnitude(d) \in Nat /\ quot <= quot * Magnitude(d)
    BY <1>1, <2>1, ProductBounds
  <2>3. Magnitude(n) \in Word
    BY HalfAssumption DEF DivInv, DivType, CallOK, Magnitude, SignedWord, Word
  <2> QED
    BY <1>1, <2>1, <2>2, <2>3, HalfAssumption DEF Word
<1>5. IF n < 0 <=> d < 0 THEN r >= 0 ELSE r <= 0
  BY <1>1
<1> HIDE DEF r
<1> QED
  BY <1>1, <1>2, <1>3, <1>4, <1>5

LEMMA DivInvExact == DivInv => DivisionExact
<1> SUFFICES ASSUME DivInv PROVE DivisionExact
  OBVIOUS
<1>1. divCall.fn \in {"__divdi3", "__udivdi3", "__moddi3", "__umoddi3"}
  BY DEF DivInv, DivType, CallOK, SignedFns, UnsignedFns
<1> QED
  BY <1>1, DivWords, QuotientExact, RemainderExact DEF DivisionExact

\* __divdi3, __udivdi3, __moddi3 and __umoddi3 divide, whatever the word size:
\* what they return when the loops of __udivmoddi4 end is the quotient towards
\* 0 and its remainder, with the sign of the quotient, and no variable overflows
\* on the way.
THEOREM DivisionIsExact == DivSpec => []DivisionExact
<1>1. DivInit => DivInv
  BY DivInitInv
<1>2. DivInv /\ [DivNext]_divVars => DivInv'
  BY DivStepInv
<1>3. DivInv => DivisionExact
  BY DivInvExact
<1> QED
  BY <1>1, <1>2, <1>3, PTL DEF DivSpec

-----------------------------------------------------------------------------
(***************************************************************************)
(* The functions of string.c, for every memory and all arguments.          *)
(*                                                                         *)
(* For a copy, the bytes handled so far are right, and the bytes outside   *)
(* of them are as before the call: the byte read next is one of these, or  *)
(* it is one that was written earlier and will not be written again.  For  *)
(* a scan, the bytes handled so far are the beginning of the string, and   *)
(* did not end the loop.                                                   *)
(***************************************************************************)

\* Has the byte at index i been written?
Handled(i) == IF Downwards THEN i >= scall.n - k /\ i < scall.n ELSE 0 <= i /\ i < k

CallType ==
    \/ scall \in CopyCalls
    \/ scall \in ScanCalls

StringsType ==
    /\ DOMAIN mem = Addrs /\ DOMAIN mem0 = Addrs
    /\ CallType /\ k \in Nat
    /\ IsCopy => k <= scall.n

OutsideKept ==
    \A x \in Addrs :
        mem[x] # mem0[x] => IsCopy /\ ~InPlace /\ Handled(x - scall.a)

HandledRight ==
    IsCopy /\ ~InPlace =>
        \A i \in 0..(scall.n - 1) : Handled(i) => mem[scall.a + i] = SourceByte(i)

CopyInv ==
    /\ StringsType /\ OutsideKept /\ HandledRight
    /\ spc = "end" /\ IsCopy => CopyEnds

\* The arguments of a copy.
LEMMA CopyArguments ==
  ASSUME CallType, IsCopy
  PROVE  /\ scall.a \in Nat /\ scall.n \in Nat /\ scall.a + scall.n <= MemSize
         /\ scall.fn # "memset" => scall.b \in Nat /\ scall.b + scall.n <= MemSize
  BY StringsAssumption DEF CallType, IsCopy, CopyCalls, ScanCalls, Addrs

LEMMA StringsInitInv == StringsInit => CopyInv
<1> SUFFICES ASSUME StringsInit PROVE CopyInv
  OBVIOUS
<1>1. CallType /\ k = 0 /\ mem0 = mem /\ spc = "loop" /\ DOMAIN mem = Addrs
  BY DEF StringsInit, CallType, Memories
<1>2. StringsType
  BY <1>1, CopyArguments DEF StringsType
<1>3. IsCopy => scall.n \in Nat
  BY <1>1, CopyArguments
<1>4. HandledRight
  BY <1>1, <1>3 DEF HandledRight, Handled
<1> QED
  BY <1>1, <1>2, <1>4 DEF CopyInv, OutsideKept

LEMMA CopyByteInv == ASSUME CopyInv, CopyByte PROVE CopyInv'
<1>1. /\ scall.a \in Nat /\ scall.n \in Nat /\ scall.a + scall.n <= MemSize
      /\ scall.fn # "memset" => scall.b \in Nat /\ scall.b + scall.n <= MemSize
      /\ k \in Nat /\ k < scall.n /\ ~InPlace /\ IsCopy
  BY CopyArguments DEF CopyInv, StringsType, CopyByte, CopyEnds
<1> DEFINE c == CopyIndex
<1>2. c \in 0..(scall.n - 1) /\ scall.a + c \in Addrs
  BY <1>1, StringsAssumption DEF CopyIndex, Addrs
<1>3. scall' = scall /\ mem0' = mem0 /\ k' = k + 1 /\ spc' = "loop"
  BY DEF CopyByte
<1>4. /\ DOMAIN mem = Addrs /\ DOMAIN mem' = Addrs
      /\ mem'[scall.a + c] = IF scall.fn = "memset" THEN ToChar(scall.b)
                              ELSE mem[scall.b + c]
      /\ \A x \in Addrs : x # scall.a + c => mem'[x] = mem[x]
  BY <1>2 DEF CopyByte, CopyInv, StringsType
<1>5. /\ IsCopy' /\ ~InPlace' /\ (Downwards' <=> Downwards) /\ CallType'
      /\ \A i : Overwritten(i)' <=> Overwritten(i)
  BY <1>1, <1>3 DEF IsCopy, InPlace, Downwards, Overwritten, CallType, CopyInv,
     StringsType
<1>6. \A i \in Int : Handled(i)' <=> Handled(i) \/ i = c
  BY <1>1, <1>3, <1>5 DEF Handled, CopyIndex
<1>7. StringsType'
  BY <1>1, <1>3, <1>4, <1>5 DEF StringsType, CopyInv
<1>8. OutsideKept'
  <2> SUFFICES ASSUME NEW x \in Addrs, mem'[x] # mem0[x], NEW j \in Int, j = x - scall.a
               PROVE  Handled(j)'
    BY <1>1, <1>3, <1>5, StringsAssumption DEF OutsideKept, Addrs, Handled
  <2>1. CASE x = scall.a + c
    <3>1. j = c
      BY <1>1, <1>2, <2>1
    <3> QED
      BY <1>6, <3>1
  <2>2. CASE x # scall.a + c
    <3>1. mem[x] # mem0[x]
      BY <1>4, <2>2
    <3>2. Handled(j)
      BY <3>1 DEF CopyInv, OutsideKept
    <3> QED
      BY <1>6, <3>2
  <2> QED
    BY <2>1, <2>2
<1>9. ASSUME NEW i \in 0..(scall.n - 1), Handled(i)', scall.fn # "memset",
             Overwritten(i)
      PROVE  mem'[scall.b + i] = mem[scall.b + i]
  <2>1. scall.b + i \in Addrs
    BY <1>1, <1>9, StringsAssumption DEF Addrs
  <2>2. scall.a # scall.b
    BY <1>1, <1>9 DEF InPlace, Overwritten, Downwards
  <2>3. scall.b + i # scall.a + c
    BY <1>1, <1>3, <1>5, <1>9, <2>2 DEF Overwritten, Handled, CopyIndex, Downwards
  <2> QED
    BY <1>4, <2>1, <2>3
<1>10. HandledRight'
  <2> SUFFICES ASSUME NEW i \in 0..(scall.n - 1), Handled(i)'
               PROVE  mem'[scall.a + i] = SourceByte(i)'
    BY <1>3, <1>5 DEF HandledRight
  <2>0. SourceByte(i)' = SourceByte(i)
    BY <1>3, <1>5, <1>9 DEF SourceByte
  <2>1. CASE i # c
    <3>1. scall.a + i \in Addrs /\ scall.a + i # scall.a + c /\ i \in Int
      BY <1>1, <1>2, <2>1, StringsAssumption DEF Addrs
    <3>2. Handled(i)
      BY <1>6, <2>1, <3>1
    <3> QED
      BY <1>1, <1>4, <2>0, <3>1, <3>2 DEF CopyInv, HandledRight
  <2>2. CASE i = c /\ scall.fn = "memset"
    BY <1>4, <2>0, <2>2 DEF SourceByte
  <2>3. CASE i = c /\ scall.fn # "memset"
    <3>1. scall.b + c \in Addrs /\ (scall.b + c) - scall.a \in Int
      BY <1>1, <1>2, <2>3, StringsAssumption DEF Addrs
    <3>2. ~Overwritten(c) => ~Handled((scall.b + c) - scall.a)
      BY <1>1, <1>2, <2>3 DEF Handled, Overwritten, CopyIndex, Downwards
    <3>3. ~Overwritten(c) => mem[scall.b + c] = mem0[scall.b + c]
      BY <3>1, <3>2 DEF CopyInv, OutsideKept
    <3> QED
      BY <1>4, <2>0, <2>3, <3>3 DEF SourceByte
  <2> QED
    BY <2>1, <2>2, <2>3
<1> QED
  BY <1>3, <1>7, <1>8, <1>10 DEF CopyInv

\* The other steps write no memory, and leave k alone where it matters.
LEMMA ScanByteInv == ASSUME CopyInv, ScanByte PROVE CopyInv'
  BY DEF ScanByte, CopyInv, StringsType, OutsideKept, HandledRight, CallType, IsCopy,
         CopyEnds

LEMMA ReturnInv ==
  ASSUME CopyInv, NEW r, Return(r), IsCopy => CopyEnds
  PROVE  CopyInv'
  BY DEF Return, CopyInv, StringsType, OutsideKept, HandledRight, CallType, IsCopy,
         CopyEnds, InPlace, Handled, Downwards, Overwritten, SourceByte

LEMMA StringsStepInv == CopyInv /\ [StringsNext]_stringVars => CopyInv'
<1> SUFFICES ASSUME CopyInv, [StringsNext]_stringVars PROVE CopyInv'
  OBVIOUS
<1>1. CASE CopyByte
  BY <1>1, CopyByteInv
<1>2. CASE CopyEnd
  BY <1>2, ReturnInv DEF CopyEnd
<1>3. CASE ScanByte
  BY <1>3, ScanByteInv
<1>4. CASE ScanEnd
  BY <1>4, ReturnInv DEF ScanEnd
<1>5. CASE UNCHANGED stringVars
  BY <1>5 DEF stringVars, CopyInv, StringsType, OutsideKept, HandledRight, CallType, IsCopy,
     CopyEnds, InPlace, Handled, Downwards, Overwritten, SourceByte
<1> QED
  BY <1>1, <1>2, <1>3, <1>4, <1>5 DEF StringsNext

\* memcpy, memmove and memset write their destination and nothing else, and what
\* they write is what the source held before, but for what they have overwritten
\* themselves, for memory of any size and all arguments.
THEOREM CopiesAreExact == StringsSpec => []CopiesBytes
<1>1. StringsInit => CopyInv
  BY StringsInitInv
<1>2. CopyInv /\ [StringsNext]_stringVars => CopyInv'
  BY StringsStepInv
<1>3. CopyInv => CopiesBytes
  <2> SUFFICES ASSUME CopyInv, spc = "end" PROVE CopiesBytes
    BY DEF CopiesBytes
  <2>1. ASSUME NEW x \in Addrs, mem[x] # mem0[x]
        PROVE  IsCopy /\ x \in scall.a..(scall.a + scall.n - 1)
    <3>1. IsCopy /\ Handled(x - scall.a)
      BY <2>1 DEF CopyInv, OutsideKept
    <3> QED
      BY <2>1, <3>1, CopyArguments, StringsAssumption
         DEF CopyInv, StringsType, Handled, Addrs
  <2>2. ASSUME IsCopy, NEW i \in 0..(scall.n - 1)
        PROVE  mem[scall.a + i] = SourceByte(i)
    <3>1. /\ scall.a \in Nat /\ scall.n \in Nat /\ scall.a + scall.n <= MemSize
          /\ k \in Nat
      BY <2>2, CopyArguments DEF CopyInv, StringsType
    <3>2. CASE InPlace
      <4>1. scall.a + i \in Addrs
        BY <2>2, <3>1, StringsAssumption DEF Addrs
      <4> QED
        BY <3>1, <3>2, <4>1
        DEF CopyInv, OutsideKept, InPlace, SourceByte, Overwritten, Downwards
    <3>3. CASE ~InPlace
      <4>1. k = scall.n
        BY <2>2, <3>3 DEF CopyInv, CopyEnds
      <4>2. Handled(i)
        BY <2>2, <3>1, <4>1 DEF Handled
      <4> QED
        BY <2>2, <3>3, <4>2 DEF CopyInv, HandledRight
    <3> QED
      BY <3>2, <3>3
  <2> QED
    BY <2>1, <2>2 DEF CopiesBytes
<1> QED
  BY <1>1, <1>2, <1>3, PTL DEF StringsSpec
-----------------------------------------------------------------------------
(***************************************************************************)
(* strcmp, strncmp, strlen and strchr                                      *)
(***************************************************************************)

\* A non-empty set of numbers has a least one.
LEMMA MinOfNat ==
  ASSUME NEW S, S \subseteq Nat, S # {}
  PROVE  Min(S) \in S /\ \A z \in S : Min(S) <= z
<1>1. PICK m \in S : \A z \in S : ~(<<z, m>> \in OpToRel(<, Nat))
  BY WFMin, NatLessThanWellFounded, Zenon
<1>2. ASSUME NEW z \in S PROVE m <= z
  <2>1. z \in Nat /\ m \in Nat
    OBVIOUS
  <2>2. z < m => <<z, m>> \in OpToRel(<, Nat)
    BY <2>1 DEF OpToRel
  <2>3. ~(z < m)
    BY <1>1, <2>2, Zenon
  <2> QED
    BY <2>1, <2>3
<1> QED
  BY <1>2 DEF Min

\* The string at a: bytes that are not 0, up to a 0 or to the limit n.
IsStringAt(a, n, l) ==
    /\ l \in 0..n /\ a + l < MemSize
    /\ StringAt(a, n) = [z \in 1..l |-> mem0[a + z - 1]]
    /\ \A j \in 0..(l - 1) : mem0[a + j] # 0
    /\ l < n => mem0[a + l] = 0

LEMMA StringLength ==
  ASSUME NEW a \in Addrs, NEW n \in Nat, mem0 \in Memories
  PROVE  \E l \in Nat : IsStringAt(a, n, l)
<1> DEFINE Ends == {z \in a..(MemSize - 1) : mem0[z] = 0}
           end == Min(Ends)
           len == IF end - a < n THEN end - a ELSE n
<1>1. MemSize - 1 \in Ends /\ Ends \subseteq Nat
  BY StringsAssumption DEF Memories, Addrs
<1>2. end \in Ends /\ \A z \in Ends : end <= z
  <2> HIDE DEF Ends
  <2> QED
    BY <1>1, MinOfNat
<1>3. end \in Nat /\ end >= a /\ end < MemSize /\ mem0[end] = 0 /\ a \in Nat
  BY <1>2, StringsAssumption DEF Addrs
<1>4. \A z \in Nat : z >= a /\ z < end => mem0[z] # 0
  BY <1>2, <1>3, StringsAssumption
<1>5. StringAt(a, n) = [z \in 1..len |-> mem0[a + z - 1]]
  BY DEF StringAt
<1> HIDE DEF Ends, end
<1>6. len \in Nat /\ len <= n /\ a + len <= end /\ (len < n => a + len = end)
  BY <1>3
<1>7. \A j \in 0..(len - 1) : a + j \in Nat /\ a + j >= a /\ a + j < end
  BY <1>3, <1>6
<1>8. \A j \in 0..(len - 1) : mem0[a + j] # 0
  BY <1>4, <1>7
<1>9. a + len < MemSize /\ (len < n => mem0[a + len] = 0) /\ len \in 0..n
  BY <1>3, <1>6, StringsAssumption
<1> HIDE DEF len
<1> QED
  BY <1>5, <1>6, <1>8, <1>9 DEF IsStringAt

\* The bytes scanned so far, and how the scan ended.
Compares == scall.fn \in {"strcmp", "strncmp"}

ScanInv ==
    /\ mem0 \in Memories /\ mem \in [Addrs -> Bytes]
    /\ ~IsCopy =>
         /\ mem = mem0
         /\ scall.a + k \in Addrs
         /\ \A j \in 0..(k - 1) : mem0[scall.a + j] # 0
         /\ Compares => /\ scall.b + k \in Addrs
                        /\ \A j \in 0..(k - 1) : mem0[scall.a + j] = mem0[scall.b + j]
         /\ scall.fn = "strncmp" /\ k # 0 => k < scall.n
         /\ scall.fn = "strchr" => \A j \in 0..(k - 1) : mem0[scall.a + j] # scall.b
         /\ spc = "end" => ~ScanGoesOn /\ result = ScanResult

\* An int stored in a byte is a char.
LEMMA CharType ==
  ASSUME NEW i \in Ints
  PROVE  ToChar(i) \in Bytes
<1>1. i + CharHalf \in Nat /\ 2 * CharHalf \in Nat \ {0}
  BY StringsAssumption DEF Ints
<1>2. (i + CharHalf) % (2 * CharHalf) \in 0..(2 * CharHalf - 1)
  BY <1>1
<1> QED
  BY <1>2, StringsAssumption DEF ToChar, Bytes

\* The arguments of a scan.
LEMMA ScanArguments ==
  ASSUME CallType, ~IsCopy
  PROVE  /\ scall.a \in Addrs /\ scall.n \in Nat
         /\ Compares => scall.b \in Addrs
         /\ scall.fn \in {"strcmp", "strncmp", "strlen", "strchr"}
  BY StringsAssumption DEF CallType, IsCopy, CopyCalls, ScanCalls, Addrs, Compares

LEMMA ScanInvInit == StringsInit => ScanInv
<1> SUFFICES ASSUME StringsInit PROVE ScanInv
  OBVIOUS
<1>1. CallType /\ k = 0 /\ mem0 = mem /\ spc = "loop" /\ mem \in Memories
  BY DEF StringsInit, CallType
<1>2. mem \in [Addrs -> Bytes]
  BY <1>1 DEF Memories
<1> QED
  BY <1>1, <1>2, ScanArguments, StringsAssumption DEF ScanInv, Addrs

LEMMA ScanInvStep ==
  CopyInv /\ ScanInv /\ [StringsNext]_stringVars => ScanInv'
<1> SUFFICES ASSUME CopyInv, ScanInv, [StringsNext]_stringVars PROVE ScanInv'
  OBVIOUS
<1>0. CallType /\ k \in Nat
  BY DEF CopyInv, StringsType
<1>1. CASE CopyByte
  <2>1. IsCopy /\ scall' = scall /\ mem0' = mem0
    BY <1>1 DEF CopyByte
  <2>2. mem' \in [Addrs -> Bytes]
    <3>1. CASE scall.fn = "memset"
      <4>1. ToChar(scall.b) \in Bytes
        BY <1>0, <3>1, CharType DEF CallType, CopyCalls, ScanCalls
      <4> QED
        BY <1>1, <3>1, <4>1 DEF CopyByte, ScanInv
    <3>2. CASE scall.fn # "memset"
      <4>1. scall.b + CopyIndex \in Addrs
        <5>1. /\ scall.b \in Nat /\ scall.n \in Nat /\ scall.b + scall.n <= MemSize
              /\ k < scall.n
          BY <1>0, <1>1, <2>1, <3>2, CopyArguments
          DEF CopyByte, CopyEnds, CopyInv, StringsType
        <5> QED
          BY <1>0, <5>1, StringsAssumption DEF CopyIndex, Addrs
      <4> QED
        BY <1>1, <3>2, <4>1 DEF CopyByte, ScanInv
    <3> QED
      BY <3>1, <3>2
  <2> QED
    BY <2>1, <2>2 DEF ScanInv, IsCopy
<1>2. CASE CopyEnd
  BY <1>2 DEF CopyEnd, Return, ScanInv, IsCopy
<1>3. CASE ScanByte
  <2>1. /\ ~IsCopy /\ ScanGoesOn /\ k' = k + 1 /\ spc' = "loop"
        /\ mem' = mem /\ mem0' = mem0 /\ scall' = scall
    BY <1>3 DEF ScanByte
  <2>2. /\ scall.a \in Nat /\ scall.a + k \in Addrs /\ mem = mem0 /\ scall.n \in Nat
        /\ Compares => scall.b \in Nat /\ scall.b + k \in Addrs
        /\ scall.fn \in {"strcmp", "strncmp", "strlen", "strchr"}
    BY <1>0, <2>1, ScanArguments, StringsAssumption DEF ScanInv, Addrs
  <2>3. /\ mem0[scall.a + k] # 0
        /\ Compares => mem0[scall.a + k] = mem0[scall.b + k]
        /\ scall.fn = "strncmp" => k + 1 < scall.n
        /\ scall.fn = "strchr" => mem0[scall.a + k] # scall.b
    BY <2>1, <2>2 DEF ScanGoesOn, Compares
  <2>4. /\ scall.a + (k + 1) \in Addrs
        /\ Compares => scall.b + (k + 1) \in Addrs
    BY <1>0, <2>2, <2>3, StringsAssumption, SMTT(30) DEF ScanInv, Memories, Addrs
  <2>5. \A j \in 0..((k + 1) - 1) : j = k \/ j \in 0..(k - 1)
    BY <1>0
  <2> QED
    BY <1>0, <2>1, <2>2, <2>3, <2>4, <2>5 DEF ScanInv, IsCopy, Compares
<1>4. CASE ScanEnd
  <2>1. /\ ~ScanGoesOn /\ result' = ScanResult /\ mem' = mem /\ mem0' = mem0
        /\ scall' = scall /\ k' = k
    BY <1>4 DEF ScanEnd, Return
  <2>2. (ScanGoesOn' <=> ScanGoesOn) /\ ScanResult' = ScanResult
    BY <2>1 DEF ScanGoesOn, ScanResult
  <2> QED
    BY <2>1, <2>2 DEF ScanInv, IsCopy, Compares
<1>5. CASE UNCHANGED stringVars
  BY <1>5 DEF stringVars, ScanInv, IsCopy, Compares, ScanGoesOn, ScanResult
<1> QED
  BY <1>1, <1>2, <1>3, <1>4, <1>5 DEF StringsNext

\* What strlen counts and where strchr stops.
LEMMA ScanFinds ==
  ASSUME CopyInv, ScanInv, spc = "end"
  PROVE  /\ scall.fn = "strlen" => result = Len(StringAt(scall.a, MemSize))
         /\ scall.fn = "strchr" =>
              LET s == StringAt(scall.a, MemSize)
                  found == {z \in DOMAIN s : s[z] = scall.b}
              IN  result = IF found = {} THEN NULL ELSE scall.a + Min(found) - 1
<1> DEFINE a == scall.a
<1>1. CASE scall.fn \in {"strlen", "strchr"}
  <2>1. /\ CallType /\ ~IsCopy /\ k \in Nat /\ a \in Addrs /\ a \in Nat
        /\ a + k < MemSize /\ mem = mem0 /\ mem0 \in Memories
        /\ \A j \in 0..(k - 1) : mem0[a + j] # 0
        /\ ~ScanGoesOn /\ result = ScanResult
    BY <1>1, ScanArguments, StringsAssumption
    DEF CopyInv, StringsType, ScanInv, IsCopy, Addrs
  <2>2. PICK l \in Nat : IsStringAt(a, MemSize, l)
    BY <2>1, StringLength, StringsAssumption
  <2>3. /\ l < MemSize /\ mem0[a + l] = 0
        /\ \A j \in 0..(l - 1) : mem0[a + j] # 0
        /\ StringAt(a, MemSize) = [z \in 1..l |-> mem0[a + z - 1]]
    BY <2>1, <2>2, StringsAssumption DEF IsStringAt
  <2>4. k <= l
    BY <2>1, <2>3
  <2>5. CASE scall.fn = "strlen"
    <3>1. mem0[a + k] = 0 /\ result = k
      BY <2>1, <2>5 DEF ScanGoesOn, ScanResult
    <3>2. l = k
      BY <2>1, <2>3, <2>4, <3>1
    <3> QED
      BY <2>1, <2>3, <2>5, <3>1, <3>2
  <2>6. CASE scall.fn = "strchr"
    <3> DEFINE s == StringAt(a, MemSize)
               found == {z \in DOMAIN s : s[z] = scall.b}
    <3>1. DOMAIN s = 1..l /\ \A z \in 1..l : s[z] = mem0[a + z - 1]
      BY <2>3
    <3>2. /\ mem0[a + k] = 0 \/ mem0[a + k] = scall.b
          /\ result = IF mem0[a + k] # 0 THEN a + k ELSE NULL
          /\ \A j \in 0..(k - 1) : mem0[a + j] # scall.b
      BY <2>1, <2>6 DEF ScanGoesOn, ScanResult, ScanInv
    <3> HIDE DEF s
    <3>3. CASE mem0[a + k] = 0
      <4>1. l = k
        BY <2>1, <2>3, <2>4, <3>3
      <4>2. ASSUME NEW z \in 1..l PROVE s[z] # scall.b
        <5>1. z - 1 \in 0..(k - 1) /\ a + (z - 1) = a + z - 1
          BY <2>1, <4>1, <4>2
        <5> QED
          BY <3>1, <3>2, <4>2, <5>1
      <4>3. found = {}
        BY <3>1, <4>2
      <4> QED
        BY <2>6, <3>2, <3>3, <4>3 DEF s
    <3>4. CASE mem0[a + k] # 0
      <4>1. k < l /\ k + 1 \in 1..l /\ a + (k + 1) - 1 = a + k
        BY <2>1, <2>3, <2>4, <3>4
      <4>2. k + 1 \in found
        BY <3>1, <3>2, <3>4, <4>1
      <4>3. found \subseteq Nat
        BY <3>1
      <4>4. Min(found) \in found /\ Min(found) <= k + 1
        <5> HIDE DEF found
        <5> QED
          BY <4>2, <4>3, MinOfNat
      <4>5. ASSUME NEW z \in found PROVE z >= k + 1
        <5> SUFFICES ASSUME z <= k PROVE FALSE
          BY <3>1, <2>1, <4>5
        <5>1. z - 1 \in 0..(k - 1) /\ a + (z - 1) = a + z - 1
          BY <2>1, <3>1, <4>5
        <5> QED
          BY <3>1, <3>2, <4>5, <5>1
      <4>6. Min(found) = k + 1
        BY <2>1, <3>1, <4>3, <4>4, <4>5
      <4>7. a + Min(found) - 1 = a + k /\ found # {}
        BY <2>1, <4>2, <4>6
      <4> HIDE DEF found
      <4> QED
        BY <2>6, <3>2, <3>4, <4>7 DEF s, found
    <3> QED
      BY <3>3, <3>4
  <2> QED
    BY <1>1, <2>5, <2>6
<1> QED
  BY <1>1

\* Two strings that agree on their first i chars, and end or differ there.
LEMMA StringOrder ==
  ASSUME NEW s \in Seq(Int), NEW t \in Seq(Int), NEW i \in Nat,
         i <= Len(s), i <= Len(t),
         \A z \in 1..i : s[z] = t[z]
  PROVE  /\ Len(s) = i /\ Len(t) = i => s = t /\ ~Before(s, t)
         /\ CharAt(s, i + 1) < CharAt(t, i + 1) => s # t /\ Before(s, t)
         /\ CharAt(s, i + 1) > CharAt(t, i + 1) => s # t /\ ~Before(s, t)
<1>1. \A z \in Nat \ {0} : CharAt(s, z) \in Int /\ CharAt(t, z) \in Int
  BY DEF CharAt
<1>2. \A z \in 1..i : CharAt(s, z) = CharAt(t, z)
  BY DEF CharAt
<1>3. Len(s) = i /\ Len(t) = i => s = t /\ ~Before(s, t)
  <2> SUFFICES ASSUME Len(s) = i, Len(t) = i PROVE s = t /\ ~Before(s, t)
    OBVIOUS
  <2>1. s = t
    OBVIOUS
  <2>2. \A z \in Nat \ {0} : ~(CharAt(s, z) < CharAt(t, z))
    BY <1>1, <2>1
  <2> QED
    BY <2>1, <2>2 DEF Before
<1>4. CharAt(s, i + 1) < CharAt(t, i + 1) => s # t /\ Before(s, t)
  <2> SUFFICES ASSUME CharAt(s, i + 1) < CharAt(t, i + 1) PROVE s # t /\ Before(s, t)
    OBVIOUS
  <2>1. i + 1 \in 1..(Len(t) + 1) /\ (i + 1) - 1 = i /\ i + 1 <= Len(s) + 1
    OBVIOUS
  <2>2. CharAt(s, i + 1) \in Int
    BY <1>1
  <2>3. s # t
    BY <2>2
  <2>4. SubSeq(s, 1, (i + 1) - 1) = SubSeq(t, 1, (i + 1) - 1)
    OBVIOUS
  <2> QED
    BY <2>1, <2>3, <2>4 DEF Before
<1>5. CharAt(s, i + 1) > CharAt(t, i + 1) => s # t /\ ~Before(s, t)
  <2> SUFFICES ASSUME CharAt(s, i + 1) > CharAt(t, i + 1) PROVE s # t /\ ~Before(s, t)
    OBVIOUS
  <2>1. /\ CharAt(s, i + 1) \in Int /\ CharAt(t, i + 1) \in Int
        /\ CharAt(s, i + 1) # CharAt(t, i + 1)
        /\ ~(CharAt(s, i + 1) < CharAt(t, i + 1))
    <3>1. CharAt(s, i + 1) \in Int /\ CharAt(t, i + 1) \in Int
      BY <1>1
    <3> QED
      BY <3>1
  <2>2. ASSUME NEW z \in 1..(Len(t) + 1), z <= Len(s) + 1,
               SubSeq(s, 1, z - 1) = SubSeq(t, 1, z - 1),
               CharAt(s, z) < CharAt(t, z)
        PROVE  FALSE
    <3>1. CASE z <= i
      <4>1. CharAt(s, z) = CharAt(t, z) /\ CharAt(t, z) \in Int
        BY <1>1, <1>2, <2>2, <3>1
      <4> QED
        BY <2>2, <4>1
    <3>2. CASE z = i + 1
      BY <2>1, <2>2, <3>2
    <3>3. CASE z > i + 1
      <4>1. /\ SubSeq(s, 1, z - 1)[i + 1] = s[i + 1]
            /\ SubSeq(t, 1, z - 1)[i + 1] = t[i + 1]
        BY <2>2, <3>3
      <4>2. CharAt(s, i + 1) = s[i + 1] /\ CharAt(t, i + 1) = t[i + 1]
        BY <2>2, <3>3 DEF CharAt
      <4> QED
        BY <2>1, <2>2, <4>1, <4>2
    <3> QED
      BY <2>2, <3>1, <3>2, <3>3
  <2> QED
    BY <2>1, <2>2 DEF Before
<1> QED
  BY <1>3, <1>4, <1>5

\* What strcmp and strncmp return.
LEMMA ScanCompares ==
  ASSUME CopyInv, ScanInv, spc = "end", Compares
  PROVE  LET n == IF scall.fn = "strcmp" THEN MemSize ELSE scall.n
         IN  /\ result = 0 <=> StringAt(scall.a, n) = StringAt(scall.b, n)
             /\ result < 0 <=> Before(StringAt(scall.a, n), StringAt(scall.b, n))
<1> DEFINE a == scall.a
           b == scall.b
           n == IF scall.fn = "strcmp" THEN MemSize ELSE scall.n
           s == StringAt(a, n)
           t == StringAt(b, n)
           c == mem0[a + k]
           d == mem0[b + k]
<1>1. /\ CallType /\ ~IsCopy /\ k \in Nat /\ a \in Addrs /\ a \in Nat
      /\ b \in Addrs /\ b \in Nat /\ n \in Nat
      /\ a + k \in Addrs /\ b + k \in Addrs
      /\ a + k < MemSize /\ b + k < MemSize /\ mem = mem0 /\ mem0 \in Memories
      /\ \A j \in 0..(k - 1) : mem0[a + j] # 0 /\ mem0[a + j] = mem0[b + j]
      /\ ~ScanGoesOn /\ result = ScanResult
  BY ScanArguments, StringsAssumption
  DEF CopyInv, StringsType, ScanInv, IsCopy, Compares, Addrs
<1>2. k < n \/ (n = 0 /\ k = 0 /\ scall.fn = "strncmp")
  BY <1>1, StringsAssumption, ScanArguments DEF ScanInv, Compares
<1>3. PICK l \in Nat : IsStringAt(a, n, l)
  BY <1>1, StringLength
<1>4. PICK m \in Nat : IsStringAt(b, n, m)
  BY <1>1, StringLength
<1>5. /\ s = [z \in 1..l |-> mem0[a + z - 1]] /\ t = [z \in 1..m |-> mem0[b + z - 1]]
      /\ \A j \in 0..(l - 1) : mem0[a + j] # 0
      /\ \A j \in 0..(m - 1) : mem0[b + j] # 0
      /\ l <= n /\ m <= n
      /\ l < n => mem0[a + l] = 0
      /\ m < n => mem0[b + m] = 0
      /\ a + l < MemSize /\ b + m < MemSize
  BY <1>3, <1>4 DEF IsStringAt
<1>6. /\ \A z \in Addrs : mem0[z] \in Int
      /\ c \in Int /\ d \in Int
  BY <1>1, StringsAssumption DEF Memories, Bytes
<1> HIDE DEF n
<1>7. k <= l /\ k <= m
  <2>1. k <= n
    BY <1>1, <1>2
  <2>2. ASSUME l < k PROVE FALSE
    <3>1. l \in 0..(k - 1) /\ l < n
      BY <1>1, <2>1, <2>2
    <3> QED
      BY <1>1, <1>5, <3>1
  <2>3. ASSUME m < k PROVE FALSE
    <3>1. m \in 0..(k - 1) /\ m < n
      BY <1>1, <2>1, <2>3
    <3> QED
      BY <1>1, <1>5, <3>1
  <2> QED
    BY <1>1, <2>2, <2>3
<1>8. s \in Seq(Int) /\ Len(s) = l
  <2>0. a \in Nat /\ a + l < MemSize /\ MemSize \in Nat
    BY <1>1, <1>5, StringsAssumption
  <2>1. \A z \in 1..l : a + z - 1 \in Addrs
    <3> HIDE DEF a
    <3> QED
      BY <2>0 DEF Addrs
  <2> HIDE DEF s
  <2> QED
    BY <1>5, <1>6, <2>1
<1>9. t \in Seq(Int) /\ Len(t) = m
  <2>0. b \in Nat /\ b + m < MemSize /\ MemSize \in Nat
    BY <1>1, <1>5, StringsAssumption
  <2>1. \A z \in 1..m : b + z - 1 \in Addrs
    <3> HIDE DEF b
    <3> QED
      BY <2>0 DEF Addrs
  <2> HIDE DEF t
  <2> QED
    BY <1>5, <1>6, <2>1
<1>10. \A z \in 1..k : s[z] = t[z]
  <2> SUFFICES ASSUME NEW z \in 1..k PROVE s[z] = t[z]
    OBVIOUS
  <2>1. z - 1 \in 0..(k - 1) /\ a + (z - 1) = a + z - 1 /\ b + (z - 1) = b + z - 1
        /\ z \in 1..l /\ z \in 1..m
    BY <1>1, <1>7
  <2> QED
    BY <1>1, <1>5, <2>1
<1>11. /\ l > k => s[k + 1] = c /\ c # 0
       /\ m > k => t[k + 1] = d /\ d # 0
       /\ l = k /\ k < n => c = 0
       /\ m = k /\ k < n => d = 0
  <2>1. a + (k + 1) - 1 = a + k /\ b + (k + 1) - 1 = b + k
    BY <1>1
  <2>2. ASSUME l > k PROVE s[k + 1] = c /\ c # 0
    <3>1. k \in 0..(l - 1) /\ k + 1 \in 1..l
      BY <1>1, <2>2
    <3> HIDE DEF s
    <3> QED
      BY <1>5, <2>1, <3>1
  <2>3. ASSUME m > k PROVE t[k + 1] = d /\ d # 0
    <3>1. k \in 0..(m - 1) /\ k + 1 \in 1..m
      BY <1>1, <2>3
    <3> HIDE DEF t
    <3> QED
      BY <1>5, <2>1, <3>1
  <2>4. (l = k /\ k < n => c = 0) /\ (m = k /\ k < n => d = 0)
    BY <1>5
  <2> HIDE DEF s, t, c, d
  <2> QED
    BY <2>2, <2>3, <2>4
<1> HIDE DEF s, t, c, d
<1>12. /\ l = k /\ m = k => s = t /\ ~Before(s, t)
       /\ CharAt(s, k + 1) < CharAt(t, k + 1) => s # t /\ Before(s, t)
       /\ CharAt(s, k + 1) > CharAt(t, k + 1) => s # t /\ ~Before(s, t)
  <2>1. k \in Nat
    BY <1>1
  <2> QED
    BY <1>7, <1>8, <1>9, <1>10, <2>1, StringOrder, ZenonT(30)
<1>13. (result = 0 <=> s = t) /\ (result < 0 <=> Before(s, t))
  <2>1. CASE n = 0
    <3>1. result = 0 /\ l = 0 /\ m = 0 /\ k = 0
      BY <1>1, <1>2, <1>5, <2>1, StringsAssumption DEF ScanResult, Compares, n
    <3> QED
      BY <1>12, <3>1
  <2>2. CASE n # 0
    <3>1. k < n /\ result = c - d
      BY <1>1, <1>2, <2>2 DEF ScanResult, Compares, c, d, n
    <3>2. c = 0 \/ c # d \/ k + 1 = n
      <4>1. scall.fn = "strncmp" => n = scall.n
        BY DEF n
      <4>2. CASE scall.fn = "strcmp"
        BY <1>1, <4>2 DEF ScanGoesOn, c, d
      <4>3. CASE scall.fn = "strncmp"
        <5>1. c = 0 \/ ~(k + 1 < n) \/ c # d
          BY <1>1, <4>1, <4>3 DEF ScanGoesOn, c, d
        <5> QED
          BY <1>1, <3>1, <5>1
      <4> QED
        BY <4>2, <4>3 DEF Compares
    <3>3. CASE l = k \/ m = k \/ c # d
      <4>1. CharAt(s, k + 1) = c /\ CharAt(t, k + 1) = d
        BY <1>1, <1>7, <1>8, <1>9, <1>11, <3>1 DEF CharAt
      <4>2. c = d => l = k /\ m = k
        BY <1>1, <1>7, <1>11, <3>1, <3>3
      <4> QED
        BY <1>6, <1>12, <3>1, <4>1, <4>2
    <3>4. CASE l > k /\ m > k /\ c = d
      <4>1. k + 1 = n /\ l = k + 1 /\ m = k + 1
        <5>1. k + 1 = n
          BY <1>11, <3>2, <3>4
        <5> QED
          BY <1>1, <1>5, <3>4, <5>1
      <4>2. \A z \in 1..(k + 1) : s[z] = t[z]
        BY <1>1, <1>10, <1>11, <3>4
      <4>3. s = t /\ ~Before(s, t)
        <5>1. k + 1 \in Nat /\ Len(s) = k + 1 /\ Len(t) = k + 1
          BY <1>1, <1>8, <1>9, <4>1
        <5> QED
          BY <1>8, <1>9, <4>2, <5>1, StringOrder
      <4> QED
        BY <1>6, <3>1, <3>4, <4>3
    <3> QED
      BY <1>1, <1>7, <3>3, <3>4
  <2> QED
    BY <2>1, <2>2
<1> QED
  BY <1>13 DEF s, t, n

\* What the functions of string.c copy, compare, measure and search, on signed
\* chars and also for areas that overlap, for memory of any size and all arguments.
THEOREM StringsAreExact == StringsSpec => []StringFunctions
<1>1. CopyInv /\ ScanInv => ScansStrings
  BY ScanFinds, ScanCompares DEF ScansStrings, Compares
<1>2. StringsInit => CopyInv /\ ScanInv
  BY StringsInitInv, ScanInvInit
<1>3. CopyInv /\ ScanInv /\ [StringsNext]_stringVars => CopyInv' /\ ScanInv'
  BY StringsStepInv, ScanInvStep
<1> QED
  BY <1>1, <1>2, <1>3, CopiesAreExact, PTL DEF StringsSpec, StringFunctions
=============================================================================
