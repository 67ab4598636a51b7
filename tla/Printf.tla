------------------------------- MODULE Printf -------------------------------
(***************************************************************************)
(* vdprintf of src/src/io/printf.c, as the loader runs it: a format is     *)
(* read character by character, an integer is converted digit by digit,    *)
(* and the digits of a decimal long long come from the calls of Division.  *)
(*                                                                         *)
(* Characters are strings of length one, a string argument is a sequence   *)
(* of them; the zero byte behind a format is "NUL".                        *)
(***************************************************************************)
EXTENDS Division, SequencesExt

CONSTANTS
    HalfOf,       \* half the range of the integer type for each length
    WidthMod,     \* the range of uint16_t, scaled
    PtrDigits     \* sizeof(void *) * 2

Lengths == {"hh", "h", "none", "l", "ll"}

ASSUME PrintfAssumption ==
    /\ HalfOf \in [Lengths -> Nat \ {0}] /\ HalfOf["ll"] = Half
    /\ WidthMod \in Nat \ {0} /\ PtrDigits \in Nat

VARIABLES
    format, args,    \* the format and what is left of the arguments
    p,               \* the index of the next character of the format
    ppc,             \* what the printer does
    spec,            \* the directive; its field arg is the value to print
    sign, d, buf,    \* variables of INTEGER_PRINTER
    out, ret         \* the characters written, and their count

printfVars == <<format, args, p, ppc, spec, sign, d, buf, out, ret>>

NoSpec == [flags |-> {}, width |-> 0, precision |-> 0, given |-> FALSE,
           length |-> "none", specifier |-> "NUL", arg |-> 0]

PrintfInit(f, a) ==
    /\ format = f /\ args = a
    /\ p = 1 /\ ppc = "text" /\ spec = NoSpec
    /\ sign = <<>> /\ d = 0 /\ buf = <<>>
    /\ out = <<>> /\ ret = 0

At(i) == IF i <= Len(format) THEN format[i] ELSE "NUL"

Write(s) == out' = out \o s
Pad(c, n) == [i \in 1..n |-> c]
Upto(n, m) == IF n < m THEN m - n ELSE 0

-----------------------------------------------------------------------------
(***************************************************************************)
(* parse_format_specifier: %[flags][width][.precision][length]specifier    *)
(***************************************************************************)

\* Digits; their case is left out.
DigitChars == <<"0", "1", "2", "3", "4", "5", "6", "7", "8", "9",
                "a", "b", "c", "d", "e", "f">>
Decimal == {DigitChars[i] : i \in 1..10}
ValueOf(c) == (CHOOSE i \in 1..16 : DigitChars[i] = c) - 1
FlagChars == {"-", "+", " ", "#", "0"}

\* The first index from i on whose character is not in S.
Skip(i, S) == Min({j \in i..(Len(format) + 1) : At(j) \notin S})

Atoi(i, j) ==
    FoldLeft(LAMBDA a, c : ((10 * a) + ValueOf(c)) % WidthMod, 0,
             SubSeq(format, i, j - 1))

\* A width or precision: from the arguments, or a possibly empty number.
Number(i, a) ==
    IF At(i) = "*"
      THEN [value |-> a[1] % WidthMod, next |-> i + 1, args |-> Tail(a)]
      ELSE [value |-> Atoi(i, Skip(i, Decimal)), next |-> Skip(i, Decimal),
            args |-> a]

LengthAt(i) ==
    CASE At(i) = "h" -> IF At(i + 1) = "h" THEN <<"hh", 2>> ELSE <<"h", 1>>
      [] At(i) = "l" -> IF At(i + 1) = "l" THEN <<"ll", 2>> ELSE <<"l", 1>>
      [] At(i) = "j" -> <<"ll", 1>>
      [] At(i) \in {"z", "t"} -> <<"l", 1>>
      [] OTHER -> <<"none", 0>>

\* A directive at the end of the format takes the zero byte for its specifier
\* and goes on behind it, where anything may follow.
Parse ==
    /\ ppc = "text" /\ At(p) = "%"
    /\ LET f  == Skip(p + 1, FlagChars)
           w  == Number(f, args)
           given == At(w.next) = "."
           pr == IF given THEN Number(w.next + 1, w.args)
                 ELSE [value |-> 0, next |-> w.next, args |-> w.args]
           l  == LengthAt(pr.next)
           c  == At(pr.next + l[2])
           s  == [flags |-> {format[i] : i \in (p + 1)..(f - 1)},
                  width |-> w.value, precision |-> pr.value, given |-> given,
                  length |-> l[1], specifier |-> c, arg |-> 0]
       IN  /\ spec' = IF c = "p"
                        THEN [s EXCEPT !.given = TRUE, !.width = 0, !.length = "l",
                                       !.precision = PtrDigits, !.specifier = "x"]
                        ELSE s
           /\ p' = pr.next + l[2] + 1
           /\ args' = pr.args
           /\ ppc' = IF c = "NUL" THEN "overrun" ELSE "directive"
    /\ UNCHANGED <<format, sign, d, buf, out, ret, divVars>>

-----------------------------------------------------------------------------
(***************************************************************************)
(* INTEGER_PRINTER and the table of its instances                          *)
(***************************************************************************)

Signed == spec.specifier \in {"d", "i"}
Base == CASE spec.specifier \in {"x", "X"} -> 16
          [] spec.specifier = "o" -> 8
          [] OTHER -> 10
Prefix == IF "#" \notin spec.flags THEN <<>>
          ELSE CASE spec.specifier = "o" -> <<"0">>
                 [] spec.specifier = "x" -> <<"0", "x">>
                 [] spec.specifier = "X" -> <<"0", "X">>
                 [] OTHER -> <<>>

\* The argument as the parameter d of the printer.
ToType(a, half) == ((a + half) % (2 * half)) - half
Argument(a) == IF Signed THEN ToType(a, HalfOf[spec.length])
               ELSE a % (2 * HalfOf[spec.length])

\* d = -d: char and short keep the least value; for the longer types the
\* negation overflows, and an optimised build goes on with the magnitude.
Negated(x) ==
    IF x = -HalfOf[spec.length]
      THEN IF spec.length \in {"hh", "h"} THEN {x} ELSE {x, -x}
      ELSE {-x}

\* Mutation of SignOf: a space wins over a plus.
SignOfSpace(x) ==
    IF Signed /\ x < 0 THEN <<"-">>
    ELSE IF " " \in spec.flags THEN <<" ">>
    ELSE IF "+" \in spec.flags THEN <<"+">> ELSE <<>>

SignOf(x) ==
    IF Signed /\ x < 0 THEN <<"-">>
    ELSE IF "+" \in spec.flags THEN <<"+">>
    ELSE IF " " \in spec.flags THEN <<" ">> ELSE <<>>

StartInteger ==
    /\ ppc = "directive" /\ spec.specifier \in {"d", "i", "u", "o", "x", "X"}
    /\ LET x == Argument(args[1])
       IN  /\ sign' = SignOf(x)
           /\ d' \in IF Signed /\ x < 0 THEN Negated(x) ELSE {x}
           /\ spec' = [spec EXCEPT !.arg = x]
    /\ buf' = <<>> /\ ppc' = "digits" /\ args' = Tail(args)
    /\ UNCHANGED <<format, p, out, ret, divVars>>

\* The 32-bit loader divides a decimal long long by calls.
ByCall == spec.length = "ll" /\ Base = 10

Digit ==
    /\ ppc = "digits" /\ d > 0 /\ ~ByCall
    /\ buf' = <<DigitChars[(d % Base) + 1]>> \o buf
    /\ d' = d \div Base
    /\ UNCHANGED <<format, args, p, ppc, spec, sign, out, ret, divVars>>

CallMod ==
    /\ ppc = "digits" /\ d > 0 /\ ByCall
    /\ Divide(IF Signed THEN "__moddi3" ELSE "__umoddi3", d, 10)
    /\ ppc' = "mod"
    /\ UNCHANGED <<format, args, p, spec, sign, d, buf, out, ret>>

ModDone ==
    /\ ppc = "mod" /\ DivReturn
    /\ buf' = <<DigitChars[DivResult + 1]>> \o buf
    /\ ppc' = "call_div"
    /\ UNCHANGED <<format, args, p, spec, sign, d, out, ret>>

CallDiv ==
    /\ ppc = "call_div"
    /\ Divide(IF Signed THEN "__divdi3" ELSE "__udivdi3", d, 10)
    /\ ppc' = "div"
    /\ UNCHANGED <<format, args, p, spec, sign, d, buf, out, ret>>

DivDone ==
    /\ ppc = "div" /\ DivReturn
    /\ d' = DivResult /\ ppc' = "digits"
    /\ UNCHANGED <<format, args, p, spec, sign, buf, out, ret>>

\* Padding, the sign behind it, the prefix, zeros up to the precision, digits.
EmitInteger ==
    /\ ppc = "digits" /\ d <= 0
    /\ LET precision == IF spec.given THEN spec.precision ELSE 1
           zeros == Pad("0", Upto(Len(buf), precision))
           body  == sign \o Prefix \o zeros \o buf
           fill  == Upto(Len(body), spec.width)
           field == IF "-" \in spec.flags THEN body \o Pad(" ", fill)
                    ELSE Pad(IF "0" \in spec.flags THEN "0" ELSE " ", fill) \o body
       IN  /\ Write(field)
           /\ ret' = ret + fill + Len(sign) + Len(Prefix) + Len(zeros) + Len(buf)
    /\ ppc' = "text"
    /\ UNCHANGED <<format, args, p, spec, sign, d, buf, divVars>>

-----------------------------------------------------------------------------
(***************************************************************************)
(* The other directives, and the characters between them                   *)
(***************************************************************************)

StringChars(s) ==
    IF spec.given /\ spec.precision < Len(s) THEN spec.precision ELSE Len(s)

PrintString ==
    /\ ppc = "directive" /\ spec.specifier = "s"
    /\ LET chars == SubSeq(args[1], 1, StringChars(args[1]))
           fill  == Pad(" ", Upto(StringChars(args[1]), spec.width))
       IN  /\ Write(IF "-" \in spec.flags THEN chars \o fill ELSE fill \o chars)
           /\ ret' = ret + Len(chars) + Len(fill)
    /\ spec' = [spec EXCEPT !.arg = args[1]]
    /\ args' = Tail(args) /\ ppc' = "text"
    /\ UNCHANGED <<format, p, sign, d, buf, divVars>>

PrintChar ==
    /\ ppc = "directive" /\ spec.specifier \in {"c", "%"}
    /\ Write(<<IF spec.specifier = "c" THEN args[1] ELSE "%">>) /\ ret' = ret + 1
    /\ args' = IF spec.specifier = "c" THEN Tail(args) ELSE args
    /\ ppc' = "text"
    /\ UNCHANGED <<format, p, spec, sign, d, buf, divVars>>

\* A specifier that is not known prints nothing and takes no argument.
PrintNothing ==
    /\ ppc = "directive"
    /\ spec.specifier \notin {"d", "i", "u", "o", "x", "X", "s", "c", "%"}
    /\ ppc' = "text"
    /\ UNCHANGED <<format, args, p, spec, sign, d, buf, out, ret, divVars>>

PrintText ==
    /\ ppc = "text" /\ At(p) \notin {"%", "NUL"}
    /\ Write(<<format[p]>>) /\ ret' = ret + 1 /\ p' = p + 1
    /\ UNCHANGED <<format, args, ppc, spec, sign, d, buf, divVars>>

PrintEnd ==
    /\ ppc = "text" /\ At(p) = "NUL"
    /\ ppc' = "end"
    /\ UNCHANGED <<format, args, p, spec, sign, d, buf, out, ret, divVars>>

PrintfNext ==
    \/ Parse \/ StartInteger \/ Digit \/ CallMod \/ ModDone \/ CallDiv \/ DivDone
    \/ (DivLoop /\ UNCHANGED printfVars)
    \/ EmitInteger \/ PrintString \/ PrintChar \/ PrintNothing
    \/ PrintText \/ PrintEnd

-----------------------------------------------------------------------------
(***************************************************************************)
(* Properties, for formats that are a single directive                     *)
(***************************************************************************)

\* What a reader makes of the digits at the end of a field.  Zeros may stand
\* before the sign: with flag 0 the code pads there.
Reads(s) ==
    LET n == Len(SelectSeq(s, LAMBDA c : c # " "))
        body == SelectSeq(s, LAMBDA c : c # " ")
        k == Max({0} \cup {i \in 1..n : body[i] \in {"-", "+", "x", "X"}})
    IN  FoldLeft(LAMBDA a, c : (Base * a) + ValueOf(c), 0, SubSeq(body, k + 1, n))

Least == Signed /\ spec.arg = -HalfOf[spec.length]

\* The field of an integer is as wide as asked for, or as its parts need, it
\* shows the sign, and its digits read back as the argument, converted to the
\* type of the length; the least value of a signed type, which has no positive
\* counterpart, is excepted.  A string is cut off at the precision.  What printf
\* returns is what it has written.
PrintsValue ==
    ppc = "end" =>
        /\ ret = Len(out)
        /\ spec.specifier \in {"d", "i", "u", "o", "x", "X"} /\ ~Least =>
             /\ Reads(out) = Magnitude(spec.arg)
             /\ Contains(out, "-") <=> spec.arg < 0
             /\ Contains(out, "+") <=> "+" \in spec.flags /\ spec.arg >= 0
             /\ Len(out) >= spec.width
             /\ Len(out) > spec.width =>
                  Head(out) # " " \/ sign = <<" ">>
             /\ spec.given => Len(out) >= spec.precision
        /\ spec.specifier = "s" =>
             /\ Len(out) >= spec.width
             /\ LET text == SelectSeq(out, LAMBDA c : c # " ")
                IN  /\ IsPrefix(text, spec.arg)
                    /\ Len(text) = Len(spec.arg)
                         \/ (spec.given /\ Len(text) = spec.precision)
=============================================================================
