------------------------------- MODULE MCLib --------------------------------
EXTENDS Lib

\* int and long have 6 bits, short 5, char 4; long long as int.
MCHalfOf == [hh |-> 8, h |-> 16, none |-> 32, l |-> 32, ll |-> 32]

Flags == {<<>>, <<"-">>, <<"+">>, <<"#">>, <<"0">>, <<" ", "+">>, <<"0", "-", "#">>}
Widths == {<<>>, <<"4">>, <<"*">>, <<"1", "8">>}
Precisions == {<<>>, <<".">>, <<".", "3">>, <<".", "*">>}
LengthChars == {<<>>, <<"h">>, <<"h", "h">>, <<"l", "l">>, <<"z">>}

Stars(s) == Len(SelectSeq(s, LAMBDA c : c = "*"))
Directive(f, w, r, l, c) == <<"%">> \o f \o w \o r \o l \o <<c>>

\* The arguments: one number for every star, then the value.
Call(s, v) == <<s, Pad(3, Stars(s)) \o <<v>>>>

IntegerCalls ==
    {Call(Directive(f, w, r, l, c), v) :
        f \in Flags, w \in Widths, r \in Precisions, l \in LengthChars,
        c \in {"d", "u", "x", "o"}, v \in {-32, -8, -1, 0, 7, 31}}
MoreCalls ==
    {Call(Directive(<<>>, <<>>, <<>>, l, c), v) :
        l \in {<<"j">>, <<"t">>, <<"l">>}, c \in {"i", "X", "p", "?"}, v \in -32..63}
StringCalls ==
    {Call(Directive(f, w, r, <<>>, "s"), v) :
        f \in Flags, w \in Widths, r \in Precisions, v \in {<<>>, <<"a", "b", "c", "d">>}}
TextCalls ==
    {Call(<<"a", "%", "%", "b", "%", "c">>, "z"),
     Call(<<"a", "%">>, 0), Call(<<"%", "0", "l">>, 0)}

MCPrintCalls == IntegerCalls \cup MoreCalls \cup StringCalls \cup TextCalls
=============================================================================
