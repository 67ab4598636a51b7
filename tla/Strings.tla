------------------------------ MODULE Strings -------------------------------
(***************************************************************************)
(* src/src/string.c: the functions on bytes and strings, a byte at a time. *)
(* One call is modelled, in a memory in which every string ends.           *)
(*                                                                         *)
(* A byte is given by its value as a char, which is signed on x86.         *)
(***************************************************************************)
EXTENDS Integers, Sequences, FiniteSetsExt

CONSTANTS
    MemSize,    \* bytes of memory
    CharHalf    \* -CHAR_MIN, 128, scaled

ASSUME StringsAssumption ==
    MemSize \in Nat \ {0} /\ CharHalf \in Nat \ {0}

Bytes == (-CharHalf)..(CharHalf - 1)

\* The int arguments, from CHAR_MIN to beyond UCHAR_MAX.
Ints == (-CharHalf)..(2 * CharHalf)

\* What a byte becomes when an int is stored in it.
ToChar(i) == ((i + CharHalf) % (2 * CharHalf)) - CharHalf

Addrs == 0..(MemSize - 1)
Memories == {m \in [Addrs -> Bytes] : m[MemSize - 1] = 0}

VARIABLES
    mem, mem0,    \* the memory now, and when the function was called
    scall,        \* the call: fn, a and b (dest and src, str1 and str2), n
    k,            \* bytes handled so far
    result, spc   \* what the function returns, and "loop" or "end"

stringVars == <<mem, mem0, scall, k, result, spc>>

\* The second argument is an int for memset and strchr.
CopyCalls ==
    {c \in [fn : {"memcpy", "memmove"}, a : Addrs, b : Addrs, n : Addrs] :
        c.a + c.n <= MemSize /\ c.b + c.n <= MemSize}
    \cup {c \in [fn : {"memset"}, a : Addrs, b : Ints, n : Addrs] :
            c.a + c.n <= MemSize}
ScanCalls ==
    [fn : {"strcmp", "strlen"}, a : Addrs, b : Addrs, n : {0}]
    \cup [fn : {"strncmp"}, a : Addrs, b : Addrs, n : Addrs]
    \cup [fn : {"strchr"}, a : Addrs, b : Ints, n : {0}]

NULL == -1

StringsInit ==
    /\ mem \in Memories /\ mem0 = mem
    /\ scall \in CopyCalls \cup ScanCalls
    /\ k = 0 /\ result = 0 /\ spc = "loop"

Return(r) == spc' = "end" /\ result' = r /\ UNCHANGED <<mem, mem0, scall, k>>

-----------------------------------------------------------------------------
(***************************************************************************)
(* memcpy, memmove and memset                                              *)
(***************************************************************************)

IsCopy == scall.fn \in {"memcpy", "memmove", "memset"}
InPlace == scall.fn = "memmove" /\ scall.a = scall.b

\* The byte written next, counted from the beginning of dest.
Downwards == scall.fn = "memset" \/ (scall.fn = "memmove" /\ scall.a < scall.b)
CopyIndex == IF Downwards THEN scall.n - 1 - k ELSE k

CopyEnds == k = scall.n \/ InPlace

CopyByte ==
    /\ spc = "loop" /\ IsCopy /\ ~CopyEnds
    /\ mem' = [mem EXCEPT ![scall.a + CopyIndex] =
                 IF scall.fn = "memset" THEN ToChar(scall.b)
                 ELSE mem[scall.b + CopyIndex]]
    /\ k' = k + 1
    /\ UNCHANGED <<mem0, scall, result, spc>>

CopyEnd == spc = "loop" /\ IsCopy /\ CopyEnds /\ Return(scall.a)

-----------------------------------------------------------------------------
(***************************************************************************)
(* strcmp, strncmp, strlen and strchr                                      *)
(***************************************************************************)

\* Mutation of ScanGoesOn: strncmp looks at one byte too many.
ScanGoesOnLate ==
    LET c == mem[scall.a + k]
    IN  c # 0 /\ CASE scall.fn = "strcmp"  -> c = mem[scall.b + k]
                   [] scall.fn = "strncmp" -> k < scall.n /\ c = mem[scall.b + k]
                   [] scall.fn = "strlen"  -> TRUE
                   [] scall.fn = "strchr"  -> c # scall.b

\* The condition of the loop; strncmp counts n down to 1.
ScanGoesOn ==
    LET c == mem[scall.a + k]
    IN  c # 0 /\ CASE scall.fn = "strcmp"  -> c = mem[scall.b + k]
                   [] scall.fn = "strncmp" -> k + 1 < scall.n /\ c = mem[scall.b + k]
                   [] scall.fn = "strlen"  -> TRUE
                   [] scall.fn = "strchr"  -> c # scall.b

ScanResult ==
    CASE scall.fn \in {"strcmp", "strncmp"} ->
           IF scall.fn = "strncmp" /\ scall.n = 0 THEN 0
           ELSE mem[scall.a + k] - mem[scall.b + k]
      [] scall.fn = "strlen" -> k
      [] scall.fn = "strchr" -> IF mem[scall.a + k] # 0 THEN scall.a + k ELSE NULL

ScanByte ==
    /\ spc = "loop" /\ ~IsCopy /\ ScanGoesOn
    /\ k' = k + 1
    /\ UNCHANGED <<mem, mem0, scall, result, spc>>

ScanEnd == spc = "loop" /\ ~IsCopy /\ ~ScanGoesOn /\ Return(ScanResult)

StringsNext == CopyByte \/ CopyEnd \/ ScanByte \/ ScanEnd

StringsSpec == StringsInit /\ [][StringsNext]_stringVars

-----------------------------------------------------------------------------
(***************************************************************************)
(* Properties                                                              *)
(***************************************************************************)

\* The string at address a, or as much of it as the first n bytes hold.
StringAt(a, n) ==
    LET end == Min({x \in a..(MemSize - 1) : mem0[x] = 0})
        len == IF end - a < n THEN end - a ELSE n
    IN  [x \in 1..len |-> mem0[a + x - 1]]

\* Order of strings, by the first char that differs, where 0 ends a string: "a"
\* with a negative char behind it comes before "a".
CharAt(s, x) == IF x <= Len(s) THEN s[x] ELSE 0
Before(s, t) ==
    \E x \in 1..(Len(t) + 1) :
        /\ x <= Len(s) + 1 /\ SubSeq(s, 1, x - 1) = SubSeq(t, 1, x - 1)
        /\ CharAt(s, x) < CharAt(t, x)

\* Has the copy written index i of the source before it reads it?  So it does
\* whenever dest and src overlap in memmove, and for memcpy if dest is behind.
Overwritten(i) ==
    IF Downwards THEN scall.b + i < scall.a + scall.n
    ELSE scall.b < scall.a /\ scall.b + i >= scall.a

\* What belongs at index i of the destination.
SourceByte(i) ==
    CASE scall.fn = "memset" -> ToChar(scall.b)
      [] scall.fn # "memset" /\ Overwritten(i)  -> mem[scall.b + i]
      [] scall.fn # "memset" /\ ~Overwritten(i) -> mem0[scall.b + i]

\* A copy leaves the bytes outside its destination alone, and puts what the
\* source held before the call into it, but for overlapping areas: there the
\* first dest - src bytes are repeated, or for memmove with dest below src the
\* last src - dest ones, and the rest of the source is lost.
CopiesBytes ==
    spc = "end" =>
        /\ \A x \in Addrs :
              mem[x] # mem0[x] =>
                  IsCopy /\ x \in scall.a..(scall.a + scall.n - 1)
        /\ IsCopy =>
              \A i \in 0..(scall.n - 1) : mem[scall.a + i] = SourceByte(i)

\* The comparisons order strings by their chars, of which strncmp sees n; strlen
\* counts them, strchr finds the first one equal to the int it is given: one of
\* 128..255 is never found, as no char has such a value.
ScansStrings ==
    spc = "end" =>
        /\ scall.fn \in {"strcmp", "strncmp"} =>
              LET n == IF scall.fn = "strcmp" THEN MemSize ELSE scall.n
              IN  /\ result = 0 <=> StringAt(scall.a, n) = StringAt(scall.b, n)
                  /\ result < 0 <=> Before(StringAt(scall.a, n), StringAt(scall.b, n))
        /\ scall.fn = "strlen" => result = Len(StringAt(scall.a, MemSize))
        /\ scall.fn = "strchr" =>
              LET s == StringAt(scall.a, MemSize)
                  found == {x \in DOMAIN s : s[x] = scall.b}
              IN  result = IF found = {} THEN NULL ELSE scall.a + Min(found) - 1

\* The functions of string.c copy the source, as far as it is not overwritten on
\* the way, and nothing else, and compare and search strings of signed chars.
StringFunctions == CopiesBytes /\ ScansStrings
=============================================================================
