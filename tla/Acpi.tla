-------------------------------- MODULE Acpi --------------------------------
(***************************************************************************)
(* main's search of the ACPI tables (src/src/acpi): find_sdt in the first  *)
(* megabyte, then find_madt and find_mcfg, both by find_acpi_table, which  *)
(* sees physical memory through the one window of the mapper.  malloc may  *)
(* map a page, and so move the window, in the middle of a search.          *)
(*                                                                         *)
(* A firmware is what the search can meet: the root pointers in the order  *)
(* of their addresses, each with the outcome of its two checksums, and the *)
(* tables by address, each with its signature and what it lists: addresses *)
(* of tables, or the base addresses of an MCFG.                            *)
(***************************************************************************)
EXTENDS Integers, Sequences, SequencesExt

CONSTANTS
    Firmwares,     \* the firmwares: see MCBoot
    HeapFrame,     \* where malloc leaves the window if it moves it
    Beyond         \* what is read behind the end of a table

\* A version other than 0 and 2 is passed over, and so is version 2 with a bad
\* checksum.
Accepted(r) == r.sum /\ (r.version = 0 \/ (r.version = 2 /\ r.sum2))

\* The table a root pointer leads to.
SdtOf(r) == IF r.version = 2 THEN r.xsdt ELSE r.rsdt

\* A root pointer that is accepted leads to a table.
ASSUME FirmwaresAssumption ==
    \A fw \in Firmwares :
        /\ Len(fw.rsdps) \in Nat
        /\ \A n \in 1..Len(fw.rsdps) :
              Accepted(fw.rsdps[n]) => SdtOf(fw.rsdps[n]) \in DOMAIN fw.table
        /\ \A a \in DOMAIN fw.table : Len(fw.table[a].lists) \in Nat

VARIABLES
    firmware,
    pc,            \* where main is
    window,        \* the address phys_look was last called with
    sdt,           \* the root table; 0, as at start, before find_sdt finds it
    entry,         \* the loop counter of the current function
    ptrs, size,    \* the tables found, and the room in their array
    bases          \* the array that find_mcfg fills

acpiVars == <<firmware, pc, window, sdt, entry, ptrs, size, bases>>

Table(a) == firmware.table[a]

AcpiInit ==
    /\ firmware = [rsdps |-> <<>>] /\ pc = "off" /\ window = 0 /\ sdt = 0 /\ entry = 1
    /\ ptrs = <<>> /\ size = 0 /\ bases = <<>>

AcpiBegin ==
    /\ pc = "off"
    /\ firmware' \in Firmwares /\ pc' = "find_sdt"
    /\ UNCHANGED <<window, sdt, entry, ptrs, size, bases>>

-----------------------------------------------------------------------------
(***************************************************************************)
(* find_sdt                                                                *)
(***************************************************************************)

\* The search for a signature begins at the root table.
StartSearch(next) ==
    /\ pc' = next /\ entry' = 1 /\ window' = sdt'
    /\ ptrs' = <<>> /\ size' = 0

FindSdt ==
    /\ pc = "find_sdt" /\ entry <= Len(firmware.rsdps)
    /\ IF Accepted(firmware.rsdps[entry])
         THEN sdt' = SdtOf(firmware.rsdps[entry]) /\ StartSearch("APIC")
         ELSE entry' = entry + 1 /\ UNCHANGED <<pc, window, sdt, ptrs, size>>
    /\ UNCHANGED <<firmware, bases>>

NoSdt ==
    /\ pc = "find_sdt" /\ entry > Len(firmware.rsdps)
    /\ pc' = "panic"
    /\ UNCHANGED <<firmware, window, sdt, entry, ptrs, size, bases>>

-----------------------------------------------------------------------------
(***************************************************************************)
(* find_acpi_table: one round per entry of the root table.  pc is the      *)
(* signature that is looked for.                                           *)
(***************************************************************************)

\* an address of the table the window shows
EntryInWindow ==
    IF window \in DOMAIN firmware.table /\ entry <= Len(Table(window).lists)
      THEN Table(window).lists[entry] ELSE HeapFrame

SignatureAt(a) == IF a \in DOMAIN firmware.table THEN Table(a).signature ELSE "none"

\* The array has room for one, and is doubled when it is full.
Room == IF size = 0 THEN 1 ELSE IF Len(ptrs) = size THEN 2 * size ELSE size

\* Mutation of LookBack: the window stays where the round has left it.
LookBackNot(w) == w

\* the window behind the round that has left it at w
LookBack(w) == sdt

Searching == pc \in {"APIC", "MCFG"}

SearchEntry ==
    /\ Searching /\ entry <= Len(Table(sdt).lists)
    /\ LET addr  == EntryInWindow
           match == SignatureAt(addr) = pc
       IN  /\ ptrs' = IF match THEN Append(ptrs, addr) ELSE ptrs
           /\ size' = IF match THEN Room ELSE size
           /\ \E w \in {addr} \cup (IF size' # size THEN {HeapFrame} ELSE {}) :
                 window' = LookBack(w)
    /\ entry' = entry + 1
    /\ UNCHANGED <<firmware, pc, sdt, bases>>

-----------------------------------------------------------------------------
(***************************************************************************)
(* find_madt and find_mcfg                                                 *)
(***************************************************************************)

\* Both test the room in the array, not the number of tables in it.
SearchFailed ==
    /\ Searching /\ entry > Len(Table(sdt).lists) /\ size # 1
    /\ pc' = "panic"
    /\ UNCHANGED <<firmware, window, sdt, entry, ptrs, size, bases>>

FoundMadt ==
    /\ pc = "APIC" /\ entry > Len(Table(sdt).lists) /\ size = 1
    /\ sdt' = sdt /\ StartSearch("MCFG")
    /\ UNCHANGED <<firmware, bases>>

FoundMcfg ==
    /\ pc = "MCFG" /\ entry > Len(Table(sdt).lists) /\ size = 1
    /\ pc' = "bases" /\ entry' = 1 /\ window' = ptrs[1]
    /\ UNCHANGED <<firmware, sdt, ptrs, size, bases>>

\* addr is incremented twice in a round: every second entry is read, and for
\* the later half of the rounds what lies behind the table.
McfgEntry ==
    /\ pc = "bases" /\ entry <= Len(Table(ptrs[1]).lists)
    /\ bases' = Append(bases, LET n == 2 * entry - 1 IN
                                IF n <= Len(Table(ptrs[1]).lists)
                                  THEN Table(ptrs[1]).lists[n] ELSE Beyond)
    /\ entry' = entry + 1
    /\ UNCHANGED <<firmware, pc, window, sdt, ptrs, size>>

McfgRead == pc = "bases" /\ entry > Len(Table(ptrs[1]).lists)

\* main prints the entries and stops in intloop.
McfgDone ==
    /\ McfgRead
    /\ pc' = "intloop"
    /\ UNCHANGED <<firmware, window, sdt, entry, ptrs, size, bases>>

\* The array was allocated with one byte per entry: with more than one entry the
\* heap is overwritten, and the free that follows may do anything.
McfgOverrun ==
    /\ McfgRead /\ Len(bases) > 1
    /\ pc' = "damaged"
    /\ UNCHANGED <<firmware, window, sdt, entry, ptrs, size, bases>>

AcpiNext ==
    \/ AcpiBegin \/ FindSdt \/ NoSdt \/ SearchEntry \/ SearchFailed
    \/ FoundMadt \/ FoundMcfg \/ McfgEntry \/ McfgDone
    \/ McfgOverrun

-----------------------------------------------------------------------------
(***************************************************************************)
(* Properties                                                              *)
(***************************************************************************)

\* The entries up to the n-th of the root table that lead to a table with this
\* signature, and all of them.
Hits(sign, n) == {k \in 1..n : SignatureAt(Table(sdt).lists[k]) = sign}
Listed(sign) == Hits(sign, Len(Table(sdt).lists))

One(S) == \E k \in S : S = {k}

\* at holds the indices in S in increasing order; ptrs holds what is there.
Enumerates(at, S) ==
    /\ {at[j] : j \in 1..Len(ptrs)} = S
    /\ \A j, k \in 1..Len(ptrs) : j < k => at[j] < at[k]
    /\ \A j \in 1..Len(ptrs) : ptrs[j] = Table(sdt).lists[at[j]]
Holds(S) == \E at \in [1..Len(ptrs) -> S] : Enumerates(at, S)

\* The search collects the tables with the signature, in order, up to the entry
\* it has reached, and never more than its array has room for, although its
\* malloc may move the window it reads the entries through; and although main
\* tests the room and not the number of tables, it goes on with one MADT and one
\* MCFG and with no other number of them.
AcpiTablesFound ==
    /\ Searching =>
          /\ Holds(Hits(pc, entry - 1)) /\ Len(ptrs) <= size
          /\ pc = "MCFG" => One(Listed("APIC"))
    /\ pc \in {"bases", "intloop", "damaged"} =>
          Holds(Listed("MCFG")) /\ Len(ptrs) = 1
    /\ pc = "panic" /\ sdt # 0 =>
          ~One(Listed("APIC")) \/ ~One(Listed("MCFG"))
=============================================================================
