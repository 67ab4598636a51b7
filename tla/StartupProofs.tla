--------------------------- MODULE StartupProofs ----------------------------
(***************************************************************************)
(* The boot of the kernel for every machine and every firmware.            *)
(***************************************************************************)
EXTENDS Startup, PageTablesProofs

-----------------------------------------------------------------------------
(***************************************************************************)
(* The search of the ACPI tables                                           *)
(***************************************************************************)

LastItem == Len(Table(sdt).lists)
Listing == {Table(sdt).lists[k] : k \in 1..LastItem}

\* The room in the array says more of the number of tables than that they fit:
\* it is 1 for one table only.
Fits ==
    /\ ptrs \in Seq(Listing) /\ size \in Nat
    /\ Len(ptrs) <= size
    /\ size = 0 <=> Len(ptrs) = 0
    /\ size = 1 <=> Len(ptrs) = 1

\* main after the n-th entry of the search for a signature
Searched(sign, n) == n \in 0..LastItem /\ Fits /\ Holds(Hits(sign, n))

AcpiInv ==
    /\ pc # "off" => firmware \in Firmwares
    /\ pc \in {"off", "find_sdt"} => sdt = 0 /\ entry \in Nat \ {0}
    /\ pc \in {"APIC", "MCFG", "bases", "intloop", "damaged"} =>
          sdt \in DOMAIN firmware.table /\ LastItem \in Nat
    /\ Searching => window = sdt /\ entry \in Nat \ {0} /\ Searched(pc, entry - 1)
    /\ pc = "MCFG" => One(Listed("APIC"))
    /\ pc \in {"bases", "intloop", "damaged"} => Searched("MCFG", LastItem) /\ size = 1
    /\ pc = "panic" /\ sdt # 0 => ~One(Listed("APIC")) \/ ~One(Listed("MCFG"))
    /\ pc \in {"off", "find_sdt", "APIC", "MCFG", "bases", "intloop", "damaged", "panic"}

\* The search begins with nothing.
LEMMA SearchBegins ==
  ASSUME NEW sign, ptrs' = <<>>, size' = 0, LastItem' \in Nat
  PROVE  Searched(sign, 0)'
<1>1. ptrs' \in Seq(Listing') /\ Len(ptrs') = 0
  OBVIOUS
<1>2. Fits'
  BY <1>1 DEF Fits
<1>3. PICK at : at \in [1..0 -> {}]
  <2>1. [j \in 1..0 |-> 0] \in [1..0 -> {}]
    OBVIOUS
  <2> QED
    BY <2>1
<1>4. at \in [1..Len(ptrs') -> {}] /\ Enumerates(at, {})'
  BY <1>1, <1>3 DEF Enumerates
<1>5. Holds({})'
  BY <1>4 DEF Holds
<1>6. Hits(sign, 0)' = {}
  BY DEF Hits
<1>7. Holds(Hits(sign, 0))'
  <2>1. PICK S : S = {}
    OBVIOUS
  <2>2. Holds(S)' /\ Hits(sign, 0)' = S
    BY <1>5, <1>6, <2>1
  <2> QED
    BY <2>2
<1>8. (0 \in 0..LastItem)'
  OBVIOUS
<1> QED
  BY <1>2, <1>7, <1>8 DEF Searched

\* The number of tables in the array decides whether there is one.
LEMMA RoomCounts ==
  ASSUME NEW S \in SUBSET Nat, Holds(S), Fits
  PROVE  One(S) <=> size = 1
<1>1. PICK at \in [1..Len(ptrs) -> S] : Enumerates(at, S)
  BY DEF Holds
<1>2. Len(ptrs) \in Nat /\ size \in Nat /\ (size = 1 <=> Len(ptrs) = 1)
  BY DEF Fits
<1>3. {at[j] : j \in 1..Len(ptrs)} = S
      /\ \A j, k \in 1..Len(ptrs) : j < k => at[j] < at[k]
  BY <1>1 DEF Enumerates
<1>4. CASE Len(ptrs) = 0
  <2>1. S = {}
    BY <1>3, <1>4
  <2> QED
    BY <1>2, <1>4, <2>1 DEF One
<1>5. CASE Len(ptrs) = 1
  <2>1. 1..Len(ptrs) = {1}
    BY <1>5
  <2>2. S = {at[1]}
    BY <1>3, <2>1
  <2> QED
    BY <1>2, <1>5, <2>2 DEF One
<1>6. CASE Len(ptrs) > 1
  <2>1. 1 \in 1..Len(ptrs) /\ 2 \in 1..Len(ptrs)
    BY <1>2, <1>6
  <2>2. at[1] \in S /\ at[2] \in S
    BY <1>3, <2>1
  <2>3. at[1] < at[2]
    BY <1>3, <2>1
  <2>4. at[1] # at[2]
    <3>1. at[1] \in Nat /\ at[2] \in Nat
      BY <2>2
    <3> QED
      BY <2>3, <3>1
  <2>5. Len(ptrs) # 1
    <3>1. \A n \in Nat : n > 1 => n # 1
      OBVIOUS
    <3> QED
      BY <1>2, <1>6, <3>1, Zenon
  <2>6. ~One(S)
    BY <2>2, <2>4 DEF One
  <2> QED
    BY <1>2, <2>5, <2>6
<1>7. \A n \in Nat : n = 0 \/ n = 1 \/ n > 1
  OBVIOUS
<1> QED
  BY <1>2, <1>4, <1>5, <1>6, <1>7

\* One round of the search.
LEMMA RoundOfSearch ==
  ASSUME NEW sign, NEW n \in Nat, n < LastItem, LastItem \in Nat, Searched(sign, n),
         UNCHANGED <<firmware, sdt>>,
         LET a == Table(sdt).lists[n + 1]
         IN  IF SignatureAt(a) = sign
               THEN ptrs' = Append(ptrs, a) /\ size' = Room
               ELSE UNCHANGED <<ptrs, size>>
  PROVE  Searched(sign, n + 1)'
<1> DEFINE L == Table(sdt).lists
           a == L[n + 1]
           H(k) == {j \in 1..k : SignatureAt(L[j]) = sign}
           X == Listing
<1>1. n + 1 \in 0..LastItem /\ n + 1 \in 1..LastItem
  OBVIOUS
<1>2. /\ LastItem' = LastItem /\ Listing' = Listing /\ a \in Listing /\ Table(sdt)' = Table(sdt)
      /\ Hits(sign, n + 1)' = Hits(sign, n + 1)
  BY <1>1 DEF Listing, LastItem, Table, Hits, SignatureAt
<1>3. PICK at \in [1..Len(ptrs) -> Hits(sign, n)] : Enumerates(at, Hits(sign, n))
  BY DEF Searched, Holds
<1>4. /\ {at[j] : j \in 1..Len(ptrs)} = Hits(sign, n)
      /\ \A j, k \in 1..Len(ptrs) : j < k => at[j] < at[k]
      /\ \A j \in 1..Len(ptrs) : ptrs[j] = L[at[j]]
  BY <1>3 DEF Enumerates
<1>5. Hits(sign, n) \subseteq 1..n
  BY DEF Hits
<1>6. CASE SignatureAt(a) # sign
  <2>1. Hits(sign, n + 1) = Hits(sign, n)
    BY <1>6 DEF Hits
  <2>2. ptrs' = ptrs /\ size' = size
    BY <1>6
  <2>3. Fits'
    BY <1>2, <2>2 DEF Fits, Searched
  <2>4. Enumerates(at, Hits(sign, n + 1))'
    BY <1>2, <1>4, <2>1, <2>2 DEF Enumerates
  <2>5. at \in [1..Len(ptrs') -> Hits(sign, n + 1)']
    BY <1>2, <1>3, <2>1, <2>2
  <2>6. Holds(Hits(sign, n + 1))'
    BY <2>4, <2>5 DEF Holds
  <2> QED
    BY <1>1, <1>2, <2>3, <2>6 DEF Searched
<1>7. CASE SignatureAt(a) = sign
  <2>1. Hits(sign, n + 1) = Hits(sign, n) \cup {n + 1}
    BY <1>7 DEF Hits
  <2>2. ptrs' = Append(ptrs, a) /\ size' = Room
    BY <1>7
  <2>3. ptrs \in Seq(X) /\ Len(ptrs) \in Nat /\ a \in X
    BY <1>2 DEF Fits, Searched
  <2>4. /\ ptrs' \in Seq(X) /\ Len(ptrs') = Len(ptrs) + 1
        /\ \A j \in 1..Len(ptrs) : ptrs'[j] = ptrs[j]
        /\ ptrs'[Len(ptrs) + 1] = a
    <3> HIDE DEF X, a
    <3> QED
      BY <2>2, <2>3
  <2>5. Fits'
    <3>1. /\ size \in Nat /\ Len(ptrs) <= size /\ (size = 0 <=> Len(ptrs) = 0)
          /\ (size = 1 <=> Len(ptrs) = 1)
      BY DEF Searched, Fits
    <3>2. /\ size' \in Nat /\ Len(ptrs) + 1 <= size' /\ size' # 0
          /\ (size' = 1 <=> Len(ptrs) + 1 = 1)
      BY <2>2, <2>3, <3>1 DEF Room
    <3>3. ptrs' \in Seq(Listing')
      BY <1>2, <2>4
    <3> QED
      BY <2>3, <2>4, <3>2, <3>3 DEF Fits
  <2> DEFINE bt == [j \in 1..Len(ptrs') |-> IF j = Len(ptrs) + 1 THEN n + 1 ELSE at[j]]
  <2>6. /\ bt \in [1..Len(ptrs') -> Hits(sign, n + 1)]
        /\ bt[Len(ptrs) + 1] = n + 1
        /\ \A j \in 1..Len(ptrs) : bt[j] = at[j]
    BY <1>3, <2>1, <2>3, <2>4
  <2>7. {bt[j] : j \in 1..Len(ptrs')} = Hits(sign, n + 1)
    <3>1. ASSUME NEW x \in Hits(sign, n + 1) PROVE \E j \in 1..Len(ptrs') : bt[j] = x
      <4>1. CASE x = n + 1
        <5>1. Len(ptrs) + 1 \in 1..Len(ptrs')
          BY <2>3, <2>4
        <5> QED
          BY <2>6, <4>1, <5>1
      <4>2. CASE x \in Hits(sign, n)
        <5>1. PICK j \in 1..Len(ptrs) : at[j] = x
          BY <1>4, <4>2
        <5>2. j \in 1..Len(ptrs')
          BY <2>3, <2>4
        <5> QED
          BY <2>6, <5>1, <5>2
      <4> QED
        BY <2>1, <4>1, <4>2
    <3> HIDE DEF bt
    <3> QED
      BY <2>6, <3>1
  <2>8. ASSUME NEW j \in 1..Len(ptrs'), NEW k \in 1..Len(ptrs'), j < k
        PROVE  bt[j] < bt[k]
    <3>1. j \in 1..Len(ptrs) /\ at[j] \in 1..n
      BY <1>3, <1>5, <2>3, <2>4, <2>8
    <3>2. CASE k = Len(ptrs) + 1
      BY <2>6, <3>1, <3>2
    <3>3. CASE k # Len(ptrs) + 1
      <4>1. k \in 1..Len(ptrs)
        BY <2>3, <2>4, <3>3
      <4> HIDE DEF bt
      <4> QED
        BY <1>4, <2>6, <2>8, <3>1, <4>1
    <3> QED
      BY <3>2, <3>3
  <2>9. ASSUME NEW j \in 1..Len(ptrs') PROVE ptrs'[j] = L[bt[j]]
    <3>1. j = Len(ptrs) + 1 \/ j \in 1..Len(ptrs)
      BY <2>3, <2>4
    <3> HIDE DEF bt, L
    <3> QED
      BY <1>4, <2>4, <2>6, <3>1
  <2> HIDE DEF bt
  <2>10. PICK b : b = bt
    OBVIOUS
  <2>11. Enumerates(b, Hits(sign, n + 1))'
    BY <1>2, <2>7, <2>8, <2>9, <2>10 DEF Enumerates
  <2>12. b \in [1..Len(ptrs') -> Hits(sign, n + 1)']
    BY <1>2, <2>6, <2>10
  <2>13. Holds(Hits(sign, n + 1))'
    BY <2>11, <2>12 DEF Holds
  <2> QED
    BY <1>1, <1>2, <2>5, <2>13 DEF Searched
<1> QED
  BY <1>6, <1>7

LEMMA AcpiInvInit == AcpiInit => AcpiInv
  BY DEF AcpiInit, AcpiInv, Searching

LEMMA AcpiInvBegin == AcpiInv /\ AcpiBegin => AcpiInv'
  BY DEF AcpiInv, AcpiBegin, Searching

LEMMA AcpiInvFindSdt == AcpiInv /\ FindSdt => AcpiInv'
<1> SUFFICES ASSUME AcpiInv, FindSdt PROVE AcpiInv'
  OBVIOUS
<1>1. /\ pc = "find_sdt" /\ entry \in 1..Len(firmware.rsdps) /\ sdt = 0
      /\ firmware \in Firmwares /\ firmware' = firmware
  BY FirmwaresAssumption DEF AcpiInv, FindSdt
<1>2. CASE ~Accepted(firmware.rsdps[entry])
  BY <1>1, <1>2 DEF AcpiInv, FindSdt, Searching
<1>3. CASE Accepted(firmware.rsdps[entry])
  <2>1. /\ pc' = "APIC" /\ entry' = 1 /\ window' = sdt' /\ ptrs' = <<>> /\ size' = 0
        /\ sdt' = SdtOf(firmware.rsdps[entry])
    BY <1>3 DEF FindSdt, StartSearch
  <2>2. sdt' \in DOMAIN firmware.table
    BY <1>1, <1>3, <2>1, FirmwaresAssumption
  <2>3. Len(firmware.table[sdt'].lists) \in Nat
    BY <1>1, <2>2, FirmwaresAssumption
  <2>4. LastItem' \in Nat
    BY <1>1, <2>3 DEF LastItem, Table
  <2>5. Searched("APIC", 0)'
    BY <2>1, <2>4, SearchBegins
  <2>6. Searched(pc, entry - 1)'
    BY <2>1, <2>5
  <2> QED
    BY <1>1, <2>1, <2>2, <2>4, <2>6 DEF AcpiInv, Searching
<1> QED
  BY <1>2, <1>3

LEMMA AcpiInvNoSdt == AcpiInv /\ NoSdt => AcpiInv'
  BY DEF AcpiInv, NoSdt, Searching

LEMMA AcpiInvSearchEntry == AcpiInv /\ SearchEntry => AcpiInv'
<1> SUFFICES ASSUME AcpiInv, SearchEntry PROVE AcpiInv'
  OBVIOUS
<1> DEFINE n == entry - 1
<1>1. /\ Searching /\ window = sdt /\ sdt \in DOMAIN firmware.table /\ LastItem \in Nat
      /\ n \in Nat /\ n < LastItem /\ entry = n + 1 /\ Searched(pc, n)
      /\ entry <= Len(Table(sdt).lists) /\ firmware \in Firmwares
  BY DEF AcpiInv, SearchEntry, Searching, LastItem
<1>2. EntryInWindow = Table(sdt).lists[n + 1]
  BY <1>1 DEF EntryInWindow
<1>3. /\ UNCHANGED <<firmware, pc, sdt, bases>> /\ entry' = entry + 1 /\ window' = sdt'
      /\ LET a == Table(sdt).lists[n + 1]
         IN  IF SignatureAt(a) = pc
               THEN ptrs' = Append(ptrs, a) /\ size' = Room
               ELSE UNCHANGED <<ptrs, size>>
  BY <1>2 DEF SearchEntry, LookBack
<1>4. PICK sign, l : sign = pc /\ l = n
  OBVIOUS
<1>5. Searched(sign, l + 1)'
  BY <1>1, <1>3, <1>4, RoundOfSearch
<1>6. Searched(pc, entry - 1)'
  <2>1. l + 1 = entry' - 1 /\ sign = pc'
    BY <1>1, <1>3, <1>4
  <2> QED
    BY <1>5, <2>1
<1>7. LastItem' = LastItem /\ Listed("APIC")' = Listed("APIC")
  BY <1>3 DEF LastItem, Table, Listed, Hits, SignatureAt
<1> QED
  BY <1>1, <1>3, <1>6, <1>7 DEF AcpiInv, Searching

\* What a finished search says of the tables.
LEMMA SearchEnds ==
  ASSUME AcpiInv, Searching, entry > Len(Table(sdt).lists)
  PROVE  /\ Searched(pc, LastItem) /\ LastItem \in Nat /\ Hits(pc, LastItem) = Listed(pc)
         /\ One(Listed(pc)) <=> size = 1
<1>1. entry \in Nat \ {0} /\ Searched(pc, entry - 1) /\ LastItem \in Nat
  BY DEF AcpiInv, Searching
<1>2. entry - 1 = LastItem
  BY <1>1 DEF Searched, LastItem
<1>3. Searched(pc, LastItem) /\ Hits(pc, LastItem) = Listed(pc)
  BY <1>1, <1>2 DEF Listed, LastItem
<1>4. Hits(pc, LastItem) \in SUBSET Nat
  BY <1>1 DEF Hits
<1>5. Fits /\ Holds(Hits(pc, LastItem))
  BY <1>3 DEF Searched
<1> QED
  BY <1>1, <1>3, <1>4, <1>5, RoomCounts

LEMMA AcpiInvSearchFailed == AcpiInv /\ SearchFailed => AcpiInv'
<1> SUFFICES ASSUME AcpiInv, SearchFailed PROVE AcpiInv'
  OBVIOUS
<1>1. ~One(Listed(pc)) /\ pc \in {"APIC", "MCFG"}
  BY SearchEnds DEF SearchFailed, Searching
<1>2. Listed("APIC")' = Listed("APIC") /\ Listed("MCFG")' = Listed("MCFG")
  BY DEF SearchFailed, Table, Listed, Hits, SignatureAt
<1> QED
  BY <1>1, <1>2 DEF AcpiInv, SearchFailed, Searching

LEMMA AcpiInvFoundMadt == AcpiInv /\ FoundMadt => AcpiInv'
<1> SUFFICES ASSUME AcpiInv, FoundMadt PROVE AcpiInv'
  OBVIOUS
<1>1. /\ pc' = "MCFG" /\ entry' = 1 /\ window' = sdt' /\ ptrs' = <<>> /\ size' = 0
      /\ sdt' = sdt /\ firmware' = firmware /\ pc = "APIC"
  BY DEF FoundMadt, StartSearch
<1>2. One(Listed("APIC")) /\ LastItem \in Nat
  BY <1>1, SearchEnds DEF FoundMadt, Searching
<1>3. LastItem' = LastItem /\ Listed("APIC")' = Listed("APIC")
  BY <1>1 DEF LastItem, Table, Listed, Hits, SignatureAt
<1>4. Searched("MCFG", 0)'
  BY <1>1, <1>2, <1>3, SearchBegins
<1>5. Searched(pc, entry - 1)'
  BY <1>1, <1>4
<1> QED
  BY <1>1, <1>2, <1>3, <1>5 DEF AcpiInv, Searching

LEMMA SearchedKept ==
  ASSUME NEW sign, NEW n, Searched(sign, n), UNCHANGED <<firmware, sdt, ptrs, size>>
  PROVE  Searched(sign, n)'
<1>1. /\ LastItem' = LastItem /\ Listing' = Listing /\ Hits(sign, n)' = Hits(sign, n)
      /\ Table(sdt)' = Table(sdt)
  BY DEF Hits, LastItem, Listing, Table, SignatureAt
<1>2. Fits'
  BY <1>1 DEF Searched, Fits
<1>3. PICK S : S = Hits(sign, n)
  OBVIOUS
<1>4. PICK at \in [1..Len(ptrs) -> S] : Enumerates(at, S)
  BY <1>3 DEF Searched, Holds
<1>5. at \in [1..Len(ptrs)' -> S] /\ Enumerates(at, S)'
  BY <1>1, <1>4 DEF Enumerates
<1>6. Holds(S)'
  BY <1>5 DEF Holds
<1>7. Holds(Hits(sign, n))'
  BY <1>1, <1>3, <1>6
<1> QED
  BY <1>1, <1>2, <1>7 DEF Searched

LEMMA AcpiInvFoundMcfg == AcpiInv /\ FoundMcfg => AcpiInv'
<1> SUFFICES ASSUME AcpiInv, FoundMcfg PROVE AcpiInv'
  OBVIOUS
<1>1. Searched("MCFG", LastItem)
  BY SearchEnds DEF FoundMcfg, Searching
<1>2. LastItem' = LastItem
  BY DEF FoundMcfg, LastItem, Table
<1>3. PICK l : l = LastItem
  OBVIOUS
<1>4. Searched("MCFG", l)'
  BY <1>1, <1>3, SearchedKept DEF FoundMcfg
<1>5. Searched("MCFG", LastItem)'
  BY <1>2, <1>3, <1>4
<1> QED
  BY <1>2, <1>5 DEF AcpiInv, FoundMcfg, Searching

LEMMA AcpiInvMcfg == AcpiInv /\ (McfgEntry \/ McfgDone \/ McfgOverrun) => AcpiInv'
<1> SUFFICES ASSUME AcpiInv, McfgEntry \/ McfgDone \/ McfgOverrun PROVE AcpiInv'
  OBVIOUS
<1>1. /\ UNCHANGED <<firmware, sdt, ptrs, size>> /\ pc = "bases"
      /\ pc' \in {"bases", "intloop", "damaged"}
  BY DEF McfgEntry, McfgDone, McfgOverrun, McfgRead
<1>2. Searched("MCFG", LastItem) /\ LastItem' = LastItem
  BY <1>1 DEF AcpiInv, LastItem, Table
<1>3. PICK l : l = LastItem
  OBVIOUS
<1>4. Searched("MCFG", l)'
  BY <1>1, <1>2, <1>3, SearchedKept
<1>5. Searched("MCFG", LastItem)'
  BY <1>2, <1>3, <1>4
<1> QED
  BY <1>1, <1>2, <1>5 DEF AcpiInv, Searching

LEMMA AcpiInvKept == AcpiInv /\ UNCHANGED acpiVars => AcpiInv'
<1> SUFFICES ASSUME AcpiInv, UNCHANGED acpiVars PROVE AcpiInv'
  OBVIOUS
<1>1. /\ UNCHANGED <<firmware, pc, window, sdt, entry, ptrs, size>>
      /\ LastItem' = LastItem /\ Listed("APIC")' = Listed("APIC")
      /\ Listed("MCFG")' = Listed("MCFG")
  BY DEF acpiVars, LastItem, Table, Listed, Hits, SignatureAt
<1>2. PICK l, n : l = LastItem /\ n = entry - 1
  OBVIOUS
<1>3. /\ Searched("MCFG", l) => Searched("MCFG", l)'
      /\ \A sign : Searched(sign, n) => Searched(sign, n)'
  BY <1>1, SearchedKept
<1>4. /\ Searched("MCFG", LastItem) => Searched("MCFG", LastItem)'
      /\ Searched(pc, entry - 1) => Searched(pc, entry - 1)'
  <2>1. PICK sign : sign = pc
    OBVIOUS
  <2> QED
    BY <1>1, <1>2, <1>3, <2>1
<1> QED
  BY <1>1, <1>4 DEF AcpiInv, Searching

LEMMA AcpiInvStep == AcpiInv /\ [StartupNext]_startupVars => AcpiInv'
<1> SUFFICES ASSUME AcpiInv, [StartupNext]_startupVars PROVE AcpiInv'
  OBVIOUS
<1>1. CASE UNCHANGED acpiVars
  BY <1>1, AcpiInvKept
<1>2. CASE AcpiNext
  BY <1>2, AcpiInvBegin, AcpiInvFindSdt, AcpiInvNoSdt, AcpiInvSearchEntry,
     AcpiInvSearchFailed, AcpiInvFoundMadt, AcpiInvFoundMcfg, AcpiInvMcfg DEF AcpiNext
<1>3. UNCHANGED acpiVars \/ AcpiNext
  BY DEF StartupNext, SearchTables, startupVars
<1> QED
  BY <1>1, <1>2, <1>3

LEMMA AcpiInvFound == AcpiInv => AcpiTablesFound
<1> SUFFICES ASSUME AcpiInv PROVE AcpiTablesFound
  OBVIOUS
<1>1. ASSUME pc \in {"bases", "intloop", "damaged"}
      PROVE  Holds(Listed("MCFG")) /\ Len(ptrs) = 1
  <2>1. Searched("MCFG", LastItem) /\ size = 1
    BY <1>1 DEF AcpiInv
  <2> QED
    BY <2>1 DEF Searched, Fits, Listed, LastItem
<1>2. ASSUME Searching PROVE Holds(Hits(pc, entry - 1)) /\ Len(ptrs) <= size
  <2>1. Searched(pc, entry - 1)
    BY <1>2 DEF AcpiInv
  <2> QED
    BY <2>1 DEF Searched, Fits
<1> QED
  BY <1>1, <1>2 DEF AcpiTablesFound, AcpiInv

\* The search of find_acpi_table is right for every firmware whose root pointers
\* lead to tables: the tables with the signature are collected in order, whatever
\* the window is moved to between two of them, and the room in the array, which
\* find_madt and find_mcfg test, is 1 exactly for one table.
THEOREM AcpiSearchIsRight == StartupSpec => []AcpiTablesFound
<1>1. StartupInit => AcpiInv
  BY AcpiInvInit DEF StartupInit
<1> QED
  BY <1>1, AcpiInvStep, AcpiInvFound, PTL DEF StartupSpec

-----------------------------------------------------------------------------
(***************************************************************************)
(* map_page of the loader                                                  *)
(***************************************************************************)

\* T is the way of the loader down to the table of v.
IsDeepening(T, m, a, v) ==
    /\ T[0] = Top(m, a)
    /\ \A k \in 1..(Levels - 1) : T[k] = Deepen(T[k - 1], Index(v, Levels - k))

\* Deepening is a recursive function.
LEMMA DeepeningSteps ==
  ASSUME NEW m, NEW a, NEW v
  PROVE  IsDeepening(Deepening(m, a, v), m, a, v)
<1> DEFINE n == Levels - 1
           b == Top(m, a)
           Step(g, k) == IF k = 0 THEN b ELSE Deepen(g[k - 1], Index(v, Levels - k))
           G == {j \in 0..n : \E g : \A k \in 0..j : g[k] = Step(g, k)}
           Eqn(T) == T = [k \in 0..(Levels - 1) |-> Step(T, k)]
<1>0. n \in Nat
  BY PageTablesAssumption
<1> HIDE DEF b
<1>1. 0 \in G
  <2> DEFINE h == [k \in 0..0 |-> b]
  <2>1. \A k \in 0..0 : h[k] = Step(h, k)
    OBVIOUS
  <2> HIDE DEF h
  <2> QED
    BY <1>0, <2>1
<1>2. ASSUME NEW j \in 0..(n - 1), j \in G PROVE j + 1 \in G
  <2>1. PICK g : \A k \in 0..j : g[k] = Step(g, k)
    BY <1>2
  <2> DEFINE h == [k \in 0..(j + 1) |-> Step(g, k)]
  <2>2. ASSUME NEW k \in 0..(j + 1) PROVE h[k] = Step(h, k)
    <3>1. CASE k = 0
      BY <3>1
    <3>2. CASE k # 0
      <4>1. k - 1 \in 0..j /\ k - 1 \in 0..(j + 1)
        BY <3>2
      <4>2. h[k - 1] = g[k - 1]
        BY <2>1, <4>1
      <4> QED
        BY <3>2, <4>2
    <3> QED
      BY <3>1, <3>2
  <2> HIDE DEF h
  <2>3. j + 1 \in 0..n
    BY <1>0
  <2> QED
    BY <2>2, <2>3
<1>3. n \in G
  <2> HIDE DEF G
  <2>1. n \in 0..n
    BY <1>0
  <2> HIDE DEF n
  <2> QED
    BY <1>0, <1>1, <1>2, <2>1, UpTo
<1>4. PICK g : \A k \in 0..n : g[k] = Step(g, k)
  BY <1>3
<1> DEFINE T == [k \in 0..n |-> g[k]]
<1>5. ASSUME NEW k \in 0..n PROVE T[k] = Step(T, k)
  <2>1. k # 0 => k - 1 \in 0..n
    BY <1>0
  <2>2. k # 0 => T[k - 1] = g[k - 1]
    BY <2>1
  <2> HIDE DEF T
  <2>3. T[k] = g[k]
    BY DEF T
  <2> QED
    BY <1>4, <2>2, <2>3
<1>6. T = [k \in 0..n |-> T[k]]
  OBVIOUS
<1>7. Eqn(T)
  <2> HIDE DEF T
  <2> QED
    BY <1>5, <1>6
<1>8. Eqn(Deepening(m, a, v))
  <2> HIDE DEF T
  <2> QED
    BY <1>7 DEF Deepening, b
<1>9. 0 \in 0..(Levels - 1) /\ \A k \in 1..(Levels - 1) : k \in 0..(Levels - 1) /\ k # 0
  BY <1>0
<1> HIDE DEF T
<1> DEFINE W == Deepening(m, a, v)
<1>10. W[0] = b /\ \A k \in 1..(Levels - 1) : W[k] = Deepen(W[k - 1], Index(v, Levels - k))
  <2> HIDE DEF W
  <2>1. Eqn(W)
    BY <1>8 DEF W
  <2> QED
    BY <1>9, <2>1
<1> QED
  BY <1>10 DEF b, IsDeepening

\* From m with the frames from a in use to q with the frames from b in use, the
\* first k tables of the path of v were added where they were missing.
Grown(m, a, q, b, v, k) ==
    /\ Tree(q, b) /\ q.root # 0 /\ q.free = m.free /\ b >= a
    /\ \A x \in Page : \A l \in 0..Levels :
          Reach(m, x, l) # NoFrame => Reach(q, x, l) = Reach(m, x, l)
    /\ \A x \in Page : \A l \in 0..(Levels - 1) :
          Reach(m, x, l) = NoFrame /\ Reach(q, x, l) # NoFrame =>
              Reach(q, x, l) >= a /\ Same(x, v, l) /\ l <= k
    /\ \A x \in Page : Reach(q, x, Levels) = Reach(m, x, Levels)
    /\ \A f \in Frame :
          f < a /\ (\A x \in Page : \A l \in 0..(Levels - 1) : Reach(m, x, l) # f)
             => q.mem[f] = m.mem[f]
    /\ Reach(q, v, k) # NoFrame
    /\ Reach(m, v, k) = NoFrame => Reach(q, v, k) = b - 1

\* What new_phys_zero_page changes.
LEMMA ZeroPageEffect ==
  ASSUME NEW m \in Machine, NEW a \in Frame
  PROVE  LET r == ZeroPage(m, a)
         IN  /\ r.m \in Machine /\ r.used = a + 1 /\ r.page = a
             /\ r.m.root = m.root /\ r.m.free = m.free /\ r.m.win = m.win /\ r.m.panic = m.panic
             /\ r.m.mem[a] = ZeroFrame /\ (\A k \in Slots : r.m.mem[a][k] = 0)
             /\ \A f \in Frame \ {a} : r.m.mem[f] = m.mem[f]
<1>1. ZeroFrame \in [Slots -> Nat]
  BY DEF ZeroFrame, Slots
<1>2. \A k \in Slots : ZeroFrame[k] = 0
  BY DEF ZeroFrame, Slots
<1> QED
  BY <1>1, <1>2 DEF ZeroPage, Machine

\* A tree stays one when the memory in use grows.
LEMMA TreeGrows ==
  ASSUME NEW m, NEW a \in Nat, NEW b \in Nat, a <= b, Tree(m, a)
  PROVE  Tree(m, b)
<1>1. 1..(a - 1) \subseteq 1..(b - 1)
  OBVIOUS
<1> QED
  BY <1>1 DEF Tree

\* A frame at the end of the tables is cleared.
LEMMA ZeroPageTree ==
  ASSUME NEW m, NEW a \in Frame, Tree(m, a)
  PROVE  LET q == ZeroPage(m, a).m
         IN  /\ Tree(q, a) /\ Tree(q, a + 1)
             /\ \A x \in Page : \A l \in 0..Levels : Reach(q, x, l) = Reach(m, x, l)
<1> DEFINE q == ZeroPage(m, a).m
<1>1. m \in Machine
  BY DEF Tree
<1>2. q \in Machine /\ q.root = m.root /\ \A f \in Frame \ {a} : q.mem[f] = m.mem[f]
  BY <1>1, ZeroPageEffect
<1> HIDE DEF q
<1>3. a \in Nat /\ a <= Frames /\ a + 1 \in Nat /\ a <= a + 1
  BY PageTablesAssumption DEF Frame
<1>4. \A f \in Frame : f < a => q.mem[f] = m.mem[f]
  BY <1>2, <1>3
<1>5. Tree(q, a) /\ \A x \in Page : \A l \in 0..Levels : Reach(q, x, l) = Reach(m, x, l)
  BY <1>2, <1>3, <1>4, TreeKept
<1>6. Tree(q, a + 1)
  BY <1>3, <1>5, TreeGrows
<1> QED
  BY <1>5, <1>6 DEF q

\* The root is there after the first step.
LEMMA TopEffect ==
  ASSUME NEW m, NEW a \in Nat \ {0}, Tree(m, a), NEW v \in Page
  PROVE  LET c == Top(m, a)
         IN  /\ c = [m |-> c.m, used |-> c.used, table |-> c.table]
             /\ c.used \in Nat /\ c.used >= a
             /\ c.used <= Frames => Grown(m, a, c.m, c.used, v, 0) /\ c.table = Reach(c.m, v, 0)
<1> DEFINE c == Top(m, a)
<1>0. Levels \in Nat \ {0} /\ NoFrame \notin Frame /\ m \in Machine
  BY PageTablesAssumption, NoFrameIsNone DEF Tree
<1>1. CASE m.root # 0
  <2>1. c = [m |-> m, used |-> a, table |-> m.root]
    BY <1>1 DEF Top
  <2>2. Reach(m, v, 0) = m.root /\ m.root \in Frame
    BY <1>0, <1>1, WalkSteps DEF Reach, Machine
  <2>3. Grown(m, a, m, a, v, 0)
    BY <1>0, <1>1, <2>2 DEF Grown
  <2> QED
    BY <2>1, <2>2, <2>3
<1>2. CASE m.root = 0
  <2> DEFINE z == ZeroPage(m, a)
             q == [z.m EXCEPT !.root = a]
  <2>1. c = [m |-> q, used |-> a + 1, table |-> a]
    BY <1>2 DEF Top, ZeroPage
  <2>2. ASSUME a + 1 <= Frames PROVE Grown(m, a, q, a + 1, v, 0) /\ a = Reach(q, v, 0)
    <3>1. a \in Frame \ {0}
      BY <2>2, PageTablesAssumption DEF Frame
    <3>2. /\ z.m \in Machine /\ z.m.free = m.free
          /\ \A k \in Slots : z.m.mem[a][k] = 0
          /\ \A f \in Frame \ {a} : z.m.mem[f] = m.mem[f]
      BY <1>0, <3>1, ZeroPageEffect
    <3> HIDE DEF z
    <3>3. /\ q \in Machine /\ q.root = a /\ q.free = m.free
          /\ \A k \in Slots : q.mem[a][k] = 0
          /\ \A f \in Frame \ {a} : q.mem[f] = m.mem[f]
      BY <3>1, <3>2 DEF Machine
    <3> HIDE DEF q
    <3>4. \A x \in Page : \A l \in 0..Levels : Reach(q, x, l) = IF l = 0 THEN a ELSE NoFrame
      BY <3>1, <3>3, RootReach
    <3>5. \A x \in Page : \A l \in 0..Levels : Reach(m, x, l) = NoFrame
      BY <1>2 DEF Reach
    <3>6. Tree(q, a + 1)
      BY <3>1, <3>3, RootTree
    <3>7. \A x \in Page : \A l \in 0..(Levels - 1) :
            Reach(m, x, l) = NoFrame /\ Reach(q, x, l) # NoFrame =>
              Reach(q, x, l) >= a /\ Same(x, v, l) /\ l <= 0
      <4>1. \A l \in 0..(Levels - 1) : l \in 0..Levels
        BY <1>0
      <4> QED
        BY <1>0, <3>4, <4>1, SameNone
    <3>8. Levels \in 0..Levels /\ Levels # 0 /\ 0 \in 0..Levels /\ (a + 1) - 1 = a /\ a + 1 >= a
      BY <1>0
    <3>9. \A f \in Frame : f < a => q.mem[f] = m.mem[f]
      BY <3>3
    <3>10. Reach(q, v, 0) = a
      BY <3>4, <3>8
    <3>11. \A x \in Page : Reach(q, x, Levels) = Reach(m, x, Levels)
      BY <3>4, <3>5, <3>8
    <3>12. a # NoFrame /\ q.root # 0
      BY <1>0, <3>1, <3>3
    <3> QED
      BY <3>3, <3>5, <3>6, <3>7, <3>8, <3>9, <3>10, <3>11, <3>12 DEF Grown
  <2> QED
    BY <2>1, <2>2
<1> QED
  BY <1>1, <1>2

\* One step down: the table is there, and the other walks are as before.
LEMMA DeepenEffect ==
  ASSUME NEW m, NEW a \in Nat \ {0}, Tree(m, a), NEW v \in Page, NEW k \in 1..(Levels - 1),
         NEW p, NEW b \in Nat, NEW t, b <= Frames => Grown(m, a, p, b, v, k - 1),
         b <= Frames => t = Reach(p, v, k - 1), b >= a
  PROVE  LET d == Deepen([m |-> p, used |-> b, table |-> t], Index(v, Levels - k))
         IN  /\ d = [m |-> d.m, used |-> d.used, table |-> d.table]
             /\ d.used \in Nat /\ d.used >= b
             /\ d.used <= Frames => Grown(m, a, d.m, d.used, v, k) /\ d.table = Reach(d.m, v, k)
<1> DEFINE x0 == Index(v, Levels - k)
           c == [m |-> p, used |-> b, table |-> t]
           d == Deepen(c, x0)
           e == p.mem[t][x0]
           z == ZeroPage(p, b)
           q == [z.m EXCEPT !.mem[t][x0] = PageEntry(b, 1)]
<1>0. /\ Levels \in Nat \ {0} /\ NoFrame \notin Frame /\ k \in Nat
      /\ k - 1 \in 0..(Levels - 1) /\ k \in 0..(Levels - 1) /\ (k - 1) + 1 = k
      /\ Levels - 1 - (k - 1) = Levels - k
  BY PageTablesAssumption, NoFrameIsNone
<1>1. x0 \in Slots
  BY <1>0, IndexOf
<1>2. ASSUME b <= Frames
      PROVE  t \in Frame /\ t < b /\ t >= 1 /\ Reach(p, v, k) = Points(e)
  <2>1. Tree(p, b) /\ t # NoFrame /\ t = Reach(p, v, k - 1)
    BY <1>2 DEF Grown
  <2>2. t \in Frame /\ t < b
    BY <1>0, <1>2, <2>1, TreeReach
  <2>3. t \in 1..(b - 1)
    BY <1>0, <2>1 DEF Tree
  <2>4. Reach(p, v, k) = Points(e)
    BY <1>0, <2>1, <2>2, ReachNext
  <2> QED
    BY <2>2, <2>3, <2>4
<1>3. CASE HasP(e)
  <2>1. d = [m |-> p, used |-> b, table |-> Addr(e)]
    BY <1>3 DEF Deepen
  <2>2. ASSUME b <= Frames PROVE Grown(m, a, p, b, v, k) /\ Addr(e) = Reach(p, v, k)
    <3>1. Reach(p, v, k) = Addr(e)
      BY <1>2, <1>3, <2>2 DEF Points
    <3>2. Grown(m, a, p, b, v, k - 1)
      BY <2>2
    <3>3. e \in Nat
      <4>1. p \in Machine
        BY <3>2 DEF Grown, Tree
      <4> QED
        BY <1>1, <1>2, <2>2, <4>1 DEF Machine
    <3>4. Addr(e) # NoFrame
      <4>1. Addr(e) \in Nat
        BY <3>3, AddrType
      <4> QED
        BY <4>1 DEF NoFrame
    <3>5. Reach(m, v, k) # NoFrame
      <4>1. ~(k <= k - 1)
        BY <1>0
      <4> QED
        BY <1>0, <3>1, <3>2, <3>4, <4>1 DEF Grown
    <3>6. \A y \in Page : \A l \in 0..(Levels - 1) :
            Reach(m, y, l) = NoFrame /\ Reach(p, y, l) # NoFrame =>
              Reach(p, y, l) >= a /\ Same(y, v, l) /\ l <= k
      <4>1. \A l \in 0..(Levels - 1) : l <= k - 1 => l <= k
        BY <1>0
      <4> QED
        BY <3>2, <4>1 DEF Grown
    <3> QED
      BY <3>1, <3>2, <3>4, <3>5, <3>6 DEF Grown
  <2> QED
    BY <2>1, <2>2
<1>4. CASE ~HasP(e)
  <2>1. d = [m |-> q, used |-> b + 1, table |-> b]
    BY <1>4 DEF Deepen, ZeroPage
  <2>2. ASSUME b + 1 <= Frames PROVE Grown(m, a, q, b + 1, v, k) /\ b = Reach(q, v, k)
    <3>1. b \in Frame /\ b <= Frames /\ b # NoFrame
      BY <1>0, <2>2, PageTablesAssumption DEF Frame
    <3>2. Grown(m, a, p, b, v, k - 1) /\ t \in Frame /\ t < b /\ t = Reach(p, v, k - 1)
      BY <1>2, <3>1
    <3>3. Tree(p, b) /\ p \in Machine
      BY <3>2 DEF Grown, Tree
    <3>4. Reach(p, v, k) = NoFrame
      BY <1>2, <1>4, <3>1 DEF Points
    <3>5. /\ z.m \in Machine /\ z.m.root = p.root /\ z.m.free = p.free
          /\ \A j \in Slots : z.m.mem[b][j] = 0
          /\ \A f \in Frame \ {b} : z.m.mem[f] = p.mem[f]
      BY <3>1, <3>3, ZeroPageEffect
    <3>6. PageEntry(b, 1) \in Nat /\ t # b
      BY <3>2, EntryParts
    <3> HIDE DEF z
    <3>7. /\ q \in Machine /\ q.root = p.root /\ q.free = p.free
          /\ q.mem[t][x0] = PageEntry(b, 1)
          /\ \A j \in Slots \ {x0} : q.mem[t][j] = z.m.mem[t][j]
          /\ \A f \in Frame \ {t} : q.mem[f] = z.m.mem[f]
      BY <1>1, <3>2, <3>5, <3>6 DEF Machine
    <3> HIDE DEF q
    <3>8. Links(p, q, v, k, t, b)
      BY <3>1, <3>2, <3>5, <3>6, <3>7 DEF Links
    <3>9. b >= b
      OBVIOUS
    <3>10. \A y \in Page : \A l \in 0..Levels :
             Reach(q, y, l) = IF l = k /\ Same(y, v, k) THEN b ELSE Reach(p, y, l)
      BY <3>1, <3>2, <3>3, <3>4, <3>7, <3>8, <3>9, LinkReach
    <3>11. Tree(q, b + 1)
      BY <3>1, <3>2, <3>3, <3>4, <3>7, <3>8, <3>9, LinkTree
    <3>12. \A y \in Page : Same(y, v, k) => Reach(p, y, k) = NoFrame
      <4>1. k \in 0..k /\ k \in 0..Levels
        BY <1>0
      <4> QED
        BY <3>4, <4>1, SameReach
    <3>13. \A y \in Page : \A l \in 0..Levels :
             Reach(m, y, l) # NoFrame => Reach(q, y, l) = Reach(m, y, l)
      BY <3>2, <3>10, <3>12 DEF Grown
    <3>14. ASSUME NEW y \in Page, NEW l \in 0..(Levels - 1), Reach(m, y, l) = NoFrame,
                  Reach(q, y, l) # NoFrame
           PROVE  Reach(q, y, l) >= a /\ Same(y, v, l) /\ l <= k
      <4>0. l \in 0..Levels
        BY <1>0
      <4>1. CASE l = k /\ Same(y, v, k)
        BY <1>0, <3>10, <4>0, <4>1
      <4>2. CASE ~(l = k /\ Same(y, v, k))
        <5>1. Reach(q, y, l) = Reach(p, y, l)
          BY <3>10, <4>0, <4>2
        <5>2. Reach(p, y, l) >= a /\ Same(y, v, l) /\ l <= k - 1
          BY <3>2, <3>14, <5>1 DEF Grown
        <5>3. l <= k
          BY <1>0, <5>2
        <5> QED
          BY <5>1, <5>2, <5>3
      <4> QED
        BY <4>1, <4>2
    <3>15. \A y \in Page : Reach(q, y, Levels) = Reach(m, y, Levels)
      <4>1. Levels \in 0..Levels /\ Levels # k
        BY <1>0
      <4> QED
        BY <3>2, <3>10, <4>1 DEF Grown
    <3>16. ASSUME NEW f \in Frame, f < a,
                  \A y \in Page : \A l \in 0..(Levels - 1) : Reach(m, y, l) # f
           PROVE  q.mem[f] = m.mem[f]
      <4>1. f # b
        BY <3>1, <3>16 DEF Frame
      <4>2. f # t
        <5>1. CASE Reach(m, v, k - 1) = NoFrame
          <6>1. t >= a
            BY <1>0, <3>2, <5>1 DEF Grown
          <6> QED
            BY <3>2, <3>16, <6>1 DEF Frame
        <5>2. CASE Reach(m, v, k - 1) # NoFrame
          <6>1. k - 1 \in 0..Levels
            BY <1>0
          <6>2. t = Reach(m, v, k - 1)
            BY <3>2, <5>2, <6>1 DEF Grown
          <6> QED
            BY <1>0, <3>16, <6>2
        <5> QED
          BY <5>1, <5>2
      <4>3. p.mem[f] = m.mem[f]
        BY <3>2, <3>16 DEF Grown
      <4> QED
        BY <3>5, <3>7, <4>1, <4>2, <4>3
    <3>17. Same(v, v, k) /\ k \in 0..Levels
      BY <1>0 DEF Same
    <3>18. Reach(q, v, k) = b
      BY <3>10, <3>17
    <3>19. q.root # 0 /\ q.free = m.free
      BY <3>2, <3>7 DEF Grown
    <3>20. b + 1 >= a /\ (b + 1) - 1 = b
      OBVIOUS
    <3> QED
      BY <3>1, <3>11, <3>13, <3>14, <3>15, <3>16, <3>18, <3>19, <3>20 DEF Grown
  <2> QED
    BY <2>1, <2>2
<1> QED
  BY <1>3, <1>4

\* The whole way down.
LEMMA DeepeningEffect ==
  ASSUME NEW m, NEW a \in Nat \ {0}, Tree(m, a), NEW v \in Page
  PROVE  LET c == Deepening(m, a, v)[Levels - 1]
         IN  /\ c.used \in Nat /\ c.used >= a
             /\ c.used <= Frames => /\ Grown(m, a, c.m, c.used, v, Levels - 1)
                                    /\ c.table = Reach(c.m, v, Levels - 1)
<1> DEFINE T == Deepening(m, a, v)
           Good(c, k) ==
             /\ c = [m |-> c.m, used |-> c.used, table |-> c.table]
             /\ c.used \in Nat /\ c.used >= a
             /\ c.used <= Frames => Grown(m, a, c.m, c.used, v, k) /\ c.table = Reach(c.m, v, k)
           G == {k \in 0..(Levels - 1) : Good(T[k], k)}
<1>0. Levels \in Nat \ {0} /\ Levels - 1 \in Nat /\ Levels - 1 \in 0..(Levels - 1)
  BY PageTablesAssumption
<1>1. T[0] = Top(m, a) /\ \A k \in 1..(Levels - 1) : T[k] = Deepen(T[k - 1], Index(v, Levels - k))
  BY DeepeningSteps DEF IsDeepening
<1> HIDE DEF T
<1>2. 0 \in G
  BY <1>0, <1>1, TopEffect
<1>3. ASSUME NEW k \in 0..((Levels - 1) - 1), k \in G PROVE k + 1 \in G
  <2>1. k + 1 \in 1..(Levels - 1) /\ (k + 1) - 1 = k /\ k + 1 \in 0..(Levels - 1)
    BY <1>0
  <2>2. PICK p, b, t : p = T[k].m /\ b = T[k].used /\ t = T[k].table
    OBVIOUS
  <2>3. /\ T[k] = [m |-> p, used |-> b, table |-> t] /\ b \in Nat /\ b >= a
        /\ b <= Frames => Grown(m, a, p, b, v, k) /\ t = Reach(p, v, k)
    BY <1>3, <2>2
  <2> DEFINE d == Deepen([m |-> p, used |-> b, table |-> t], Index(v, Levels - (k + 1)))
  <2>4. T[k + 1] = d
    BY <1>1, <2>1, <2>3
  <2>5. /\ d = [m |-> d.m, used |-> d.used, table |-> d.table] /\ d.used \in Nat /\ d.used >= b
        /\ d.used <= Frames => Grown(m, a, d.m, d.used, v, k + 1) /\ d.table = Reach(d.m, v, k + 1)
    BY <2>1, <2>3, DeepenEffect
  <2> HIDE DEF d
  <2>6. Good(d, k + 1)
    BY <2>3, <2>5
  <2> QED
    BY <2>1, <2>4, <2>6
<1>4. \A k \in 0..(Levels - 1) : k \in G
  <2> HIDE DEF G
  <2> QED
    BY <1>0, <1>2, <1>3, UpTo
<1>5. Good(T[Levels - 1], Levels - 1)
  BY <1>0, <1>4
<1> QED
  BY <1>5 DEF T

\* What map_page of the loader does, from m with the frames from a to q with the
\* frames from b: page v is mapped to frame g, and the tables that were missing are new.
LoaderMaps(m, a, q, b, v, g) ==
    /\ Tree(q, b) /\ q.root # 0 /\ q.free = m.free
    /\ Reach(q, v, Levels) = g
    /\ \A x \in Page \ {v} : Reach(q, x, Levels) = Reach(m, x, Levels)
    /\ \A x \in Page : \A l \in 0..(Levels - 1) :
          Reach(m, x, l) # NoFrame => Reach(q, x, l) = Reach(m, x, l)
    /\ \A x \in Page : \A l \in 0..(Levels - 1) :
          Reach(m, x, l) = NoFrame /\ Reach(q, x, l) # NoFrame
             => Reach(q, x, l) >= a /\ Same(x, v, l)
    /\ \A f \in Frame :
          f < a /\ (\A x \in Page : \A l \in 0..(Levels - 1) : Reach(m, x, l) # f)
             => q.mem[f] = m.mem[f]
    /\ Reach(q, v, Levels - 1) # NoFrame
    /\ Reach(m, v, Levels - 1) = NoFrame => Reach(q, v, Levels - 1) = b - 1

\* What the loader's map_page does, for any page and any number of levels.
LEMMA LoaderMapEffect ==
  ASSUME NEW m, NEW a \in Nat \ {0}, Tree(m, a), NEW v \in Page, NEW g \in Nat
  PROVE  LET r == LoaderMap(m, a, v, g)
         IN  /\ r.used \in Nat /\ r.used >= a
             /\ r.used <= Frames => LoaderMaps(m, a, r.m, r.used, v, g)
<1>1. PICK c : c = Deepening(m, a, v)[Levels - 1]
  OBVIOUS
<1>2. PICK p, b, t : p = c.m /\ b = c.used /\ t = c.table
  OBVIOUS
<1> DEFINE q == [p EXCEPT !.mem[t][Index(v, 0)] = PageEntry(g, 1)]
<1>3. LoaderMap(m, a, v, g) = [m |-> q, used |-> b]
  BY <1>1, <1>2 DEF LoaderMap
<1>4. /\ b \in Nat /\ b >= a
      /\ b <= Frames => Grown(m, a, p, b, v, Levels - 1) /\ t = Reach(p, v, Levels - 1)
  BY <1>1, <1>2, DeepeningEffect
<1>5. ASSUME b <= Frames PROVE LoaderMaps(m, a, q, b, v, g)
  <2>0. /\ Levels \in Nat \ {0} /\ NoFrame \notin Frame /\ Levels - 1 \in 0..(Levels - 1)
        /\ Index(v, 0) \in Slots /\ \A l \in 0..(Levels - 1) : l \in 0..Levels
    BY PageTablesAssumption, NoFrameIsNone, IndexType DEF Slots
  <2>1. Grown(m, a, p, b, v, Levels - 1) /\ t = Reach(p, v, Levels - 1)
    BY <1>4, <1>5
  <2>2. Tree(p, b) /\ p \in Machine /\ t # NoFrame
    BY <2>1 DEF Grown, Tree
  <2>3. t \in Frame /\ t < b
    BY <1>4, <1>5, <2>0, <2>1, <2>2, TreeReach
  <2>4. PageEntry(g, 1) \in Nat /\ ~HasF(PageEntry(g, 1)) /\ Points(PageEntry(g, 1)) = g
    BY PointsParts
  <2>5. /\ q \in Machine /\ q.root = p.root /\ q.free = p.free
        /\ q.mem[t][Index(v, 0)] = PageEntry(g, 1)
        /\ \A k \in Slots \ {Index(v, 0)} : q.mem[t][k] = p.mem[t][k]
        /\ \A f \in Frame \ {t} : q.mem[f] = p.mem[f]
    BY <2>0, <2>2, <2>3, <2>4 DEF Machine
  <2> HIDE DEF q
  <2>6. /\ \A f \in Frame : f < b /\ f # t => q.mem[f] = p.mem[f]
        /\ ~HasF(q.mem[t][Index(v, 0)])
    BY <2>4, <2>5
  <2>7. /\ \A x \in Page : \A k \in 0..(Levels - 1) : Reach(q, x, k) = Reach(p, x, k)
        /\ \A x \in Page \ {v} : Reach(q, x, Levels) = Reach(p, x, Levels)
        /\ Reach(q, v, Levels) = Points(q.mem[t][Index(v, 0)])
    BY <1>4, <1>5, <2>1, <2>2, <2>3, <2>5, <2>6, LeafReach
  <2>8. Tree(q, b)
    BY <1>4, <1>5, <2>1, <2>2, <2>3, <2>5, <2>6, LeafTree
  <2>9. Reach(q, v, Levels) = g /\ \A x \in Page \ {v} : Reach(q, x, Levels) = Reach(m, x, Levels)
    BY <2>1, <2>4, <2>5, <2>7 DEF Grown
  <2>10. \A x \in Page : \A l \in 0..(Levels - 1) :
           Reach(m, x, l) # NoFrame => Reach(q, x, l) = Reach(m, x, l)
    BY <2>0, <2>1, <2>7 DEF Grown
  <2>11. \A x \in Page : \A l \in 0..(Levels - 1) :
           Reach(m, x, l) = NoFrame /\ Reach(q, x, l) # NoFrame
             => Reach(q, x, l) >= a /\ Same(x, v, l)
    BY <2>1, <2>7 DEF Grown
  <2>12. ASSUME NEW f \in Frame, f < a,
                \A x \in Page : \A l \in 0..(Levels - 1) : Reach(m, x, l) # f
         PROVE  q.mem[f] = m.mem[f]
    <3>1. f # t
      <4>1. CASE Reach(m, v, Levels - 1) = NoFrame
        <5>1. t >= a
          BY <2>0, <2>1, <2>2, <4>1 DEF Grown
        <5> QED
          BY <2>3, <2>12, <5>1 DEF Frame
      <4>2. CASE Reach(m, v, Levels - 1) # NoFrame
        <5>1. t = Reach(m, v, Levels - 1)
          BY <2>0, <2>1, <4>2 DEF Grown
        <5> QED
          BY <2>0, <2>12, <5>1
      <4> QED
        BY <4>1, <4>2
    <3>2. p.mem[f] = m.mem[f]
      BY <2>1, <2>12 DEF Grown
    <3> QED
      BY <2>5, <3>1, <3>2
  <2>13. /\ Reach(q, v, Levels - 1) # NoFrame
         /\ Reach(m, v, Levels - 1) = NoFrame => Reach(q, v, Levels - 1) = b - 1
    BY <2>0, <2>1, <2>7 DEF Grown
  <2>14. q.root # 0 /\ q.free = m.free
    BY <2>1, <2>5 DEF Grown
  <2> QED
    BY <2>8, <2>9, <2>10, <2>11, <2>12, <2>13, <2>14 DEF LoaderMaps
<1> QED
  BY <1>3, <1>4, <1>5

-----------------------------------------------------------------------------
(***************************************************************************)
(* The address space: the invariant                                        *)
(***************************************************************************)

\* Frame f is no table.
NotTable(m, f) == \A x \in Page : \A l \in 0..(Levels - 1) : Reach(m, x, l) # f

\* The pages of the image before page n of segment s.
Loaded(t, s, n) == {p \in PagesOf(t) : p[1] < s \/ (p[1] = s /\ p[2] < n)}
\* Page p of the image is in the file, in this frame, which ends in the page.
FromFile(t, p) == 2 * p[2] < t.segments[p[1]].filesz
FileFrame(t, p) == t.start + t.segments[p[1]].offset + p[2]
Ends(t, p) == t.segments[p[1]].filesz < (2 * p[2]) + 2
\* The addresses of the pages S of the image.
ImageSet(t, S) == {VirtOf(t, p) : p \in S}

\* The pages S of the image are loaded.
ImageAt(m, u, t, cl, S) ==
    \A p \in S :
      LET f == Reach(m, VirtOf(t, p), Levels)
      IN  IF FromFile(t, p)
            THEN f = FileFrame(t, p) /\ (Ends(t, p) => (2 * FileFrame(t, p)) + 1 \in cl)
            ELSE /\ f \in t.end..(u - 1) /\ NotTable(m, f) /\ m.mem[f] = ZeroFrame
                 /\ \A q \in S : q # p => Reach(m, VirtOf(t, q), Levels) # f

\* Only memory in use is mapped.
Low(m, u) == \A v \in Page : Reach(m, v, Levels) \in {NoFrame} \cup 0..(u - 1)

\* Only the pages X are mapped.
Only(m, X) == \A v \in Page \ X : Reach(m, v, Levels) = NoFrame

\* The memory in use from lo on is mapped to itself.
Identity(m, lo, u) ==
    \A v \in 0..(u - 1) : Reach(m, v, Levels) = IF v < lo THEN NoFrame ELSE v

\* What holds from the first page of the image on until the loader is done.
LoadInv(m, u, t, cl, S) == Tree(m, u) /\ m.free = 0 /\ Low(m, u) /\ ImageAt(m, u, t, cl, S)

\* While the image is loaded there is nothing else, and no table for the special pages.
Loading(m, u, t, cl, S) ==
    /\ LoadInv(m, u, t, cl, S)
    /\ Only(m, ImageSet(t, S))
    /\ Reach(m, WindowPage, Levels - 1) = NoFrame

\* Page v has a usable frame of its own.
Anon(m, u, U, v) ==
    /\ Reach(m, v, Levels) \in U /\ Reach(m, v, Levels) >= u
    /\ \A x \in Page : Reach(m, x, Levels) = Reach(m, v, Levels) => x = v

\* The frame of a page that is mapped to a given one.
FixedAt(v) == IF v = ApicPage THEN ApicFrame ELSE v - FirstMbPage
\* The first n pages of the first megabyte, but for the one of address 0.
FirstMbUp(n) == {FirstMbPage + k : k \in 1..(n - 1)}

\* The kernel's address space, with the pages A in frames of their own and the
\* pages P in given ones; U is the usable memory.
KernelBase(m, u, t, cl, U, A, P) ==
    /\ Tree(m, u) /\ m.root # 0 /\ HasFreeList(m)
    /\ Reach(m, WindowPage, Levels - 1) # NoFrame
    /\ \A f \in FreeFrames(m) : f >= u /\ f \in U
    /\ \A v \in Page : Reach(m, v, Levels) \notin FreeFrames(m)
    /\ ImageAt(m, u, t, cl, PagesOf(t))
    /\ \A v \in A : Anon(m, u, U, v)
    /\ \A v \in P : Reach(m, v, Levels) = FixedAt(v)

\* The identity mapping is left from lo on, and nothing else is mapped.
KernelInv(m, u, t, cl, U, lo, A, P) ==
    /\ KernelBase(m, u, t, cl, U, A, P)
    /\ Identity(m, lo, u)
    /\ Only(m, 0..(u - 1) \cup {WindowPage, WindowPt} \cup ImageSet(t, PagesOf(t)) \cup A \cup P)

\* The usable memory in front of entry sg of tag tg.
Before(m, tg, sg) ==
    UNION {EntryFrames(m, e) :
             e \in {d \in UsableEntries(m) : d[1] < tg \/ (d[1] = tg /\ d[2] < sg)}}

\* _phys_window_pt is mapped to the table of the window.
OwnTable(m) == Reach(m, WindowPt, Levels) = Reach(m, WindowPage, Levels - 1)

\* The usable memory of machine w.
UsableOf(w) == UNION {EntryFrames(w, e) : e \in UsableEntries(w)}

\* The stages after the image is loaded, as what is mapped in each of them.
AtWindowPt(m, u, t, cl) ==
    /\ LoadInv(m, u, t, cl, PagesOf(t))
    /\ Only(m, {WindowPage} \cup ImageSet(t, PagesOf(t)))
    /\ Reach(m, WindowPage, Levels - 1) = u - 1

AtIdentity(m, u, t, cl, n) ==
    /\ LoadInv(m, u, t, cl, PagesOf(t))
    /\ Only(m, 0..(n - 1) \cup {WindowPage, WindowPt} \cup ImageSet(t, PagesOf(t)))
    /\ Reach(m, WindowPage, Levels - 1) # NoFrame
    /\ m.root # 0 /\ OwnTable(m) /\ Identity(m, 0, n)
    /\ n <= u

AtEarly(m, u, t, cl, w, tg, sg) ==
    /\ KernelInv(m, u, t, cl, UsableOf(w), 0, {}, {})
    /\ Low(m, u) /\ OwnTable(m)
    /\ FreeFrames(m) \subseteq Before(w, tg, sg)

\* The pages with frames of their own after n pages of the first megabyte.
AnonUp(n) == {StackPage} \cup (IF n = 0 THEN {} ELSE {FirstMbPage})

AtFirstMb(m, u, t, cl, w, n) ==
    KernelInv(m, u, t, cl, UsableOf(w), 0, AnonUp(n), FirstMbUp(n)) /\ n <= FirstMb

AtUnmap(m, u, t, cl, w, n) ==
    KernelInv(m, u, t, cl, UsableOf(w), n, AnonUp(1), FirstMbUp(FirstMb)) /\ n <= u

AtDevices(m, u, t, cl, w) ==
    \E B \in SUBSET TablePages :
       KernelInv(m, u, t, cl, UsableOf(w), u, AnonUp(1) \cup B, FirstMbUp(FirstMb))

AtRunning(m, u, t, cl, w) ==
    KernelInv(m, u, t, cl, UsableOf(w), u, AnonUp(1) \cup TablePages,
              FirstMbUp(FirstMb) \cup {ApicPage})

\* The address space in every stage.
StageInv ==
    /\ stage \in {"check", "tags"} =>
          mach \in Machine /\ mach.root = 0 /\ mach.free = 0 /\ seg = 1 /\ i = 0
    /\ stage \notin {"check", "tags", "panic", "tables"} =>
          KernelSound(kernel) /\ kernel.end <= used
    /\ stage = "load" => Loading(mach, used, kernel, cleared, Loaded(kernel, seg, i))
    /\ stage = "window" => Loading(mach, used, kernel, cleared, PagesOf(kernel))
    /\ stage = "window_pt" => AtWindowPt(mach, used, kernel, cleared)
    /\ stage = "identity" => AtIdentity(mach, used, kernel, cleared, i)
    /\ stage = "early" => AtEarly(mach, used, kernel, cleared, in, tag, seg) /\ i = 0
    /\ stage = "first_mb" => AtFirstMb(mach, used, kernel, cleared, in, i)
    /\ stage = "unmap" => AtUnmap(mach, used, kernel, cleared, in, i)
    /\ stage = "devices" => AtDevices(mach, used, kernel, cleared, in)
    /\ stage = "running" => AtRunning(mach, used, kernel, cleared, in)

-----------------------------------------------------------------------------
(***************************************************************************)
(* What map_page does to it                                                *)
(***************************************************************************)

\* SameTable in terms of Same.
LEMMA SameTableIs == \A u, v : SameTable(u, v) <=> Same(u, v, Levels - 1)
<1>1. Levels - (Levels - 1) = 1
  BY PageTablesAssumption
<1> QED
  BY <1>1 DEF SameTable, Same

\* A special page is above the memory, in the table of the window.
LEMMA SpecialPage ==
  ASSUME NEW v \in SpecialPages
  PROVE  v \in Page /\ v >= Frames /\ Same(v, WindowPage, Levels - 1)
<1>1. v \in Page
  BY BootAssumption DEF SpecialPages, FirstMbPages
<1>2. v >= Frames /\ SameTable(v, WindowPage)
  BY LinkerAssumption
<1> QED
  BY <1>1, <1>2, SameTableIs

\* A page of the image is above the memory, in another table.
LEMMA ImagePage ==
  ASSUME NEW t, KernelSound(t), NEW p \in PagesOf(t)
  PROVE  /\ p[1] \in 1..Len(t.segments) /\ p[2] \in Nat
         /\ VirtOf(t, p) \in Page /\ VirtOf(t, p) >= Frames
         /\ ~Same(VirtOf(t, p), WindowPage, Levels - 1)
         /\ VirtOf(t, p) \notin SpecialPages
         /\ FromFile(t, p) => FileFrame(t, p) \in Nat /\ FileFrame(t, p) < t.end
         /\ t.end \in Nat
<1>0. Frames \in Nat /\ Span[Levels] \in Nat
  BY PageTablesAssumption, SpanDef
<1>1. PICK s : s = t.segments[p[1]]
  OBVIOUS
<1>2. /\ p[1] \in 1..Len(t.segments) /\ p[2] \in Page /\ p[2] \in Nat
      /\ s.load /\ 2 * p[2] < s.memsz
  BY <1>0, <1>1 DEF PagesOf, Page
<1>3. /\ s.vaddr \in Nat /\ s.offset \in Nat /\ s.filesz \in Nat /\ s.memsz \in Nat
      /\ Frames <= s.vaddr /\ 2 * s.vaddr + s.memsz <= 2 * Span[Levels]
      /\ 2 * (t.start + s.offset) + s.filesz <= 2 * t.end
      /\ t.start \in Nat /\ t.end \in Nat
  BY <1>1, <1>2 DEF KernelSound
<1>4. VirtOf(t, p) = s.vaddr + p[2] /\ (FromFile(t, p) <=> 2 * p[2] < s.filesz)
      /\ FileFrame(t, p) = t.start + s.offset + p[2]
  BY <1>1 DEF VirtOf, FromFile, FileFrame
<1>5. PICK x : x = p[2]
  OBVIOUS
<1>6. s.vaddr + x \in 0..(Span[Levels] - 1) /\ s.vaddr + x >= Frames
  <2>1. \A y, z, w, n, k \in Nat :
          n <= y /\ 2 * y + z <= 2 * w /\ 2 * k < z => y + k \in 0..(w - 1) /\ y + k >= n
    OBVIOUS
  <2>2. x \in Nat /\ 2 * x < s.memsz
    BY <1>2, <1>5
  <2> QED
    BY <1>0, <1>3, <2>1, <2>2
<1>7. 2 * x < s.filesz => t.start + s.offset + x \in Nat /\ t.start + s.offset + x < t.end
  <2>1. \A y, z, w, n, k \in Nat :
          2 * (y + z) + n <= 2 * w /\ 2 * k < n => y + z + k \in Nat /\ y + z + k < w
    OBVIOUS
  <2>2. x \in Nat
    BY <1>2, <1>5
  <2> QED
    BY <1>3, <2>1, <2>2
<1>8. ~Same(VirtOf(t, p), WindowPage, Levels - 1)
  BY SameTableIs DEF KernelSound
<1>9. VirtOf(t, p) \notin SpecialPages
  BY <1>8, SpecialPage
<1> QED
  BY <1>2, <1>3, <1>4, <1>5, <1>6, <1>7, <1>8, <1>9 DEF Page

\* The image stays where it is.
LEMMA ImageKeeps ==
  ASSUME NEW m, NEW q, NEW a \in Nat, NEW b \in Nat, a <= b, b <= Frames, NEW t, KernelSound(t),
         NEW cl, NEW c2, cl \subseteq c2, NEW S, S \subseteq PagesOf(t), ImageAt(m, a, t, cl, S),
         \A p \in S : Reach(q, VirtOf(t, p), Levels) = Reach(m, VirtOf(t, p), Levels),
         \A f \in Frame : f < a /\ NotTable(m, f) => NotTable(q, f) /\ q.mem[f] = m.mem[f]
  PROVE  ImageAt(q, b, t, c2, S)
<1> SUFFICES ASSUME NEW p \in S
             PROVE  LET f == Reach(q, VirtOf(t, p), Levels)
                    IN  IF FromFile(t, p)
                          THEN f = FileFrame(t, p)
                               /\ (Ends(t, p) => (2 * FileFrame(t, p)) + 1 \in c2)
                          ELSE /\ f \in t.end..(b - 1) /\ NotTable(q, f) /\ q.mem[f] = ZeroFrame
                               /\ \A r \in S : r # p => Reach(q, VirtOf(t, r), Levels) # f
  BY DEF ImageAt
<1>1. PICK f : f = Reach(m, VirtOf(t, p), Levels)
  OBVIOUS
<1>2. Reach(q, VirtOf(t, p), Levels) = f
  BY <1>1
<1>3. CASE FromFile(t, p)
  BY <1>1, <1>2, <1>3 DEF ImageAt
<1>4. CASE ~FromFile(t, p)
  <2>1. /\ f \in t.end..(a - 1) /\ NotTable(m, f) /\ m.mem[f] = ZeroFrame
        /\ \A r \in S : r # p => Reach(m, VirtOf(t, r), Levels) # f
    BY <1>1, <1>4 DEF ImageAt
  <2>2. t.end \in Nat
    BY DEF KernelSound
  <2>3. f \in Frame /\ f < a /\ f \in t.end..(b - 1)
    BY <2>1, <2>2, PageTablesAssumption DEF Frame
  <2>4. NotTable(q, f) /\ q.mem[f] = ZeroFrame
    BY <2>1, <2>3
  <2> QED
    BY <1>2, <1>4, <2>1, <2>3, <2>4
<1> QED
  BY <1>3, <1>4

\* The loader's map_page keeps what was loaded.
LEMMA LoadKeeps ==
  ASSUME NEW m, NEW q, NEW a \in Nat \ {0}, NEW b \in Nat, a <= b, b <= Frames,
         NEW t, KernelSound(t), NEW cl, NEW c2, cl \subseteq c2,
         NEW S, S \subseteq PagesOf(t), LoadInv(m, a, t, cl, S),
         NEW v \in Page, v \notin ImageSet(t, S), NEW g \in 0..(b - 1),
         LoaderMaps(m, a, q, b, v, g)
  PROVE  LoadInv(q, b, t, c2, S)
<1>1. Tree(q, b) /\ q.free = 0
  BY DEF LoaderMaps, LoadInv
<1>2. Low(q, b)
  <2>1. \A x \in Page : Reach(m, x, Levels) \in {NoFrame} \cup 0..(b - 1)
    BY DEF LoadInv, Low
  <2> QED
    BY <2>1 DEF LoaderMaps, Low
<1>3. \A p \in S : Reach(q, VirtOf(t, p), Levels) = Reach(m, VirtOf(t, p), Levels)
  BY ImagePage DEF LoaderMaps, ImageSet
<1>4. ASSUME NEW f \in Frame, f < a, NotTable(m, f)
      PROVE  NotTable(q, f) /\ q.mem[f] = m.mem[f]
  <2>1. q.mem[f] = m.mem[f]
    BY <1>4 DEF LoaderMaps, NotTable
  <2>2. f \in Nat /\ f # NoFrame
    BY NoFrameIsNone DEF Frame
  <2>3. ASSUME NEW x \in Page, NEW l \in 0..(Levels - 1) PROVE Reach(q, x, l) # f
    <3>1. CASE Reach(m, x, l) = NoFrame
      <4>1. Reach(q, x, l) # NoFrame => Reach(q, x, l) >= a
        BY <3>1 DEF LoaderMaps
      <4> QED
        BY <1>4, <2>2, <4>1
    <3>2. CASE Reach(m, x, l) # NoFrame
      <4>1. Reach(q, x, l) = Reach(m, x, l)
        BY <3>2 DEF LoaderMaps
      <4> QED
        BY <1>4, <4>1 DEF NotTable
    <3> QED
      BY <3>1, <3>2
  <2> QED
    BY <2>1, <2>3 DEF NotTable
<1>5. ImageAt(m, a, t, cl, S)
  BY DEF LoadInv
<1>6. ImageAt(q, b, t, c2, S)
  BY <1>3, <1>4, <1>5, ImageKeeps, ZenonT(30)
<1> QED
  BY <1>1, <1>2, <1>6 DEF LoadInv

\* map_page of the loader maps no other page.
LEMMA OnlyMore ==
  ASSUME NEW m, NEW q, NEW a, NEW b, NEW v, NEW g, NEW X, Only(m, X), LoaderMaps(m, a, q, b, v, g)
  PROVE  Only(q, X \cup {v})
  BY DEF Only, LoaderMaps

\* A page from the file.
LEMMA AddFilePage ==
  ASSUME NEW m, NEW a, NEW t, KernelSound(t), NEW cl, NEW S, S \subseteq PagesOf(t),
         ImageAt(m, a, t, cl, S), NEW p \in PagesOf(t), FromFile(t, p),
         Reach(m, VirtOf(t, p), Levels) = FileFrame(t, p),
         Ends(t, p) => (2 * FileFrame(t, p)) + 1 \in cl
  PROVE  ImageAt(m, a, t, cl, S \cup {p})
<1>1. FileFrame(t, p) \in Nat /\ FileFrame(t, p) < t.end /\ t.end \in Nat
  BY ImagePage
<1>2. ASSUME NEW r \in S, ~FromFile(t, r) PROVE Reach(m, VirtOf(t, r), Levels) # FileFrame(t, p)
  <2>1. Reach(m, VirtOf(t, r), Levels) \in t.end..(a - 1)
    BY <1>2 DEF ImageAt
  <2> QED
    BY <1>1, <2>1
<1> QED
  BY <1>2 DEF ImageAt

\* A new page.
LEMMA AddZeroPage ==
  ASSUME NEW m, NEW a, NEW t, NEW cl, NEW S, ImageAt(m, a, t, cl, S), NEW p, ~FromFile(t, p),
         NEW z, z = Reach(m, VirtOf(t, p), Levels), z \in t.end..(a - 1), NotTable(m, z),
         m.mem[z] = ZeroFrame, \A r \in S : Reach(m, VirtOf(t, r), Levels) # z
  PROVE  ImageAt(m, a, t, cl, S \cup {p})
  BY DEF ImageAt

\* load_kernel goes through the pages one by one.
LEMMA LoadedSteps ==
  ASSUME NEW t, KernelSound(t), NEW s \in Nat \ {0}, NEW n \in Nat
  PROVE  /\ Loaded(t, 1, 0) = {}
         /\ Loaded(t, s, n) \subseteq PagesOf(t)
         /\ s > Len(t.segments) => Loaded(t, s, n) = PagesOf(t)
         /\ s <= Len(t.segments) /\ t.segments[s].load /\ 2 * n < t.segments[s].memsz =>
               /\ <<s, n>> \in PagesOf(t) \ Loaded(t, s, n)
               /\ Loaded(t, s, n + 1) = Loaded(t, s, n) \cup {<<s, n>>}
         /\ s <= Len(t.segments) /\ (~t.segments[s].load \/ 2 * n >= t.segments[s].memsz) =>
               Loaded(t, s + 1, 0) = Loaded(t, s, n)
<1>0. Len(t.segments) \in Nat /\ Span[Levels] \in Nat
  BY SpanDef, PageTablesAssumption DEF KernelSound
<1>1. \A p \in PagesOf(t) : p[1] \in 1..Len(t.segments) /\ p[2] \in Nat
  BY ImagePage
<1>2. Loaded(t, 1, 0) = {}
  BY <1>0, <1>1 DEF Loaded
<1>3. s > Len(t.segments) => Loaded(t, s, n) = PagesOf(t)
  BY <1>0, <1>1 DEF Loaded
<1>4. ASSUME s <= Len(t.segments), t.segments[s].load, 2 * n < t.segments[s].memsz
      PROVE  /\ <<s, n>> \in PagesOf(t) \ Loaded(t, s, n)
             /\ Loaded(t, s, n + 1) = Loaded(t, s, n) \cup {<<s, n>>}
  <2>1. s \in 1..Len(t.segments)
    BY <1>0, <1>4
  <2>2. n \in Page
    <3>1. PICK w : w = t.segments[s]
      OBVIOUS
    <3>2. w.vaddr \in Nat /\ w.memsz \in Nat /\ 2 * w.vaddr + w.memsz <= 2 * Span[Levels]
      BY <1>4, <2>1, <3>1 DEF KernelSound
    <3> QED
      BY <1>0, <1>4, <3>1, <3>2, SMTT(30) DEF Page
  <2>3. <<s, n>> \in PagesOf(t)
    BY <1>4, <2>1, <2>2 DEF PagesOf
  <2>4. <<s, n>> \notin Loaded(t, s, n)
    BY DEF Loaded
  <2>5. \A p \in PagesOf(t) : p[1] = s /\ p[2] = n => p = <<s, n>>
    BY DEF PagesOf
  <2>6. \A p \in PagesOf(t) : p[2] < n + 1 <=> p[2] < n \/ p[2] = n
    BY <1>1
  <2>7. Loaded(t, s, n + 1) = Loaded(t, s, n) \cup {<<s, n>>}
    BY <2>3, <2>5, <2>6 DEF Loaded
  <2> QED
    BY <2>3, <2>4, <2>7
<1>5. ASSUME s <= Len(t.segments), ~t.segments[s].load \/ 2 * n >= t.segments[s].memsz
      PROVE  Loaded(t, s + 1, 0) = Loaded(t, s, n)
  <2>1. ASSUME NEW p \in PagesOf(t), p[1] = s PROVE p[2] < n
    <3>1. t.segments[s].load /\ 2 * p[2] < t.segments[s].memsz
      BY <2>1 DEF PagesOf
    <3>2. t.segments[s].memsz \in Nat
      BY <1>1, <2>1, <3>1 DEF KernelSound
    <3> QED
      BY <1>1, <1>5, <3>1, <3>2
  <2>2. \A p \in PagesOf(t) : (p[1] < s + 1 <=> p[1] < s \/ p[1] = s) /\ ~(p[2] < 0)
    BY <1>1
  <2> QED
    BY <2>1, <2>2 DEF Loaded
<1>6. Loaded(t, s, n) \subseteq PagesOf(t)
  BY DEF Loaded
<1> QED
  BY <1>2, <1>3, <1>4, <1>5, <1>6

\* What every call of the kernel's map_page keeps.
LEMMA KernelCommon ==
  ASSUME NEW m, NEW u \in Nat \ {0}, u <= Frames, NEW t, KernelSound(t), NEW cl, NEW U, U \subseteq Nat,
         NEW A, NEW P, KernelBase(m, u, t, cl, U, A, P), A \subseteq Page, P \subseteq Page,
         NEW v \in Page, v \notin ImageSet(t, PagesOf(t)) \cup P,
         NEW q, NEW g, KernelMaps(m, u, q, v, g),
         g \in FreeFrames(m) \/ g \notin U \/ g < u
  PROVE  KernelBase(q, u, t, cl, U, A \ {v}, P)
<1>0. WindowPage \in Page /\ Levels - 1 \in 0..(Levels - 1)
  BY BootAssumption, PageTablesAssumption
<1>1. /\ Tree(q, u) /\ q.root # 0 /\ HasFreeList(q)
      /\ Reach(q, WindowPage, Levels - 1) # NoFrame
  BY <1>0 DEF KernelMaps, KernelBase
<1>2. \A f \in FreeFrames(q) : f >= u /\ f \in U
  BY DEF KernelMaps, KernelBase
<1>3. \A x \in Page : Reach(q, x, Levels) \notin FreeFrames(q)
  BY DEF KernelMaps, KernelBase
<1>4. ImageAt(q, u, t, cl, PagesOf(t))
  <2>1. \A p \in PagesOf(t) : Reach(q, VirtOf(t, p), Levels) = Reach(m, VirtOf(t, p), Levels)
    BY ImagePage DEF KernelMaps, ImageSet
  <2>2. \A f \in Frame : f < u /\ NotTable(m, f) => NotTable(q, f) /\ q.mem[f] = m.mem[f]
    BY DEF KernelMaps, NotTable
  <2>3. ImageAt(m, u, t, cl, PagesOf(t)) /\ u <= u /\ u \in Nat
    BY DEF KernelBase
  <2> QED
    BY <2>1, <2>2, <2>3, ImageKeeps
<1>5. ASSUME NEW x \in A \ {v} PROVE Anon(q, u, U, x)
  <2>1. Anon(m, u, U, x) /\ Reach(q, x, Levels) = Reach(m, x, Levels)
    BY DEF KernelBase, KernelMaps
  <2>2. Reach(q, v, Levels) = g /\ g # Reach(m, x, Levels)
    <3>1. Reach(m, x, Levels) \notin FreeFrames(m)
      BY DEF KernelBase
    <3>2. ~(Reach(m, x, Levels) < u)
      <4>1. Tree(m, u) /\ Reach(m, x, Levels) >= u
        BY <2>1 DEF KernelBase, Anon
      <4>2. Reach(m, x, Levels) \in Nat
        BY <2>1 DEF Anon
      <4> QED
        BY <4>1, <4>2
    <3> QED
      BY <2>1, <3>1, <3>2 DEF KernelMaps, Anon
  <2>3. \A y \in Page : Reach(q, y, Levels) = Reach(q, x, Levels) => y = x
    BY <2>1, <2>2 DEF Anon, KernelMaps
  <2> QED
    BY <2>1, <2>3 DEF Anon
<1>6. \A x \in P : Reach(q, x, Levels) = FixedAt(x)
  BY DEF KernelMaps, KernelBase
<1> QED
  BY <1>1, <1>2, <1>3, <1>4, <1>5, <1>6 DEF KernelBase

\* A page gets a frame of the free list.
LEMMA KernelAnon ==
  ASSUME NEW m, NEW u \in Nat \ {0}, u <= Frames, NEW t, KernelSound(t), NEW cl, NEW U, U \subseteq Nat,
         NEW lo, NEW A, NEW P, KernelInv(m, u, t, cl, U, lo, A, P), A \subseteq Page, P \subseteq Page,
         NEW v \in SpecialPages, v \notin P, NEW q, NEW g \in FreeFrames(m), KernelMaps(m, u, q, v, g)
  PROVE  KernelInv(q, u, t, cl, U, lo, A \cup {v}, P)
<1>1. v \in Page /\ v >= Frames /\ v \notin ImageSet(t, PagesOf(t))
  BY SpecialPage, ImagePage DEF ImageSet
<1>2. KernelBase(q, u, t, cl, U, A \ {v}, P)
  BY <1>1, KernelCommon DEF KernelInv
<1>3. Anon(q, u, U, v)
  <2>1. Reach(q, v, Levels) = g /\ g \in U /\ g >= u
    BY DEF KernelMaps, KernelInv, KernelBase
  <2>2. \A x \in Page : x # v => Reach(q, x, Levels) # g
    BY DEF KernelMaps, KernelInv, KernelBase
  <2> QED
    BY <2>1, <2>2 DEF Anon
<1>4. Identity(q, lo, u)
  <2>1. \A x \in 0..(u - 1) : x \in Page /\ x # v
    BY <1>1, LinkerAssumption, PageTablesAssumption, SpanDef DEF Page
  <2> QED
    BY <2>1 DEF KernelInv, KernelMaps, Identity
<1>5. Only(q, 0..(u - 1) \cup {WindowPage, WindowPt} \cup ImageSet(t, PagesOf(t)) \cup (A \cup {v}) \cup P)
  BY DEF KernelInv, KernelMaps, Only
<1> QED
  BY <1>2, <1>3, <1>4, <1>5 DEF KernelInv, KernelBase

\* A page is mapped to a given frame.
LEMMA KernelFixed ==
  ASSUME NEW m, NEW u \in Nat \ {0}, u <= Frames, NEW t, KernelSound(t), NEW cl, NEW U, U \subseteq Nat,
         NEW lo, NEW A, NEW P, KernelInv(m, u, t, cl, U, lo, A, P), A \subseteq Page, P \subseteq Page,
         NEW v \in SpecialPages, v \notin A \cup P, NEW q, NEW g, g = FixedAt(v), g \notin U \/ g < u,
         KernelMaps(m, u, q, v, g)
  PROVE  KernelInv(q, u, t, cl, U, lo, A, P \cup {v})
<1>1. v \in Page /\ v >= Frames /\ v \notin ImageSet(t, PagesOf(t))
  BY SpecialPage, ImagePage DEF ImageSet
<1>2. KernelBase(q, u, t, cl, U, A \ {v}, P)
  BY <1>1, KernelCommon DEF KernelInv
<1>3. Reach(q, v, Levels) = FixedAt(v)
  BY DEF KernelMaps
<1>4. Identity(q, lo, u)
  <2>1. \A x \in 0..(u - 1) : x \in Page /\ x # v
    BY <1>1, LinkerAssumption, PageTablesAssumption, SpanDef DEF Page
  <2> QED
    BY <2>1 DEF KernelInv, KernelMaps, Identity
<1>5. Only(q, 0..(u - 1) \cup {WindowPage, WindowPt} \cup ImageSet(t, PagesOf(t)) \cup A \cup (P \cup {v}))
  BY DEF KernelInv, KernelMaps, Only
<1>6. \A x \in A : Anon(q, u, U, x)
  BY <1>2 DEF KernelBase
<1>7. \A x \in P \cup {v} : Reach(q, x, Levels) = FixedAt(x)
  BY <1>2, <1>3 DEF KernelBase
<1> QED
  BY <1>2, <1>4, <1>5, <1>6, <1>7 DEF KernelInv, KernelBase

\* The next page of the identity mapping is unmapped.
LEMMA KernelUnmap ==
  ASSUME NEW m, NEW u \in Nat \ {0}, u <= Frames, NEW t, KernelSound(t), NEW cl, NEW U, U \subseteq Nat,
         NEW lo \in 0..(u - 1), NEW A, NEW P, KernelInv(m, u, t, cl, U, lo, A, P),
         A \subseteq SpecialPages, P \subseteq SpecialPages, NEW q, KernelMaps(m, u, q, lo, NoFrame)
  PROVE  KernelInv(q, u, t, cl, U, lo + 1, A, P)
<1>1. /\ \A x \in 0..(u - 1) : x \in Page
      /\ lo \in Page /\ lo < Frames /\ lo \in Nat /\ Frames \in Nat
  BY LinkerAssumption, PageTablesAssumption, SpanDef DEF Page
<1>2. /\ A \subseteq Page /\ P \subseteq Page /\ lo \notin A /\ lo \notin P
      /\ lo \notin ImageSet(t, PagesOf(t))
  <2>1. \A x \in SpecialPages : x \in Page /\ x # lo
    <3>1. \A x \in SpecialPages : x \in Page /\ x >= Frames
      BY SpecialPage
    <3>2. \A x \in Page : x >= Frames => x # lo
      BY <1>1
    <3> QED
      BY <3>1, <3>2
  <2>2. \A p \in PagesOf(t) : VirtOf(t, p) # lo
    <3>1. \A p \in PagesOf(t) : VirtOf(t, p) \in Page /\ VirtOf(t, p) >= Frames
      BY ImagePage
    <3>2. \A x \in Page : x >= Frames => x # lo
      BY <1>1
    <3> QED
      BY <3>1, <3>2
  <2> QED
    BY <2>1, <2>2 DEF ImageSet
<1>3. NoFrame < u
  BY DEF NoFrame
<1>4. KernelBase(q, u, t, cl, U, A \ {lo}, P)
  BY <1>1, <1>2, <1>3, KernelCommon DEF KernelInv
<1>5. Identity(q, lo + 1, u)
  <2>1. ASSUME NEW x \in 0..(u - 1)
        PROVE  Reach(q, x, Levels) = IF x < lo + 1 THEN NoFrame ELSE x
    <3>1. CASE x = lo
      BY <1>1, <3>1 DEF KernelMaps
    <3>2. CASE x # lo
      <4>1. Reach(q, x, Levels) = IF x < lo THEN NoFrame ELSE x
        BY <1>1, <3>2 DEF KernelMaps, KernelInv, Identity
      <4>2. x < lo + 1 <=> x < lo
        BY <1>1, <3>2
      <4> QED
        BY <4>1, <4>2
    <3> QED
      BY <3>1, <3>2
  <2> QED
    BY <2>1 DEF Identity
<1>6. Only(q, 0..(u - 1) \cup {WindowPage, WindowPt} \cup ImageSet(t, PagesOf(t)) \cup A \cup P)
  BY DEF KernelInv, KernelMaps, Only
<1>7. \A x \in A : Anon(q, u, U, x)
  BY <1>2, <1>4 DEF KernelBase
<1> QED
  BY <1>4, <1>5, <1>6, <1>7 DEF KernelInv, KernelBase

-----------------------------------------------------------------------------
(***************************************************************************)
(* Power-on, and the counters                                              *)
(***************************************************************************)

\* The memory in use only grows.
LEMMA LoaderMapUsed ==
  ASSUME NEW m, NEW a \in Nat, NEW v, NEW g
  PROVE  LET r == LoaderMap(m, a, v, g) IN r.used \in Nat /\ r.used >= a
<1> DEFINE T == Deepening(m, a, v)
           Good(c) == /\ c = [m |-> c.m, used |-> c.used, table |-> c.table]
                      /\ c.used \in Nat /\ c.used >= a
           G == {k \in 0..(Levels - 1) : Good(T[k])}
<1>0. Levels \in Nat \ {0} /\ Levels - 1 \in Nat /\ Levels - 1 \in 0..(Levels - 1)
  BY PageTablesAssumption
<1>1. T[0] = Top(m, a) /\ \A k \in 1..(Levels - 1) : T[k] = Deepen(T[k - 1], Index(v, Levels - k))
  BY DeepeningSteps DEF IsDeepening
<1> HIDE DEF T
<1>2. 0 \in G
  <2>1. Good(Top(m, a))
    BY DEF Top, ZeroPage
  <2> QED
    BY <1>0, <1>1, <2>1
<1>3. ASSUME NEW k \in 0..((Levels - 1) - 1), k \in G PROVE k + 1 \in G
  <2>1. k + 1 \in 1..(Levels - 1) /\ (k + 1) - 1 = k /\ k + 1 \in 0..(Levels - 1)
    BY <1>0
  <2>2. PICK c, p, b, t, x : /\ c = T[k] /\ p = c.m /\ b = c.used /\ t = c.table
                             /\ x = Index(v, Levels - (k + 1))
    OBVIOUS
  <2>3. c = [m |-> p, used |-> b, table |-> t] /\ b \in Nat /\ b >= a
    BY <1>3, <2>2
  <2>4. T[k + 1] = Deepen([m |-> p, used |-> b, table |-> t], x)
    BY <1>1, <2>1, <2>2, <2>3
  <2>5. Good(Deepen([m |-> p, used |-> b, table |-> t], x))
    BY <2>3 DEF Deepen, ZeroPage
  <2> QED
    BY <2>1, <2>4, <2>5
<1>4. \A k \in 0..(Levels - 1) : k \in G
  <2> HIDE DEF G
  <2> QED
    BY <1>0, <1>2, <1>3, UpTo
<1>5. Good(T[Levels - 1])
  BY <1>0, <1>4
<1> QED
  BY <1>5 DEF T, LoaderMap

\* Without a root nothing is mapped.
LEMMA BlankTree ==
  ASSUME NEW m \in Machine, m.root = 0, NEW a \in Nat
  PROVE  Tree(m, a) /\ \A x \in Page : \A l \in 0..Levels : Reach(m, x, l) = NoFrame
<1>1. \A x, l : Reach(m, x, l) = NoFrame
  BY DEF Reach
<1> QED
  BY <1>1 DEF Tree

\* The values that the loops count with.
CountersInv ==
    /\ in \in Machines
    /\ used \in Nat /\ used >= LoaderEnd
    /\ tag \in Nat \ {0} /\ seg \in Nat \ {0} /\ i \in Nat
    /\ kernel = NoKernel \/ KernelSound(kernel)

\* The invariant holds at power-on.
LEMMA SpaceInit ==
  ASSUME StartupInit
  PROVE  CountersInv /\ StageInv
<1>0. LoaderEnd \in Nat \ {0} /\ Garbage \in Nat /\ Frames \in Nat \ {0}
  BY BootAssumption, PageTablesAssumption DEF Frame
<1>1. CountersInv
  BY <1>0 DEF StartupInit, BootInit, CountersInv
<1>2. mach \in Machine /\ mach.root = 0 /\ mach.free = 0
  <2>1. 0 \in Frame
    BY <1>0 DEF Frame
  <2> QED
    BY <1>0, <2>1 DEF StartupInit, BootInit, Machine, Slots
<1>3. stage = "check" /\ seg = 1 /\ i = 0
  BY DEF StartupInit, BootInit
<1> QED
  BY <1>1, <1>2, <1>3 DEF StageInv

\* What is assumed of the machine that boots.
LEMMA MachineMaps ==
  ASSUME CountersInv
  PROVE  /\ in.infoEnd \in Nat /\ Len(in.tags) \in Nat /\ MapsSound(in)
         /\ \A n \in 1..Len(in.tags) :
               in.tags[n].type = "module" /\ in.tags[n].beaveros => KernelSound(in.tags[n])
  BY MachinesAssumption DEF CountersInv

\* The counters stay numbers, and the memory in use grows.
LEMMA CountersStep ==
  ASSUME CountersInv, [StartupNext]_startupVars
  PROVE  CountersInv' /\ used' >= used
<1> USE DEF CountersInv
<1>0. \A m, v, g : LoaderMap(m, used, v, g).used \in Nat /\ LoaderMap(m, used, v, g).used >= used
  BY LoaderMapUsed
<1>l. LoaderEnd \in Nat
  BY BootAssumption DEF Frame
<1>1. CASE Check
  BY <1>1, <1>l, MachineMaps DEF Check, ExtendUsed
<1>2. CASE ReadTag
  <2>1. tag \in 1..Len(in.tags)
    BY <1>2, MachineMaps DEF ReadTag
  <2>2. kernel' = NoKernel \/ KernelSound(kernel')
    BY <1>2, <2>1, MachineMaps DEF ReadTag
  <2> QED
    BY <1>2, <2>2 DEF ReadTag
<1>3. CASE FoundKernel
  <2>1. kernel # NoKernel => kernel.end \in Nat
    BY DEF KernelSound
  <2> QED
    BY <1>3, <2>1, <1>l DEF FoundKernel, ExtendUsed
<1>4. CASE LoadPage
  <2>1. used' \in Nat /\ used' >= used
    <3>1. CASE 2 * i < Segments[seg].filesz
      BY <1>0, <1>4, <3>1 DEF LoadPage, DoLoaderMap
    <3>2. CASE ~(2 * i < Segments[seg].filesz)
      <4>1. used' = LoaderMap(ZeroPage(mach, used).m, used + 1, Segments[seg].vaddr + i, used).used
        BY <1>4, <3>2 DEF LoadPage, DoLoaderMap, ZeroPage
      <4>2. \A m, v, g : LoaderMap(m, used + 1, v, g).used \in Nat
                         /\ LoaderMap(m, used + 1, v, g).used >= used + 1
        BY LoaderMapUsed
      <4> QED
        BY <4>1, <4>2
    <3> QED
      BY <3>1, <3>2
  <2> QED
    BY <1>4, <1>l, <2>1 DEF LoadPage
<1>5. CASE NextSegment
  BY <1>5 DEF NextSegment
<1>6. CASE FindSymbols
  BY <1>6 DEF FindSymbols
<1>7. CASE MapWindow
  BY <1>0, <1>7, <1>l DEF MapWindow, DoLoaderMap
<1>8. CASE MapWindowPt
  BY <1>0, <1>8, <1>l DEF MapWindowPt, DoLoaderMap
<1>9. CASE IdentityPage
  BY <1>0, <1>9, <1>l DEF IdentityPage, DoLoaderMap
<1>10. CASE EnterKernel
  BY <1>10 DEF EnterKernel
<1>11. CASE AddEntry
  BY <1>11 DEF AddEntry
<1>12. CASE UnknownMap
  BY <1>12 DEF UnknownMap
<1>13. CASE SkipTag
  BY <1>13 DEF SkipTag
<1>14. CASE MapStack
  BY <1>14 DEF MapStack
<1>15. CASE MapFirstMb
  BY <1>15 DEF MapFirstMb
<1>16. CASE FirstMbDone
  BY <1>16 DEF FirstMbDone
<1>17. CASE UnmapIdentity
  BY <1>17 DEF UnmapIdentity
<1>18. CASE UnmapDone
  BY <1>18 DEF UnmapDone
<1>19. CASE MapTables
  BY <1>19 DEF MapTables
<1>20. CASE MapApic
  BY <1>20 DEF MapApic
<1>21. CASE SearchTables
  BY <1>21 DEF SearchTables
<1>22. CASE UNCHANGED startupVars
  BY <1>22 DEF startupVars, bootVars
<1> QED
  BY <1>1, <1>2, <1>3, <1>4, <1>5, <1>6, <1>7, <1>8, <1>9, <1>10, <1>11, <1>12, <1>13,
     <1>14, <1>15, <1>16, <1>17, <1>18, <1>19, <1>20, <1>21, <1>22 DEF StartupNext, BootNext

-----------------------------------------------------------------------------
(***************************************************************************)
(* The steps of the loader                                                 *)
(***************************************************************************)

\* The pages of an image have addresses of their own.
LEMMA ImageIsApart ==
  ASSUME NEW t, KernelSound(t), NEW S, S \subseteq PagesOf(t), NEW p \in PagesOf(t) \ S
  PROVE  VirtOf(t, p) \notin ImageSet(t, S) /\ ImageSet(t, S \cup {p}) = ImageSet(t, S) \cup {VirtOf(t, p)}
  BY DEF ImageSet, KernelSound

\* A page of another table leaves the window without one.
LEMMA WindowStaysFree ==
  ASSUME NEW m, NEW q, NEW a, NEW b, NEW v, NEW g, LoaderMaps(m, a, q, b, v, g),
         Reach(m, WindowPage, Levels - 1) = NoFrame, ~Same(v, WindowPage, Levels - 1)
  PROVE  Reach(q, WindowPage, Levels - 1) = NoFrame
<1>1. WindowPage \in Page /\ Levels - 1 \in 0..(Levels - 1)
  BY BootAssumption, PageTablesAssumption
<1> QED
  BY <1>1, SameSymmetric DEF LoaderMaps

\* load_kernel maps a page that is in the file.
LEMMA LoadFile ==
  ASSUME NEW m, NEW a \in Nat \ {0}, NEW t, KernelSound(t), t.end <= a, NEW cl,
         NEW c2, cl \subseteq c2, NEW S, S \subseteq PagesOf(t), NEW p \in PagesOf(t) \ S,
         Loading(m, a, t, cl, S), FromFile(t, p), Ends(t, p) => (2 * FileFrame(t, p)) + 1 \in c2,
         NEW r, r = LoaderMap(m, a, VirtOf(t, p), FileFrame(t, p)), r.used <= Frames
  PROVE  Loading(r.m, r.used, t, c2, S \cup {p})
<1>1. PICK v, g, q, b : v = VirtOf(t, p) /\ g = FileFrame(t, p) /\ q = r.m /\ b = r.used
  OBVIOUS
<1>2. /\ v \in Page /\ g \in Nat /\ g < t.end /\ t.end \in Nat
      /\ ~Same(v, WindowPage, Levels - 1)
  BY <1>1, ImagePage
<1>3. LoadInv(m, a, t, cl, S) /\ Tree(m, a)
  BY DEF Loading, LoadInv
<1>4. b \in Nat /\ a <= b /\ b <= Frames /\ LoaderMaps(m, a, q, b, v, g)
  BY <1>1, <1>2, <1>3, LoaderMapEffect
<1>5. g \in 0..(b - 1)
  BY <1>2, <1>4
<1>6. v \notin ImageSet(t, S) /\ ImageSet(t, S \cup {p}) = ImageSet(t, S) \cup {v}
  BY <1>1, ImageIsApart
<1>7. LoadInv(q, b, t, c2, S)
  BY <1>2, <1>3, <1>4, <1>5, <1>6, LoadKeeps
<1>8. ImageAt(q, b, t, c2, S \cup {p})
  <2>1. ImageAt(q, b, t, c2, S) /\ Reach(q, VirtOf(t, p), Levels) = FileFrame(t, p)
    BY <1>1, <1>4, <1>7 DEF LoadInv, LoaderMaps
  <2> QED
    BY <2>1, AddFilePage
<1>9. Only(q, ImageSet(t, S \cup {p}))
  <2>1. Only(m, ImageSet(t, S))
    BY DEF Loading
  <2>2. Only(q, ImageSet(t, S) \cup {v})
    BY <1>4, <2>1, OnlyMore
  <2> QED
    BY <1>6, <2>2
<1>10. Reach(q, WindowPage, Levels - 1) = NoFrame
  BY <1>2, <1>4, WindowStaysFree DEF Loading
<1>11. LoadInv(q, b, t, c2, S \cup {p})
  BY <1>7, <1>8 DEF LoadInv
<1> QED
  BY <1>1, <1>9, <1>10, <1>11 DEF Loading

\* load_kernel maps a page behind the file.
LEMMA LoadZero ==
  ASSUME NEW m, NEW a \in Nat \ {0}, NEW t, KernelSound(t), t.end <= a, NEW cl,
         NEW S, S \subseteq PagesOf(t), NEW p \in PagesOf(t) \ S,
         Loading(m, a, t, cl, S), ~FromFile(t, p),
         NEW r, r = LoaderMap(ZeroPage(m, a).m, a + 1, VirtOf(t, p), a), r.used <= Frames
  PROVE  Loading(r.m, r.used, t, cl, S \cup {p})
<1>1. PICK v, n, q, b : v = VirtOf(t, p) /\ n = ZeroPage(m, a).m /\ q = r.m /\ b = r.used
  OBVIOUS
<1>2. v \in Page /\ t.end \in Nat /\ ~Same(v, WindowPage, Levels - 1)
  BY <1>1, ImagePage
<1>3. LoadInv(m, a, t, cl, S) /\ Tree(m, a) /\ m \in Machine
  BY DEF Loading, LoadInv, Tree
<1>u. b \in Nat /\ a + 1 <= b /\ b <= Frames
  BY <1>1, LoaderMapUsed
<1>f. a \in Frame /\ a <= Frames /\ a + 1 <= Frames
  BY <1>u, PageTablesAssumption DEF Frame
<1>4. /\ n \in Machine /\ n.free = m.free /\ n.mem[a] = ZeroFrame
      /\ \A f \in Frame \ {a} : n.mem[f] = m.mem[f]
  BY <1>1, <1>3, <1>f, ZeroPageEffect
<1>5. /\ Tree(n, a + 1)
      /\ \A x \in Page : \A l \in 0..Levels : Reach(n, x, l) = Reach(m, x, l)
  BY <1>1, <1>3, <1>f, ZeroPageTree
<1>6. Levels \in 0..Levels /\ \A l \in 0..(Levels - 1) : l \in 0..Levels
  BY PageTablesAssumption
<1>7. LoadInv(n, a + 1, t, cl, S)
  <2>1. Low(n, a + 1)
    <3>1. \A x \in Page : Reach(m, x, Levels) \in {NoFrame} \cup 0..(a - 1)
      BY <1>3 DEF LoadInv, Low
    <3>2. 0..(a - 1) \subseteq 0..((a + 1) - 1)
      OBVIOUS
    <3> QED
      BY <1>5, <1>6, <3>1, <3>2 DEF Low
  <2>2. \A f \in Frame : f < a /\ NotTable(m, f) => NotTable(n, f) /\ n.mem[f] = m.mem[f]
    BY <1>4, <1>5, <1>6 DEF NotTable
  <2>3. \A y \in S : Reach(n, VirtOf(t, y), Levels) = Reach(m, VirtOf(t, y), Levels)
    BY <1>5, <1>6, ImagePage
  <2>4. ImageAt(m, a, t, cl, S) /\ a <= a + 1 /\ a + 1 \in Nat /\ cl \subseteq cl
    BY <1>3 DEF LoadInv
  <2>5. ImageAt(n, a + 1, t, cl, S)
    BY <1>f, <2>2, <2>3, <2>4, ImageKeeps
  <2> QED
    BY <1>3, <1>4, <1>5, <2>1, <2>5 DEF LoadInv
<1>8. LoaderMaps(n, a + 1, q, b, v, a)
  BY <1>1, <1>2, <1>5, <1>u, LoaderMapEffect
<1>9. a \in 0..(b - 1) /\ a + 1 \in Nat \ {0}
  BY <1>u
<1>10. v \notin ImageSet(t, S) /\ ImageSet(t, S \cup {p}) = ImageSet(t, S) \cup {v}
  BY <1>1, ImageIsApart
<1>11. LoadInv(q, b, t, cl, S)
  BY <1>2, <1>7, <1>8, <1>9, <1>10, <1>u, LoadKeeps
<1>12. \A x \in Page : \A l \in 0..(Levels - 1) : Reach(m, x, l) # a
  <2>1. a \notin {NoFrame} \cup 1..(a - 1)
    BY <1>f, NoFrameIsNone
  <2> QED
    BY <1>3, <2>1 DEF Tree
<1>13. NotTable(n, a)
  BY <1>5, <1>6, <1>12 DEF NotTable
<1>14. q.mem[a] = ZeroFrame
  <2>1. a < a + 1
    OBVIOUS
  <2> QED
    BY <1>4, <1>8, <1>13, <1>f, <2>1 DEF LoaderMaps, NotTable
<1>15. NotTable(q, a)
  <2>1. ASSUME NEW x \in Page, NEW l \in 0..(Levels - 1) PROVE Reach(q, x, l) # a
    <3>1. CASE Reach(n, x, l) = NoFrame
      <4>1. Reach(q, x, l) # NoFrame => Reach(q, x, l) >= a + 1
        BY <3>1, <1>8 DEF LoaderMaps
      <4>2. a # NoFrame
        BY <1>f, NoFrameIsNone
      <4> QED
        BY <4>1, <4>2
    <3>2. CASE Reach(n, x, l) # NoFrame
      BY <1>8, <1>13, <3>2 DEF LoaderMaps, NotTable
    <3> QED
      BY <3>1, <3>2
  <2> QED
    BY <2>1 DEF NotTable
<1>16. \A y \in S : Reach(q, VirtOf(t, y), Levels) # a
  <2>1. \A x \in Page : Reach(m, x, Levels) # a
    <3>1. a \notin {NoFrame} \cup 0..(a - 1)
      BY <1>f, NoFrameIsNone
    <3> QED
      BY <1>3, <3>1 DEF LoadInv, Low
  <2>2. \A y \in S : VirtOf(t, y) \in Page /\ VirtOf(t, y) # v
    BY <1>10, ImagePage DEF ImageSet
  <2> QED
    BY <1>5, <1>6, <1>8, <2>1, <2>2 DEF LoaderMaps
<1>17. a = Reach(q, VirtOf(t, p), Levels) /\ a \in t.end..(b - 1)
  BY <1>1, <1>2, <1>8, <1>9 DEF LoaderMaps
<1>18. ImageAt(q, b, t, cl, S)
  BY <1>11 DEF LoadInv
<1>19. ImageAt(q, b, t, cl, S \cup {p})
  BY <1>14, <1>15, <1>16, <1>17, <1>18, AddZeroPage
<1>20. LoadInv(q, b, t, cl, S \cup {p})
  BY <1>11, <1>19 DEF LoadInv
<1>21. Only(q, ImageSet(t, S \cup {p}))
  <2>1. Only(n, ImageSet(t, S))
    BY <1>5, <1>6 DEF Loading, Only
  <2>2. Only(q, ImageSet(t, S) \cup {v})
    BY <1>8, <2>1, OnlyMore
  <2> QED
    BY <1>10, <2>2
<1>22. Reach(q, WindowPage, Levels - 1) = NoFrame
  <2>1. Reach(n, WindowPage, Levels - 1) = NoFrame
    <3>1. WindowPage \in Page /\ Levels - 1 \in 0..Levels
      BY BootAssumption, PageTablesAssumption
    <3> QED
      BY <1>5, <3>1 DEF Loading
  <2> QED
    BY <1>2, <1>8, <2>1, WindowStaysFree
<1> QED
  BY <1>1, <1>20, <1>21, <1>22 DEF Loading

\* The free list is empty at first.
LEMMA EmptyList ==
  ASSUME NEW m \in Machine, m.free = 0
  PROVE  HasFreeList(m) /\ FreeFrames(m) = {}
<1> DEFINE s == [k \in 0..0 |-> 0]
<1>1. s \in [0..0 -> Frame] /\ s[0] = 0
  BY PageTablesAssumption DEF Frame
<1>2. IsFreeList(m, s, 0)
  <2>1. 0..(0 - 1) = {}
    OBVIOUS
  <2> HIDE DEF s
  <2> QED
    BY <1>1, <2>1 DEF IsFreeList
<1>3. HasFreeList(m)
  BY <1>2 DEF HasFreeList
<1> QED
  BY <1>3, FreeListFacts

\* The memory in use is below the special pages and the image.
LEMMA LowPage ==
  ASSUME NEW x \in Nat, x < Frames
  PROVE  /\ x \in Page /\ x \notin SpecialPages
         /\ \A t : KernelSound(t) => x \notin ImageSet(t, PagesOf(t))
<1>1. x \in Page
  BY LinkerAssumption, PageTablesAssumption, SpanDef DEF Page
<1>2. \A y \in Page : y >= Frames => y # x
  BY PageTablesAssumption, SpanDef DEF Page
<1>3. x \notin SpecialPages
  BY <1>2, SpecialPage
<1>4. ASSUME NEW t, KernelSound(t) PROVE x \notin ImageSet(t, PagesOf(t))
  <2>1. \A p \in PagesOf(t) : VirtOf(t, p) \in Page /\ VirtOf(t, p) >= Frames
    BY <1>4, ImagePage
  <2> QED
    BY <1>2, <2>1 DEF ImageSet
<1> QED
  BY <1>1, <1>3, <1>4

\* A special page is not one of the image.
LEMMA SpecialIsApart ==
  ASSUME NEW v \in SpecialPages, NEW t, KernelSound(t)
  PROVE  v \in Page /\ v \notin ImageSet(t, PagesOf(t))
  BY SpecialPage, ImagePage DEF ImageSet

\* The window and its table have pages of their own.
LEMMA WindowPages == WindowPage \in SpecialPages /\ WindowPt \in SpecialPages /\ WindowPage # WindowPt
  BY LinkerAssumption DEF SpecialPages

\* The page of the window: the last table that was allocated is the one it is in.
LEMMA WindowStep ==
  ASSUME NEW m, NEW a \in Nat \ {0}, NEW t, KernelSound(t), NEW cl, Loading(m, a, t, cl, PagesOf(t)),
         NEW r, r = LoaderMap(m, a, WindowPage, 0), r.used <= Frames
  PROVE  /\ LoadInv(r.m, r.used, t, cl, PagesOf(t))
         /\ Only(r.m, {WindowPage} \cup ImageSet(t, PagesOf(t)))
         /\ Reach(r.m, WindowPage, Levels - 1) = r.used - 1
<1>1. PICK q, b : q = r.m /\ b = r.used
  OBVIOUS
<1>2. LoadInv(m, a, t, cl, PagesOf(t)) /\ Tree(m, a)
  BY DEF Loading, LoadInv
<1>3. WindowPage \in Page /\ WindowPage \notin ImageSet(t, PagesOf(t))
  BY SpecialIsApart, WindowPages
<1>4. b \in Nat /\ a <= b /\ b <= Frames /\ LoaderMaps(m, a, q, b, WindowPage, 0)
  BY <1>1, <1>2, <1>3, LoaderMapEffect
<1>5. 0 \in 0..(b - 1)
  BY <1>4
<1>6. LoadInv(q, b, t, cl, PagesOf(t))
  BY <1>2, <1>3, <1>4, <1>5, LoadKeeps
<1>7. Only(q, {WindowPage} \cup ImageSet(t, PagesOf(t)))
  <2>1. Only(m, ImageSet(t, PagesOf(t)))
    BY DEF Loading
  <2>2. Only(q, ImageSet(t, PagesOf(t)) \cup {WindowPage})
    BY <1>4, <2>1, OnlyMore
  <2> QED
    BY <2>2 DEF Only
<1>8. Reach(q, WindowPage, Levels - 1) = b - 1
  BY <1>4 DEF LoaderMaps, Loading
<1> QED
  BY <1>1, <1>6, <1>7, <1>8

\* Mapping the table of the window: it was the page taken last.
LEMMA WindowPtStep ==
  ASSUME NEW m, NEW a \in Nat \ {0}, NEW t, KernelSound(t), NEW cl, LoadInv(m, a, t, cl, PagesOf(t)),
         Only(m, {WindowPage} \cup ImageSet(t, PagesOf(t))),
         Reach(m, WindowPage, Levels - 1) = a - 1,
         NEW r, r = LoaderMap(m, a, WindowPt, a - 1), r.used <= Frames
  PROVE  /\ LoadInv(r.m, r.used, t, cl, PagesOf(t))
         /\ Only(r.m, 0..(0 - 1) \cup {WindowPage, WindowPt} \cup ImageSet(t, PagesOf(t)))
         /\ Reach(r.m, WindowPage, Levels - 1) # NoFrame
         /\ r.m.root # 0 /\ OwnTable(r.m) /\ Identity(r.m, 0, 0)
<1>1. PICK q, b, g : q = r.m /\ b = r.used /\ g = a - 1
  OBVIOUS
<1>2. Tree(m, a) /\ g \in Nat /\ g # NoFrame
  BY <1>1 DEF LoadInv, NoFrame
<1>3. WindowPt \in Page /\ WindowPt \notin ImageSet(t, PagesOf(t)) /\ WindowPage \in Page
  BY SpecialIsApart, WindowPages
<1>4. b \in Nat /\ a <= b /\ b <= Frames /\ LoaderMaps(m, a, q, b, WindowPt, g)
  BY <1>1, <1>2, <1>3, LoaderMapEffect
<1>5. g \in 0..(b - 1)
  BY <1>1, <1>4
<1>6. LoadInv(q, b, t, cl, PagesOf(t))
  BY <1>3, <1>4, <1>5, LoadKeeps
<1>7. Only(q, 0..(0 - 1) \cup {WindowPage, WindowPt} \cup ImageSet(t, PagesOf(t)))
  <2>2. Only(q, ({WindowPage} \cup ImageSet(t, PagesOf(t))) \cup {WindowPt})
    BY <1>4, OnlyMore
  <2> QED
    BY <2>2 DEF Only
<1>8. Reach(q, WindowPage, Levels - 1) = g
  <2>1. Levels - 1 \in 0..(Levels - 1)
    BY PageTablesAssumption
  <2> QED
    BY <1>1, <1>2, <1>3, <1>4, <2>1 DEF LoaderMaps
<1>9. Reach(q, WindowPt, Levels) = g /\ q.root # 0
  BY <1>4 DEF LoaderMaps
<1>10. Identity(q, 0, 0)
  <2>1. 0..(0 - 1) = {}
    OBVIOUS
  <2> QED
    BY <2>1 DEF Identity
<1> QED
  BY <1>1, <1>2, <1>6, <1>7, <1>8, <1>9, <1>10 DEF OwnTable

\* One round of setup_identity_paging.
LEMMA IdentityStep ==
  ASSUME NEW m, NEW a \in Nat \ {0}, NEW t, KernelSound(t), NEW cl, LoadInv(m, a, t, cl, PagesOf(t)),
         NEW n \in Nat, n < a,
         Only(m, 0..(n - 1) \cup {WindowPage, WindowPt} \cup ImageSet(t, PagesOf(t))),
         Reach(m, WindowPage, Levels - 1) # NoFrame, OwnTable(m), Identity(m, 0, n),
         NEW r, r = LoaderMap(m, a, n, n), r.used <= Frames
  PROVE  /\ LoadInv(r.m, r.used, t, cl, PagesOf(t))
         /\ Only(r.m, 0..((n + 1) - 1) \cup {WindowPage, WindowPt} \cup ImageSet(t, PagesOf(t)))
         /\ Reach(r.m, WindowPage, Levels - 1) # NoFrame
         /\ r.m.root # 0 /\ OwnTable(r.m) /\ Identity(r.m, 0, n + 1)
<1>1. PICK q, b : q = r.m /\ b = r.used
  OBVIOUS
<1>u. b \in Nat /\ a <= b /\ b <= Frames
  BY <1>1, LoaderMapUsed
<1>2. Tree(m, a) /\ n < Frames
  BY <1>u, PageTablesAssumption DEF LoadInv
<1>3. n \in Page /\ n \notin SpecialPages /\ n \notin ImageSet(t, PagesOf(t))
  BY <1>2, LowPage
<1>4. LoaderMaps(m, a, q, b, n, n)
  BY <1>1, <1>2, <1>3, <1>u, LoaderMapEffect
<1>5. n \in 0..(b - 1)
  BY <1>u
<1>6. LoadInv(q, b, t, cl, PagesOf(t))
  BY <1>3, <1>4, <1>5, <1>u, LoadKeeps
<1>7. Only(q, 0..((n + 1) - 1) \cup {WindowPage, WindowPt} \cup ImageSet(t, PagesOf(t)))
  <2>1. 0..((n + 1) - 1) = 0..(n - 1) \cup {n}
    OBVIOUS
  <2>2. Only(q, (0..(n - 1) \cup {WindowPage, WindowPt} \cup ImageSet(t, PagesOf(t))) \cup {n})
    BY <1>4, OnlyMore
  <2> QED
    BY <2>1, <2>2 DEF Only
<1>8. Reach(q, WindowPage, Levels - 1) = Reach(m, WindowPage, Levels - 1)
  <2>1. Levels - 1 \in 0..(Levels - 1) /\ WindowPage \in Page
    BY PageTablesAssumption, BootAssumption
  <2> QED
    BY <1>4, <2>1 DEF LoaderMaps
<1>9. Reach(q, WindowPt, Levels) = Reach(m, WindowPt, Levels)
  <2>1. WindowPt \in Page \ {n}
    BY <1>3, WindowPages, SpecialPage
  <2> QED
    BY <1>4, <2>1 DEF LoaderMaps
<1>10. Identity(q, 0, n + 1)
  <2>1. ASSUME NEW x \in 0..((n + 1) - 1) PROVE Reach(q, x, Levels) = IF x < 0 THEN NoFrame ELSE x
    <3>1. CASE x = n
      BY <1>4, <3>1 DEF LoaderMaps
    <3>2. CASE x # n
      <4>1. x \in 0..(n - 1) /\ x < Frames
        BY <1>2, <3>2, PageTablesAssumption
      <4>2. x \in Page
        BY <4>1, LowPage
      <4> QED
        BY <1>4, <3>2, <4>1, <4>2 DEF LoaderMaps, Identity
    <3> QED
      BY <3>1, <3>2
  <2> QED
    BY <2>1 DEF Identity
<1>11. q.root # 0
  BY <1>4 DEF LoaderMaps
<1> QED
  BY <1>1, <1>6, <1>7, <1>8, <1>9, <1>10, <1>11 DEF OwnTable

\* When the loop ends, the address space is the one the kernel expects.
LEMMA HandOver ==
  ASSUME NEW m, NEW a \in Nat \ {0}, a <= Frames, NEW t, KernelSound(t), NEW cl, NEW U,
         LoadInv(m, a, t, cl, PagesOf(t)),
         Only(m, 0..(a - 1) \cup {WindowPage, WindowPt} \cup ImageSet(t, PagesOf(t))),
         Reach(m, WindowPage, Levels - 1) # NoFrame, m.root # 0, Identity(m, 0, a)
  PROVE  KernelInv(m, a, t, cl, U, 0, {}, {}) /\ Low(m, a) /\ FreeFrames(m) = {}
<1>1. m \in Machine /\ m.free = 0 /\ Tree(m, a) /\ Low(m, a) /\ ImageAt(m, a, t, cl, PagesOf(t))
  BY DEF LoadInv, Tree
<1>2. HasFreeList(m) /\ FreeFrames(m) = {}
  BY <1>1, EmptyList
<1>3. KernelBase(m, a, t, cl, U, {}, {})
  BY <1>1, <1>2 DEF KernelBase
<1>4. Only(m, 0..(a - 1) \cup {WindowPage, WindowPt} \cup ImageSet(t, PagesOf(t)) \cup {} \cup {})
  BY DEF Only
<1> QED
  BY <1>1, <1>2, <1>3, <1>4 DEF KernelInv

-----------------------------------------------------------------------------
(***************************************************************************)
(* The steps of the kernel                                                 *)
(***************************************************************************)

\* A usable entry is a pair of numbers.
LEMMA EntryNumbers ==
  ASSUME NEW w \in Machines, NEW e \in UsableEntries(w)
  PROVE  e[1] \in Nat /\ e[2] \in Nat
<1>1. PICK n \in {x \in 1..Len(w.tags) : w.tags[x].type = "memory_map"} :
        e \in {<<n, k>> : k \in {x \in 1..Len(w.tags[n].entries) : w.tags[n].entries[x].type = 1}}
  BY DEF UsableEntries
<1>2. PICK k \in 1..Len(w.tags[n].entries) : e = <<n, k>>
  BY <1>1
<1>3. Len(w.tags) \in Nat /\ Len(w.tags[n].entries) \in Nat
  BY <1>1, MachinesAssumption DEF MapsSound
<1> QED
  BY <1>1, <1>2, <1>3

\* An entry of type 1 is usable.
LEMMA EntryIsUsable ==
  ASSUME NEW w, NEW n \in 1..Len(w.tags), w.tags[n].type = "memory_map",
         NEW k \in 1..Len(w.tags[n].entries), w.tags[n].entries[k].type = 1
  PROVE  <<n, k>> \in UsableEntries(w)
<1>1. <<n, k>> \in {<<n, y>> : y \in {x \in 1..Len(w.tags[n].entries) : w.tags[n].entries[x].type = 1}}
  OBVIOUS
<1> QED
  BY <1>1 DEF UsableEntries

\* The entries one by one.
LEMMA BeforeSteps ==
  ASSUME NEW w \in Machines, NEW n \in Nat, NEW k \in Nat
  PROVE  /\ Before(w, n, k) \subseteq UsableOf(w)
         /\ Before(w, n, k) \subseteq Before(w, n, k + 1)
         /\ Before(w, n, k) \subseteq Before(w, n + 1, 1)
         /\ <<n, k>> \in UsableEntries(w) =>
               /\ EntryFrames(w, <<n, k>>) \subseteq Before(w, n, k + 1)
               /\ EntryFrames(w, <<n, k>>) \cap Before(w, n, k) = {}
<1>1. \A d \in UsableEntries(w) :
         /\ d[1] < n \/ (d[1] = n /\ d[2] < k) => d[1] < n \/ (d[1] = n /\ d[2] < k + 1)
         /\ d[1] < n \/ (d[1] = n /\ d[2] < k) => d[1] < n + 1 \/ (d[1] = n + 1 /\ d[2] < 1)
         /\ d[1] < n \/ (d[1] = n /\ d[2] < k) => d # <<n, k>>
  <2> SUFFICES ASSUME NEW d \in UsableEntries(w)
               PROVE  /\ d[1] < n \/ (d[1] = n /\ d[2] < k) => d[1] < n \/ (d[1] = n /\ d[2] < k + 1)
                      /\ d[1] < n \/ (d[1] = n /\ d[2] < k) => d[1] < n + 1 \/ (d[1] = n + 1 /\ d[2] < 1)
                      /\ d[1] < n \/ (d[1] = n /\ d[2] < k) => d # <<n, k>>
    OBVIOUS
  <2>1. PICK a, b : a = d[1] /\ b = d[2] /\ a \in Nat /\ b \in Nat
    BY EntryNumbers
  <2>2. d = <<n, k>> => a = n /\ b = k
    BY <2>1
  <2> QED
    BY <2>1, <2>2
<1>2. Before(w, n, k) \subseteq UsableOf(w)
  BY DEF Before, UsableOf
<1>3. Before(w, n, k) \subseteq Before(w, n, k + 1)
  BY <1>1 DEF Before
<1>4. Before(w, n, k) \subseteq Before(w, n + 1, 1)
  BY <1>1 DEF Before
<1>5. ASSUME <<n, k>> \in UsableEntries(w)
      PROVE  /\ EntryFrames(w, <<n, k>>) \subseteq Before(w, n, k + 1)
             /\ EntryFrames(w, <<n, k>>) \cap Before(w, n, k) = {}
  <2>1. <<n, k>> \in {d \in UsableEntries(w) : d[1] < n \/ (d[1] = n /\ d[2] < k + 1)}
    BY <1>5
  <2>2. \A e, d \in UsableEntries(w) : e # d => EntryFrames(w, e) \cap EntryFrames(w, d) = {}
    BY MachinesAssumption DEF MapsSound
  <2>3. EntryFrames(w, <<n, k>>) \subseteq Before(w, n, k + 1)
    BY <2>1 DEF Before
  <2>4. ASSUME NEW f \in EntryFrames(w, <<n, k>>), f \in Before(w, n, k) PROVE FALSE
    <3>1. PICK d \in UsableEntries(w) : (d[1] < n \/ (d[1] = n /\ d[2] < k)) /\ f \in EntryFrames(w, d)
      BY <2>4 DEF Before
    <3> QED
      BY <1>1, <1>5, <2>2, <3>1
  <2> QED
    BY <2>3, <2>4
<1> QED
  BY <1>2, <1>3, <1>4, <1>5

\* Usable memory exists, and is not the device's.
LEMMA UsableFrames ==
  ASSUME NEW w \in Machines
  PROVE  UsableOf(w) \subseteq Frame \ {ApicFrame} /\ UsableOf(w) \subseteq Nat
<1>1. UsableOf(w) \subseteq Frame \ {ApicFrame}
  BY MachinesAssumption DEF MapsSound, UsableOf
<1> QED
  BY <1>1 DEF Frame

\* A block of unused frames goes to the free list.
LEMMA AddBlock ==
  ASSUME NEW m, NEW u \in Nat \ {0}, u <= Frames, NEW t, KernelSound(t), NEW cl,
         NEW U, KernelInv(m, u, t, cl, U, 0, {}, {}), Low(m, u),
         NEW s \in Frame, s >= u, NEW z \in Nat, z >= 1,
         s..(s + z - 1) \subseteq Frame \ FreeFrames(m), s..(s + z - 1) \subseteq U
  PROVE  LET q == PushBlock(m, s, z)
         IN  /\ KernelInv(q, u, t, cl, U, 0, {}, {}) /\ Low(q, u)
             /\ OwnTable(m) => OwnTable(q)
             /\ FreeFrames(q) = FreeFrames(m) \cup s..(s + z - 1)
<1>1. PICK q : q = PushBlock(m, s, z)
  OBVIOUS
<1>2. s \in Nat \ {0}
  BY DEF Frame
<1>3. s..(s + z - 1) \subseteq Frame \ ({0} \cup FreeFrames(m))
  <2>1. 0 \notin s..(s + z - 1)
    BY <1>2
  <2> QED
    BY <2>1
<1>4. KernelBase(m, u, t, cl, U, {}, {}) /\ Tree(m, u) /\ m \in Machine /\ HasFreeList(m)
  BY DEF KernelInv, KernelBase, Tree
<1>5. HasFreeList(q) /\ FreeFrames(q) = FreeFrames(m) \cup s..(s + z - 1)
  BY <1>1, <1>3, <1>4, PushList
<1>6. q \in Machine /\ q.root = m.root
  BY <1>1, <1>4, PushEffect
<1>7. \A f \in Frame : f < u => q.mem[f] = m.mem[f]
  <2>1. \A f \in Frame : f < u => f # s
    BY <1>2 DEF Frame
  <2>2. ASSUME NEW g \in Frame, g # s PROVE q.mem[g] = m.mem[g]
    BY <1>1, <1>4, <2>2 DEF PushBlock, Poke, PhysLook, Machine
  <2> QED
    BY <2>1, <2>2
<1>8. Tree(q, u) /\ \A v \in Page : \A l \in 0..Levels : Reach(q, v, l) = Reach(m, v, l)
  BY <1>4, <1>6, <1>7, TreeKept
<1>9. /\ Levels \in 0..Levels /\ Levels - 1 \in 0..Levels
      /\ WindowPage \in Page /\ WindowPt \in Page
      /\ \A l \in 0..(Levels - 1) : l \in 0..Levels
  BY PageTablesAssumption, BootAssumption
<1>10. Low(q, u) /\ (OwnTable(m) => OwnTable(q))
  BY <1>8, <1>9 DEF Low, OwnTable
<1>11. \A f \in FreeFrames(q) : f >= u /\ f \in U
  <2>1. \A f \in s..(s + z - 1) : f >= u
    BY <1>2
  <2>2. \A f \in FreeFrames(m) : f >= u /\ f \in U
    BY <1>4 DEF KernelBase
  <2> QED
    BY <1>5, <2>1, <2>2
<1>12. \A v \in Page : Reach(q, v, Levels) \notin FreeFrames(q)
  <2>1. \A f \in {NoFrame} \cup 0..(u - 1) : ~(f >= u)
    BY DEF NoFrame
  <2> QED
    BY <1>10, <1>11, <2>1 DEF Low
<1>13. ImageAt(q, u, t, cl, PagesOf(t))
  <2>1. \A p \in PagesOf(t) : Reach(q, VirtOf(t, p), Levels) = Reach(m, VirtOf(t, p), Levels)
    BY <1>8, <1>9, ImagePage
  <2>2. \A f : NotTable(m, f) => NotTable(q, f)
    BY <1>8, <1>9 DEF NotTable
  <2>3. \A f \in Frame : f < u /\ NotTable(m, f) => NotTable(q, f) /\ q.mem[f] = m.mem[f]
    BY <1>7, <2>2
  <2>4. ImageAt(m, u, t, cl, PagesOf(t)) /\ u <= u /\ u \in Nat
    BY <1>4 DEF KernelBase
  <2> QED
    BY <2>1, <2>3, <2>4, ImageKeeps, SMTT(30)
<1>14. KernelBase(q, u, t, cl, U, {}, {})
  <2>1. q.root # 0 /\ Reach(q, WindowPage, Levels - 1) # NoFrame
    BY <1>4, <1>6, <1>8, <1>9 DEF KernelBase
  <2> QED
    BY <1>5, <1>8, <1>11, <1>12, <1>13, <2>1 DEF KernelBase
<1>15. Identity(q, 0, u)
  <2>1. \A v \in 0..(u - 1) : v \in Page
    <3>1. \A v \in 0..(u - 1) : v \in Nat /\ v < Frames
      BY PageTablesAssumption
    <3> QED
      BY <3>1, LowPage
  <2> QED
    BY <1>8, <1>9, <2>1 DEF KernelInv, Identity
<1>16. Only(q, 0..(u - 1) \cup {WindowPage, WindowPt} \cup ImageSet(t, PagesOf(t)) \cup {} \cup {})
  BY <1>8, <1>9 DEF KernelInv, Only
<1> QED
  BY <1>1, <1>5, <1>10, <1>14, <1>15, <1>16 DEF KernelInv

\* The part of an entry that is not in use.
\* z frames from s on, above u, are in the k-th entry of tag n.
InEntry(w, n, k, u, s, z) ==
    /\ s \in Frame /\ s >= u /\ z \in Nat /\ z >= 1
    /\ s..(s + z - 1) \subseteq Frame \ Before(w, n, k)
    /\ s..(s + z - 1) \subseteq UsableOf(w)
    /\ s..(s + z - 1) \subseteq Before(w, n, k + 1)

\* The part of an entry above the memory in use.
LEMMA EntryBlock ==
  ASSUME NEW u \in Nat \ {0}, NEW w \in Machines, NEW n \in Nat, NEW k \in Nat,
         NEW e \in UsableEntries(w), e = <<n, k>>, NEW x \in Nat, NEW y \in Nat,
         EntryFrames(w, e) = x..(x + y - 1), x + y > u,
         NEW s, s = (IF x > u THEN x ELSE u)
  PROVE  InEntry(w, n, k, u, s, x + y - s)
<1> DEFINE z == x + y - s
<1>0. y >= 1
  <2>1. EntryFrames(w, <<n, k>>) # {}
    BY MachinesAssumption DEF MapsSound
  <2> QED
    BY <2>1
<1>1. s \in Nat \ {0} /\ s >= u /\ s >= x /\ s <= x + y - 1
  <2>1. CASE x > u
    BY <1>0, <2>1
  <2>2. CASE ~(x > u)
    BY <2>2
  <2> QED
    BY <2>1, <2>2
<1>2. z \in Nat /\ z >= 1 /\ s + z - 1 = x + y - 1
  BY <1>1
<1>3. s..(s + z - 1) \subseteq EntryFrames(w, <<n, k>>) /\ s \in s..(s + z - 1)
  BY <1>1, <1>2
<1>4. EntryFrames(w, <<n, k>>) \subseteq Frame
  BY MachinesAssumption DEF MapsSound
<1>5. /\ EntryFrames(w, <<n, k>>) \subseteq Before(w, n, k + 1)
      /\ EntryFrames(w, <<n, k>>) \cap Before(w, n, k) = {}
      /\ Before(w, n, k + 1) \subseteq UsableOf(w)
  <2>1. k + 1 \in Nat
    OBVIOUS
  <2> QED
    BY <2>1, BeforeSteps
<1> QED
  BY <1>1, <1>2, <1>3, <1>4, <1>5 DEF InEntry

\* The special pages are in the table of the window.
LEMMA SpecialReach ==
  ASSUME NEW m, Reach(m, WindowPage, Levels - 1) # NoFrame, NEW v \in SpecialPages
  PROVE  v \in Page /\ Reach(m, v, Levels - 1) # NoFrame
<1>1. Levels - 1 \in 0..Levels /\ Levels - 1 \in 0..(Levels - 1)
  BY PageTablesAssumption
<1>2. v \in Page /\ Same(v, WindowPage, Levels - 1)
  BY SpecialPage
<1>3. \A k \in 0..(Levels - 1) : Reach(m, v, k) = Reach(m, WindowPage, k)
  BY <1>1, <1>2, SameReach
<1> QED
  BY <1>1, <1>2, <1>3

\* What the lemmas about map_page need.
LEMMA KernelFacts ==
  ASSUME NEW m, NEW u \in Nat \ {0}, u <= Frames, NEW t, NEW cl, NEW U, NEW lo, NEW A, NEW P,
         KernelInv(m, u, t, cl, U, lo, A, P)
  PROVE  /\ Tree(m, u) /\ m \in Machine /\ HasFreeList(m)
         /\ Reach(m, WindowPage, Levels - 1) # NoFrame
         /\ FreeFrames(m) \subseteq Frame \ {0}
         /\ \A f \in FreeFrames(m) : f >= u
         /\ \A f \in FreeFrames(m) : f \in U
<1>1. /\ Tree(m, u) /\ m \in Machine /\ HasFreeList(m)
      /\ Reach(m, WindowPage, Levels - 1) # NoFrame
      /\ \A f \in FreeFrames(m) : f >= u /\ f \in U
  BY DEF KernelInv, KernelBase, Tree
<1> QED
  BY <1>1, FreeListFacts

\* The kernel maps a special page without a given frame.
LEMMA MapAnonStep ==
  ASSUME NEW m, NEW u \in Nat \ {0}, u <= Frames, NEW t, KernelSound(t), NEW cl,
         NEW U, U \subseteq Nat, NEW lo, NEW A, NEW P, KernelInv(m, u, t, cl, U, lo, A, P),
         A \subseteq SpecialPages, P \subseteq SpecialPages,
         NEW v \in SpecialPages, v \notin A \cup P \cup {WindowPage, WindowPt},
         ~OutOfMemory(m, v, 0, 1)
  PROVE  KernelInv(MapPage(m, v, 0, 1), u, t, cl, U, lo, A \cup {v}, P)
<1>1. /\ Tree(m, u) /\ HasFreeList(m) /\ FreeFrames(m) \subseteq Frame \ {0}
      /\ \A f \in FreeFrames(m) : f >= u
      /\ Reach(m, WindowPage, Levels - 1) # NoFrame
  BY KernelFacts
<1>2. v \in Page /\ Reach(m, v, Levels - 1) # NoFrame
  BY <1>1, SpecialReach
<1>3. Reach(m, v, Levels) = NoFrame
  <2>1. v \notin 0..(u - 1)
    <3>1. v >= Frames
      BY SpecialPage
    <3> QED
      BY <3>1, PageTablesAssumption
  <2>2. v \notin ImageSet(t, PagesOf(t))
    BY SpecialIsApart
  <2> QED
    BY <1>2, <2>1, <2>2 DEF KernelInv, Only
<1>4. 0 \in Frame /\ 0 \notin FreeFrames(m)
  BY <1>1, PageTablesAssumption DEF Frame
<1>5. m.free \in FreeFrames(m) /\ KernelMaps(m, u, MapPage(m, v, 0, 1), v, m.free)
  <2>1. /\ 0 = 0 => m.free \in FreeFrames(m)
        /\ KernelMaps(m, u, MapPage(m, v, 0, 1), v, IF 0 = 0 THEN m.free ELSE 0)
    BY <1>1, <1>2, <1>3, <1>4, MapPresentCases
  <2> QED
    BY <2>1
<1>6. A \subseteq Page /\ P \subseteq Page
  BY SpecialPage
<1> QED
  BY <1>5, <1>6, KernelAnon

\* The kernel maps a special page to a given frame.
LEMMA MapFixedStep ==
  ASSUME NEW m, NEW u \in Nat \ {0}, u <= Frames, NEW t, KernelSound(t), NEW cl,
         NEW U, U \subseteq Nat, NEW lo, NEW A, NEW P, KernelInv(m, u, t, cl, U, lo, A, P),
         A \subseteq SpecialPages, P \subseteq SpecialPages,
         NEW v \in SpecialPages, v \notin A \cup P,
         NEW g \in Frame \ {0}, g = FixedAt(v), g \notin U \/ g < u, ~OutOfMemory(m, v, g, 1)
  PROVE  KernelInv(MapPage(m, v, g, 1), u, t, cl, U, lo, A, P \cup {v})
<1>1. /\ Tree(m, u) /\ HasFreeList(m)
      /\ \A f \in FreeFrames(m) : f >= u
      /\ \A f \in FreeFrames(m) : f \in U
      /\ Reach(m, WindowPage, Levels - 1) # NoFrame
  BY KernelFacts
<1>2. v \in Page /\ Reach(m, v, Levels - 1) # NoFrame
  BY <1>1, SpecialReach
<1>3. g \notin FreeFrames(m)
  <2>1. g < u => ~(g >= u)
    BY DEF Frame
  <2> QED
    BY <1>1, <2>1
<1>4. KernelMaps(m, u, MapPage(m, v, g, 1), v, g)
  <2>1. KernelMaps(m, u, MapPage(m, v, g, 1), v, IF g = 0 THEN m.free ELSE g)
    BY <1>1, <1>2, <1>3, MapPresentCases
  <2> QED
    BY <2>1
<1>5. A \subseteq Page /\ P \subseteq Page
  BY SpecialPage
<1> QED
  BY <1>4, <1>5, KernelFixed

\* The kernel unmaps the next page of the identity mapping.
LEMMA UnmapStep ==
  ASSUME NEW m, NEW u \in Nat \ {0}, u <= Frames, NEW t, KernelSound(t), NEW cl,
         NEW U, U \subseteq Nat, NEW lo \in 0..(u - 1), NEW A, NEW P,
         KernelInv(m, u, t, cl, U, lo, A, P), A \subseteq SpecialPages, P \subseteq SpecialPages
  PROVE  KernelInv(MapPage(m, lo, 0, 0), u, t, cl, U, lo + 1, A, P)
<1>1. Tree(m, u) /\ HasFreeList(m) /\ \A f \in FreeFrames(m) : f >= u
  BY KernelFacts
<1>2. lo \in Page
  <2>1. lo \in Nat /\ lo < Frames
    BY PageTablesAssumption
  <2> QED
    BY <2>1, LowPage
<1>3. Reach(m, lo, Levels) = lo /\ lo # NoFrame
  <2>1. Reach(m, lo, Levels) = IF lo < lo THEN NoFrame ELSE lo
    BY DEF KernelInv, Identity
  <2> QED
    BY <2>1 DEF NoFrame
<1>4. Reach(m, lo, Levels - 1) # NoFrame
  <2>1. Levels - 1 \in 0..(Levels - 1) /\ (Levels - 1) + 1 = Levels
    BY PageTablesAssumption
  <2>2. Reach(m, lo, Levels - 1) \in Frame \cup {NoFrame}
    BY <1>1, <1>2, <2>1, TreeReach
  <2> QED
    BY <1>3, <2>1, <2>2, ReachNext
<1>5. KernelMaps(m, u, MapPage(m, lo, 0, 0), lo, NoFrame)
  BY <1>1, <1>2, <1>3, <1>4, TreeUnmap
<1> QED
  BY <1>5, KernelUnmap

-----------------------------------------------------------------------------
(***************************************************************************)
(* Every action keeps the invariant                                        *)
(***************************************************************************)

\* Facts that every step uses.
LEMMA Ground ==
  ASSUME CountersInv
  PROVE  /\ used \in Nat \ {0} /\ Frames \in Nat \ {0}
         /\ UsableOf(in) \subseteq Nat /\ ApicFrame \notin UsableOf(in)
<1>1. LoaderEnd \in Nat \ {0} /\ Frames \in Nat \ {0}
  BY BootAssumption, PageTablesAssumption DEF Frame
<1> QED
  BY <1>1, UsableFrames DEF CountersInv

\* FoundKernel keeps the invariant.
LEMMA FoundKernelStep ==
  ASSUME CountersInv, StageInv, FoundKernel, used' <= Frames
  PROVE  StageInv'
<1>1. CASE stage' = "load"
  <2>1. PICK m, u, t, cl : m = mach /\ u = used' /\ t = kernel /\ cl = cleared
    OBVIOUS
  <2>2. /\ m \in Machine /\ m.root = 0 /\ m.free = 0 /\ seg = 1 /\ i = 0
    BY <2>1 DEF StageInv, FoundKernel
  <2>3. KernelSound(t) /\ t.end <= u /\ u \in Nat
    <3>1. KernelSound(t) /\ u = ExtendUsed(used, t.end)
      BY <1>1, <2>1 DEF FoundKernel, CountersInv, Goto
    <3> QED
      BY <3>1 DEF ExtendUsed, KernelSound, CountersInv
  <2>4. Tree(m, u) /\ \A x \in Page : \A l \in 0..Levels : Reach(m, x, l) = NoFrame
    BY <2>2, <2>3, BlankTree
  <2>5. WindowPage \in Page /\ Levels \in 0..Levels /\ Levels - 1 \in 0..Levels
    BY BootAssumption, PageTablesAssumption
  <2>6. Loaded(t, 1, 0) = {}
    <3>1. 1 \in Nat \ {0} /\ 0 \in Nat
      OBVIOUS
    <3> QED
      BY <2>3, <3>1, LoadedSteps
  <2>7. Loading(m, u, t, cl, {})
    BY <2>2, <2>4, <2>5 DEF Loading, LoadInv, Low, Only, ImageAt
  <2>8. Loading(mach', used', kernel', cleared', Loaded(kernel', seg', i'))
    BY <2>1, <2>2, <2>6, <2>7 DEF FoundKernel
  <2> QED
    BY <1>1, <2>1, <2>3, <2>8 DEF StageInv, FoundKernel
<1>2. CASE stage' = "panic"
  BY <1>2 DEF StageInv
<1> QED
  BY <1>1, <1>2 DEF FoundKernel, Goto

\* LoadPage keeps the invariant.
LEMMA LoadPageStep ==
  ASSUME CountersInv, StageInv, LoadPage, used' \in Nat, used <= used', used' <= Frames
  PROVE  StageInv'
<1>1. PICK m, u, t, cl, s, n :
         m = mach /\ u = used /\ t = kernel /\ cl = cleared /\ s = seg /\ n = i
  OBVIOUS
<1>2. KernelSound(t) /\ t.end <= u /\ Loading(m, u, t, cl, Loaded(t, s, n))
  BY <1>1 DEF StageInv, LoadPage
<1>3. s \in Nat \ {0} /\ n \in Nat /\ u \in Nat \ {0}
  BY <1>1, Ground DEF CountersInv
<1>4. s <= Len(t.segments) /\ t.segments[s].load /\ 2 * n < t.segments[s].memsz
  BY <1>1 DEF LoadPage, Segments
<1>5. PICK S, p : S = Loaded(t, s, n) /\ p = <<s, n>>
  OBVIOUS
<1>6. p \in PagesOf(t) \ S /\ S \subseteq PagesOf(t) /\ Loaded(t, s, n + 1) = S \cup {p}
  BY <1>2, <1>3, <1>4, <1>5, LoadedSteps
<1>7. /\ FromFile(t, p) <=> 2 * n < t.segments[s].filesz
      /\ VirtOf(t, p) = t.segments[s].vaddr + n
      /\ FileFrame(t, p) = t.start + t.segments[s].offset + n
      /\ Ends(t, p) <=> t.segments[s].filesz < (2 * n) + 2
  BY <1>5 DEF FromFile, VirtOf, FileFrame, Ends
<1>8. stage' = "load" /\ kernel' = t /\ seg' = s /\ i' = n + 1
  BY <1>1 DEF LoadPage
<1>9. Loading(mach', used', t, cleared', S \cup {p})
  <2>1. CASE FromFile(t, p)
    <3>1. PICK r : r = LoaderMap(m, u, VirtOf(t, p), FileFrame(t, p))
      OBVIOUS
    <3>2. mach' = r.m /\ used' = r.used
      BY <1>1, <1>7, <2>1, <3>1 DEF LoadPage, DoLoaderMap, Segments
    <3>3. PICK c2 : c2 = cleared'
      OBVIOUS
    <3>4. cl \subseteq c2 /\ (Ends(t, p) => (2 * FileFrame(t, p)) + 1 \in c2)
      BY <1>1, <1>7, <2>1, <3>3 DEF LoadPage, Segments
    <3>5. r.used <= Frames
      BY <3>2
    <3>6. Loading(r.m, r.used, t, c2, S \cup {p})
      BY <1>2, <1>3, <1>5, <1>6, <2>1, <3>1, <3>4, <3>5, LoadFile
    <3> QED
      BY <3>2, <3>3, <3>6
  <2>2. CASE ~FromFile(t, p)
    <3>1. PICK r : r = LoaderMap(ZeroPage(m, u).m, u + 1, VirtOf(t, p), u)
      OBVIOUS
    <3>2. mach' = r.m /\ used' = r.used /\ cleared' = cl
      BY <1>1, <1>7, <2>2, <3>1 DEF LoadPage, DoLoaderMap, Segments, ZeroPage
    <3>3. r.used <= Frames
      BY <3>2
    <3>4. Loading(r.m, r.used, t, cl, S \cup {p})
      BY <1>2, <1>3, <1>5, <1>6, <2>2, <3>1, <3>3, LoadZero
    <3> QED
      BY <3>2, <3>4
  <2> QED
    BY <2>1, <2>2
<1>10. Loading(mach', used', kernel', cleared', Loaded(kernel', seg', i'))
  BY <1>6, <1>8, <1>9
<1>11. KernelSound(kernel') /\ kernel'.end <= used'
  <2>1. t.end \in Nat /\ used' \in Nat
    BY <1>2 DEF KernelSound
  <2> QED
    BY <1>1, <1>2, <1>3, <1>8, <2>1
<1> QED
  BY <1>8, <1>10, <1>11 DEF StageInv

\* NextSegment keeps the invariant.
LEMMA NextSegmentStep ==
  ASSUME CountersInv, StageInv, NextSegment
  PROVE  StageInv'
<1>1. PICK t, s, n : t = kernel /\ s = seg /\ n = i
  OBVIOUS
<1>2. KernelSound(t) /\ t.end <= used /\ Loading(mach, used, t, cleared, Loaded(t, s, n))
  BY <1>1 DEF StageInv, NextSegment
<1>3. Loaded(t, s + 1, 0) = Loaded(t, s, n)
  <2>1. s \in Nat \ {0} /\ n \in Nat
    BY <1>1 DEF CountersInv
  <2>2. s <= Len(t.segments) /\ (~t.segments[s].load \/ 2 * n >= t.segments[s].memsz)
    BY <1>1 DEF NextSegment, Segments
  <2> QED
    BY <1>2, <2>1, <2>2, LoadedSteps
<1>4. /\ stage' = "load" /\ mach' = mach /\ used' = used /\ cleared' = cleared
      /\ kernel' = t /\ seg' = s + 1 /\ i' = 0
  BY <1>1 DEF NextSegment
<1>5. Loading(mach', used', kernel', cleared', Loaded(kernel', seg', i'))
  BY <1>2, <1>3, <1>4
<1> QED
  BY <1>2, <1>4, <1>5 DEF StageInv

\* FindSymbols keeps the invariant.
LEMMA FindSymbolsStep ==
  ASSUME CountersInv, StageInv, FindSymbols
  PROVE  StageInv'
<1>1. CASE stage' = "window"
  <2>1. PICK t, s, n : t = kernel /\ s = seg /\ n = i
    OBVIOUS
  <2>2. KernelSound(t) /\ t.end <= used /\ Loading(mach, used, t, cleared, Loaded(t, s, n))
    BY <2>1 DEF StageInv, FindSymbols
  <2>3. Loaded(t, s, n) = PagesOf(t)
    <3>1. s \in Nat \ {0} /\ n \in Nat /\ s > Len(t.segments)
      BY <2>1 DEF CountersInv, FindSymbols, Segments
    <3> QED
      BY <2>2, <3>1, LoadedSteps
  <2>4. mach' = mach /\ used' = used /\ cleared' = cleared /\ kernel' = t
    BY <2>1 DEF FindSymbols
  <2>5. Loading(mach', used', kernel', cleared', PagesOf(kernel'))
    BY <2>2, <2>3, <2>4
  <2> QED
    BY <1>1, <2>2, <2>4, <2>5 DEF StageInv
<1>2. CASE stage' = "panic"
  BY <1>2 DEF StageInv
<1> QED
  BY <1>1, <1>2 DEF FindSymbols, Goto

\* kernel.end is still below the memory in use.
LEMMA KernelStays ==
  ASSUME NEW t, KernelSound(t), NEW a \in Nat, t.end <= a, NEW b \in Nat, a <= b
  PROVE  t.end <= b
  BY DEF KernelSound

\* MapWindow keeps the invariant.
LEMMA MapWindowStep ==
  ASSUME CountersInv, StageInv, MapWindow, used' \in Nat, used <= used', used' <= Frames
  PROVE  StageInv'
<1>1. PICK m, u, t, cl : m = mach /\ u = used /\ t = kernel /\ cl = cleared
  OBVIOUS
<1>2. KernelSound(t) /\ t.end <= u /\ Loading(m, u, t, cl, PagesOf(t)) /\ u \in Nat \ {0}
  BY <1>1, Ground DEF StageInv, MapWindow
<1>3. PICK r : r = LoaderMap(m, u, WindowPage, 0)
  OBVIOUS
<1>4. /\ stage' = "window_pt" /\ mach' = r.m /\ used' = r.used /\ kernel' = t /\ cleared' = cl
  BY <1>1, <1>3 DEF MapWindow, DoLoaderMap, Goto
<1>5. r.used <= Frames
  BY <1>4
<1>6. AtWindowPt(r.m, r.used, t, cl)
  BY <1>2, <1>3, <1>5, WindowStep DEF AtWindowPt
<1>7. AtWindowPt(mach', used', kernel', cleared')
  BY <1>4, <1>6
<1>8. kernel'.end <= used'
  BY <1>1, <1>2, <1>4, KernelStays
<1> QED
  BY <1>2, <1>4, <1>7, <1>8 DEF StageInv

\* MapWindowPt keeps the invariant.
LEMMA MapWindowPtStep ==
  ASSUME CountersInv, StageInv, MapWindowPt, used' \in Nat, used <= used', used' <= Frames
  PROVE  StageInv'
<1>1. PICK m, u, t, cl : m = mach /\ u = used /\ t = kernel /\ cl = cleared
  OBVIOUS
<1>2. KernelSound(t) /\ t.end <= u /\ AtWindowPt(m, u, t, cl) /\ u \in Nat \ {0}
  BY <1>1, Ground DEF StageInv, MapWindowPt
<1>3. PICK r : r = LoaderMap(m, u, WindowPt, u - 1)
  OBVIOUS
<1>4. /\ stage' = "identity" /\ mach' = r.m /\ used' = r.used /\ kernel' = t /\ cleared' = cl
      /\ i' = 0
  BY <1>1, <1>3 DEF MapWindowPt, DoLoaderMap, Goto
<1>5. r.used <= Frames /\ 0 <= r.used
  BY <1>4
<1>6. AtIdentity(r.m, r.used, t, cl, 0)
  BY <1>2, <1>3, <1>5, WindowPtStep DEF AtWindowPt, AtIdentity
<1>7. AtIdentity(mach', used', kernel', cleared', i')
  BY <1>4, <1>6
<1>8. kernel'.end <= used'
  BY <1>1, <1>2, <1>4, KernelStays
<1> QED
  BY <1>2, <1>4, <1>7, <1>8 DEF StageInv

\* IdentityPage keeps the invariant.
LEMMA IdentityPageStep ==
  ASSUME CountersInv, StageInv, IdentityPage, used' \in Nat, used <= used', used' <= Frames
  PROVE  StageInv'
<1>1. PICK m, u, t, cl, n : m = mach /\ u = used /\ t = kernel /\ cl = cleared /\ n = i
  OBVIOUS
<1>2. KernelSound(t) /\ t.end <= u /\ AtIdentity(m, u, t, cl, n) /\ u \in Nat \ {0} /\ n \in Nat
  BY <1>1, Ground DEF StageInv, IdentityPage, CountersInv
<1>3. PICK r : r = LoaderMap(m, u, n, n)
  OBVIOUS
<1>4. /\ stage' = "identity" /\ mach' = r.m /\ used' = r.used /\ kernel' = t /\ cleared' = cl
      /\ i' = n + 1 /\ n < u
  BY <1>1, <1>3 DEF IdentityPage, DoLoaderMap, IdentityBound
<1>5. r.used <= Frames /\ n + 1 <= r.used
  BY <1>1, <1>2, <1>4
<1>6. AtIdentity(r.m, r.used, t, cl, n + 1)
  BY <1>2, <1>3, <1>4, <1>5, IdentityStep DEF AtIdentity
<1>7. AtIdentity(mach', used', kernel', cleared', i')
  BY <1>4, <1>6
<1>8. kernel'.end <= used'
  BY <1>1, <1>2, <1>4, KernelStays
<1> QED
  BY <1>2, <1>4, <1>7, <1>8 DEF StageInv

\* EnterKernel keeps the invariant.
LEMMA EnterKernelStep ==
  ASSUME CountersInv, StageInv, EnterKernel, used <= Frames
  PROVE  StageInv'
<1>1. PICK m, u, t, cl, w : m = mach /\ u = used /\ t = kernel /\ cl = cleared /\ w = in
  OBVIOUS
<1>2. KernelSound(t) /\ t.end <= u /\ AtIdentity(m, u, t, cl, u) /\ u \in Nat \ {0}
  <2>1. i = u
    BY <1>1 DEF EnterKernel, IdentityBound, StageInv, AtIdentity, CountersInv
  <2> QED
    BY <1>1, <2>1, Ground DEF StageInv, EnterKernel
<1>3. /\ stage' = "early" /\ mach' = m /\ used' = u /\ kernel' = t /\ cleared' = cl /\ in' = w
      /\ tag' = 1 /\ seg' = 1 /\ i' = 0
  BY <1>1 DEF EnterKernel, Goto
<1>4. KernelInv(m, u, t, cl, UsableOf(w), 0, {}, {}) /\ Low(m, u) /\ FreeFrames(m) = {}
  BY <1>1, <1>2, HandOver DEF AtIdentity
<1>5. AtEarly(m, u, t, cl, w, 1, 1)
  BY <1>2, <1>4 DEF AtEarly, AtIdentity
<1>6. AtEarly(mach', used', kernel', cleared', in', tag', seg')
  BY <1>3, <1>5
<1> QED
  BY <1>2, <1>3, <1>6 DEF StageInv

\* AddEntry keeps the invariant.
LEMMA AddEntryStep ==
  ASSUME CountersInv, StageInv, AddEntry, used <= Frames
  PROVE  StageInv'
<1>1. PICK m, u, t, cl, w, x, y :
         /\ m = mach /\ u = used /\ t = kernel /\ cl = cleared /\ w = in
         /\ x = tag /\ y = seg
  OBVIOUS
<1>2. /\ KernelSound(t) /\ t.end <= u /\ AtEarly(m, u, t, cl, w, x, y)
      /\ u \in Nat \ {0} /\ u <= Frames /\ w \in Machines /\ x \in Nat \ {0} /\ y \in Nat \ {0}
  BY <1>1, Ground DEF StageInv, AddEntry, CountersInv
<1>3. /\ stage' = "early" /\ used' = u /\ kernel' = t /\ cleared' = cl /\ in' = w
      /\ tag' = x /\ seg' = y + 1 /\ i' = 0
  BY <1>1 DEF AddEntry, StageInv
<1>4. AtEarly(mach', u, t, cl, w, x, y + 1)
  <2>1. CASE ~(Entry.type = 1 /\ Entry.base + Entry.length > used)
    <3>1. mach' = m
      BY <1>1, <2>1 DEF AddEntry
    <3>2. Before(w, x, y) \subseteq Before(w, x, y + 1)
      BY <1>2, BeforeSteps
    <3>3. AtEarly(m, u, t, cl, w, x, y + 1)
      BY <1>2, <3>2 DEF AtEarly
    <3> QED
      BY <3>1, <3>3
  <2>2. CASE Entry.type = 1 /\ Entry.base + Entry.length > used
    <3>1. PICK e, b, n : e = w.tags[x].entries[y] /\ b = e.base /\ n = e.length
      OBVIOUS
    <3>2. PICK s, z : s = (IF b > u THEN b ELSE u) /\ z = b + n - s
      OBVIOUS
    <3>3. mach' = PushBlock(m, s, z) /\ b + n > u /\ e.type = 1
      BY <1>1, <2>2, <3>1, <3>2 DEF AddEntry, UsablePart, Entry
    <3>4. x \in 1..Len(w.tags) /\ w.tags[x].type = "memory_map" /\ y \in 1..Len(w.tags[x].entries)
      <4>1. Len(w.tags) \in Nat /\ x <= Len(w.tags) /\ w.tags[x].type = "memory_map"
        BY <1>1, <1>2, MachinesAssumption DEF AddEntry
      <4>2. x \in 1..Len(w.tags)
        BY <1>2, <4>1
      <4>3. Len(w.tags[x].entries) \in Nat
        BY <1>2, <4>1, <4>2, MachinesAssumption DEF MapsSound
      <4>4. y <= Len(w.tags[x].entries)
        BY <1>1 DEF AddEntry
      <4> QED
        BY <1>2, <4>1, <4>2, <4>3, <4>4
    <3>5. b \in Nat /\ n \in Nat
      BY <1>2, <3>1, <3>4, MachinesAssumption DEF MapsSound
    <3>6. <<x, y>> \in UsableEntries(w)
      BY <3>1, <3>3, <3>4, EntryIsUsable
    <3>7. EntryFrames(w, <<x, y>>) = b..(b + n - 1)
      BY <3>1 DEF EntryFrames
    <3>8. InEntry(w, x, y, u, s, z)
      <4>1. /\ x \in Nat /\ y \in Nat /\ u \in Nat \ {0} /\ w \in Machines
            /\ b + n > u /\ s = (IF b > u THEN b ELSE u)
        BY <1>2, <3>2, <3>3
      <4>2. PICK d : d = <<x, y>>
        OBVIOUS
      <4>3. d \in UsableEntries(w) /\ EntryFrames(w, d) = b..(b + n - 1)
        BY <3>6, <3>7, <4>2
      <4>4. InEntry(w, x, y, u, s, b + n - s)
        BY <3>5, <4>1, <4>2, <4>3, EntryBlock
      <4> QED
        BY <3>2, <4>4
    <3>a. /\ s \in Frame /\ s >= u /\ z \in Nat /\ z >= 1
          /\ s..(s + z - 1) \subseteq Frame \ Before(w, x, y)
          /\ s..(s + z - 1) \subseteq UsableOf(w)
          /\ s..(s + z - 1) \subseteq Before(w, x, y + 1)
      BY <3>8 DEF InEntry
    <3>9. /\ KernelInv(m, u, t, cl, UsableOf(w), 0, {}, {}) /\ Low(m, u) /\ OwnTable(m)
          /\ FreeFrames(m) \subseteq Before(w, x, y)
      BY <1>2 DEF AtEarly
    <3>10. s..(s + z - 1) \subseteq Frame \ FreeFrames(m)
      BY <3>a, <3>9
    <3>11. PICK q, U : q = PushBlock(m, s, z) /\ U = UsableOf(w)
      OBVIOUS
    <3>12. /\ KernelInv(q, u, t, cl, U, 0, {}, {}) /\ Low(q, u)
           /\ OwnTable(m) => OwnTable(q)
           /\ FreeFrames(q) = FreeFrames(m) \cup s..(s + z - 1)
      BY <1>2, <3>a, <3>9, <3>10, <3>11, AddBlock
    <3>13. Before(w, x, y) \subseteq Before(w, x, y + 1)
      BY <1>2, BeforeSteps
    <3>14. AtEarly(q, u, t, cl, w, x, y + 1)
      BY <3>a, <3>9, <3>11, <3>12, <3>13 DEF AtEarly
    <3> QED
      BY <3>3, <3>11, <3>14
  <2> QED
    BY <2>1, <2>2
<1>5. AtEarly(mach', used', kernel', cleared', in', tag', seg')
  BY <1>3, <1>4
<1> QED
  BY <1>2, <1>3, <1>5 DEF StageInv

\* SkipTag keeps the invariant.
LEMMA SkipTagStep ==
  ASSUME CountersInv, StageInv, SkipTag
  PROVE  StageInv'
<1>1. PICK m, u, t, cl, w, x, y :
         /\ m = mach /\ u = used /\ t = kernel /\ cl = cleared /\ w = in
         /\ x = tag /\ y = seg
  OBVIOUS
<1>2. /\ KernelSound(t) /\ t.end <= u /\ AtEarly(m, u, t, cl, w, x, y)
      /\ w \in Machines /\ x \in Nat /\ y \in Nat
  BY <1>1 DEF StageInv, SkipTag, CountersInv
<1>3. /\ stage' = "early" /\ mach' = m /\ used' = u /\ kernel' = t /\ cleared' = cl /\ in' = w
      /\ tag' = x + 1 /\ seg' = 1 /\ i' = 0
  BY <1>1 DEF SkipTag, StageInv
<1>4. Before(w, x, y) \subseteq Before(w, x + 1, 1)
  BY <1>2, BeforeSteps
<1>5. AtEarly(m, u, t, cl, w, x + 1, 1)
  BY <1>2, <1>4 DEF AtEarly
<1>6. AtEarly(mach', used', kernel', cleared', in', tag', seg')
  BY <1>3, <1>5
<1> QED
  BY <1>2, <1>3, <1>6 DEF StageInv

\* map_page in the kernel either gives up or changes the machine.
LEMMA KernelMapCases ==
  ASSUME NEW v, NEW g, NEW f, NEW s, KernelMap(v, g, f, s)
  PROVE  \/ stage' = "panic"
         \/ stage' = s /\ mach' = MapPage(mach, v, g, f) /\ ~OutOfMemory(mach, v, g, f)
  BY DEF KernelMap, Goto

\* Which pages are special.
LEMMA Specials ==
  /\ StackPage \in SpecialPages /\ ApicPage \in SpecialPages /\ TablePages \subseteq SpecialPages
  /\ FirstMb \in Nat \ {0} /\ FirstMbPage \in Nat /\ FirstMbPage \in SpecialPages
  /\ \A k \in 0..(FirstMb - 1) : FirstMbPage + k \in FirstMbPages
  /\ FirstMbPages \subseteq SpecialPages
<1>1. FirstMb \in Nat \ {0}
  BY BootAssumption, PageTablesAssumption DEF Frame
<1>2. \A k \in 0..(FirstMb - 1) : FirstMbPage + k \in FirstMbPages
  BY DEF FirstMbPages
<1>3. FirstMbPages \subseteq SpecialPages
  BY DEF SpecialPages
<1>4. FirstMbPage \in FirstMbPages /\ FirstMbPage \in Nat
  <2>1. 0 \in 0..(FirstMb - 1)
    BY <1>1
  <2>2. FirstMbPage + 0 \in FirstMbPages /\ FirstMbPage + 0 \in Page
    BY <1>2, <1>3, <2>1, SpecialPage
  <2>3. FirstMbPage \in Nat
    BY BootAssumption DEF Page
  <2> QED
    BY <2>2, <2>3
<1> QED
  BY <1>1, <1>2, <1>3, <1>4 DEF SpecialPages

\* The pages of the first megabyte, one by one.
LEMMA FirstMbSteps ==
  ASSUME NEW n \in 0..FirstMb
  PROVE  /\ FirstMbUp(0) = {} /\ FirstMbUp(1) = {}
         /\ FirstMbUp(n) \subseteq FirstMbPages \ {FirstMbPage}
         /\ FirstMbPage + n \notin FirstMbUp(n)
         /\ n > 0 => /\ FirstMbPage + n # FirstMbPage
                     /\ FirstMbUp(n + 1) = FirstMbUp(n) \cup {FirstMbPage + n}
<1>1. FirstMb \in Nat \ {0} /\ FirstMbPage \in Nat
  BY Specials
<1>2. FirstMbUp(0) = {} /\ FirstMbUp(1) = {}
  BY DEF FirstMbUp
<1>3. FirstMbUp(n) \subseteq FirstMbPages \ {FirstMbPage}
  BY <1>1 DEF FirstMbUp, FirstMbPages
<1>4. FirstMbPage + n \notin FirstMbUp(n)
  BY <1>1 DEF FirstMbUp
<1>5. ASSUME n > 0 PROVE FirstMbUp(n + 1) = FirstMbUp(n) \cup {FirstMbPage + n}
  <2>1. 1..((n + 1) - 1) = 1..(n - 1) \cup {n}
    BY <1>5
  <2> QED
    BY <2>1 DEF FirstMbUp
<1> QED
  BY <1>1, <1>2, <1>3, <1>4, <1>5

\* MapStack keeps the invariant.
LEMMA MapStackStep ==
  ASSUME CountersInv, StageInv, MapStack, used <= Frames
  PROVE  StageInv'
<1>1. PICK m, u, t, cl, w, U : /\ m = mach /\ u = used /\ t = kernel /\ cl = cleared
                               /\ w = in /\ U = UsableOf(in)
  OBVIOUS
<1>2. /\ KernelSound(t) /\ t.end <= u /\ KernelInv(m, u, t, cl, U, 0, {}, {})
      /\ u \in Nat \ {0} /\ u <= Frames /\ U \subseteq Nat
  BY <1>1, Ground DEF StageInv, MapStack, AtEarly
<1>3. used' = u /\ kernel' = t /\ cleared' = cl /\ in' = w /\ i' = 0
  BY <1>1 DEF MapStack, StageInv
<1>4. CASE stage' = "first_mb" /\ mach' = MapPage(mach, StackPage, 0, 1)
             /\ ~OutOfMemory(mach, StackPage, 0, 1)
  <2>1. PICK q : q = MapPage(m, StackPage, 0, 1)
    OBVIOUS
  <2>2. StackPage \in SpecialPages /\ StackPage \notin {} \cup {} \cup {WindowPage, WindowPt}
    BY Specials, LinkerAssumption
  <2>3. ~OutOfMemory(m, StackPage, 0, 1)
    BY <1>1, <1>4
  <2>4. KernelInv(q, u, t, cl, U, 0, {} \cup {StackPage}, {})
    BY <1>2, <2>1, <2>2, <2>3, MapAnonStep
  <2>5. AnonUp(0) = {} \cup {StackPage} /\ FirstMbUp(0) = {} /\ 0 <= FirstMb
    BY Specials, FirstMbSteps DEF AnonUp, FirstMbUp
  <2>6. AtFirstMb(q, u, t, cl, w, 0)
    BY <1>1, <2>4, <2>5 DEF AtFirstMb
  <2>7. AtFirstMb(mach', used', kernel', cleared', in', i')
    BY <1>1, <1>3, <1>4, <2>1, <2>6
  <2> QED
    BY <1>2, <1>3, <1>4, <2>7 DEF StageInv
<1>5. CASE stage' = "panic"
  BY <1>5 DEF StageInv
<1> QED
  BY <1>4, <1>5, KernelMapCases DEF MapStack

\* MapFirstMb keeps the invariant.
LEMMA MapFirstMbStep ==
  ASSUME CountersInv, StageInv, MapFirstMb, used <= Frames
  PROVE  StageInv'
<1>1. PICK m, u, t, cl, w, U, n : /\ m = mach /\ u = used /\ t = kernel /\ cl = cleared
                                  /\ w = in /\ U = UsableOf(in) /\ n = i
  OBVIOUS
<1>2. /\ KernelSound(t) /\ t.end <= u /\ KernelInv(m, u, t, cl, U, 0, AnonUp(n), FirstMbUp(n))
      /\ u \in Nat \ {0} /\ u <= Frames /\ U \subseteq Nat /\ n \in Nat /\ n < FirstMb
  BY <1>1, Ground DEF StageInv, MapFirstMb, AtFirstMb, CountersInv
<1>3. used' = u /\ kernel' = t /\ cleared' = cl /\ in' = w /\ i' = n + 1
  BY <1>1 DEF MapFirstMb
<1>4. CASE /\ stage' = "first_mb" /\ mach' = MapPage(mach, FirstMbPage + i, i, 1)
           /\ ~OutOfMemory(mach, FirstMbPage + i, i, 1)
  <2>1. PICK q : q = MapPage(m, FirstMbPage + n, n, 1)
    OBVIOUS
  <2>2. ~OutOfMemory(m, FirstMbPage + n, n, 1)
    BY <1>1, <1>4
  <2>3. /\ n \in 0..FirstMb /\ n \in 0..(FirstMb - 1) /\ n + 1 <= FirstMb /\ n + 1 # 0
        /\ FirstMb \in Nat \ {0} /\ FirstMbPage \in Nat
    BY <1>2, Specials
  <2>4. /\ FirstMbPage + n \in SpecialPages /\ FirstMbPage + n \in FirstMbPages
        /\ FirstMbPage + n \notin {StackPage, WindowPage, WindowPt, ApicPage}
        /\ AnonUp(n) \subseteq SpecialPages /\ FirstMbUp(n) \subseteq SpecialPages
    BY <2>3, Specials, FirstMbSteps, LinkerAssumption DEF AnonUp
  <2>5. KernelInv(q, u, t, cl, U, 0, AnonUp(n + 1), FirstMbUp(n + 1))
    <3>1. CASE n = 0
      <4>1. /\ AnonUp(n + 1) = AnonUp(n) \cup {FirstMbPage} /\ FirstMbUp(n + 1) = FirstMbUp(n)
            /\ FirstMbPage + n = FirstMbPage /\ FirstMbUp(n) = {} /\ AnonUp(n) = {StackPage}
        BY <2>3, <3>1, FirstMbSteps DEF AnonUp, FirstMbUp
      <4>2. FirstMbPage \notin AnonUp(n) \cup FirstMbUp(n) \cup {WindowPage, WindowPt}
        BY <2>4, <4>1
      <4>3. ~OutOfMemory(m, FirstMbPage, 0, 1) /\ q = MapPage(m, FirstMbPage, 0, 1)
        BY <2>1, <2>2, <3>1, <4>1
      <4>4. KernelInv(q, u, t, cl, U, 0, AnonUp(n) \cup {FirstMbPage}, FirstMbUp(n))
        BY <1>2, <2>4, <4>2, <4>3, Specials, MapAnonStep
      <4> QED
        BY <4>1, <4>4
    <3>2. CASE n # 0
      <4>1. PICK v : v = FirstMbPage + n
        OBVIOUS
      <4>2. AnonUp(n + 1) = AnonUp(n) /\ FirstMbUp(n + 1) = FirstMbUp(n) \cup {v}
        BY <2>3, <3>2, <4>1, FirstMbSteps DEF AnonUp
      <4>3. v \notin AnonUp(n) \cup FirstMbUp(n) /\ v \in SpecialPages
        BY <2>3, <2>4, <3>2, <4>1, FirstMbSteps DEF AnonUp
      <4>4. n = FixedAt(v)
        BY <2>3, <2>4, <4>1 DEF FixedAt
      <4>5. n \in Frame \ {0} /\ n < u
        <5>1. FirstMb <= LoaderEnd /\ LoaderEnd \in Nat /\ LoaderEnd <= used /\ Frames \in Nat
          BY BootAssumption, PageTablesAssumption DEF CountersInv, Frame
        <5> QED
          BY <1>1, <1>2, <2>3, <3>2, <5>1 DEF Frame
      <4>6. ~OutOfMemory(m, v, n, 1) /\ q = MapPage(m, v, n, 1)
        BY <2>1, <2>2, <4>1
      <4>7. KernelInv(q, u, t, cl, U, 0, AnonUp(n), FirstMbUp(n) \cup {v})
        BY <1>2, <2>4, <4>3, <4>4, <4>5, <4>6, MapFixedStep
      <4> QED
        BY <4>2, <4>7
    <3> QED
      BY <3>1, <3>2
  <2>6. AtFirstMb(q, u, t, cl, w, n + 1)
    BY <1>1, <2>3, <2>5 DEF AtFirstMb
  <2>7. AtFirstMb(mach', used', kernel', cleared', in', i')
    BY <1>1, <1>3, <1>4, <2>1, <2>6
  <2> QED
    BY <1>2, <1>3, <1>4, <2>7 DEF StageInv
<1>5. CASE stage' = "panic"
  BY <1>5 DEF StageInv
<1> QED
  BY <1>4, <1>5, KernelMapCases DEF MapFirstMb

\* FirstMbDone keeps the invariant.
LEMMA FirstMbDoneStep ==
  ASSUME CountersInv, StageInv, FirstMbDone
  PROVE  StageInv'
<1>1. PICK m, u, t, cl, w : m = mach /\ u = used /\ t = kernel /\ cl = cleared /\ w = in
  OBVIOUS
<1>2. KernelSound(t) /\ t.end <= u /\ AtFirstMb(m, u, t, cl, w, FirstMb) /\ u \in Nat
  BY <1>1 DEF StageInv, FirstMbDone, CountersInv
<1>3. /\ stage' = "unmap" /\ mach' = m /\ used' = u /\ kernel' = t /\ cleared' = cl /\ in' = w
      /\ i' = 0
  BY <1>1 DEF FirstMbDone, Goto
<1>4. AnonUp(FirstMb) = AnonUp(1)
  BY Specials DEF AnonUp
<1>5. AtUnmap(m, u, t, cl, w, 0)
  BY <1>2, <1>4 DEF AtFirstMb, AtUnmap
<1>6. AtUnmap(mach', used', kernel', cleared', in', i')
  BY <1>3, <1>5
<1> QED
  BY <1>2, <1>3, <1>6 DEF StageInv

\* The pages mapped so far are special ones.
LEMMA UpPages ==
  /\ AnonUp(1) = {StackPage, FirstMbPage} /\ AnonUp(1) \subseteq SpecialPages
  /\ FirstMbUp(FirstMb) \subseteq FirstMbPages \ {FirstMbPage}
  /\ FirstMbUp(FirstMb) \subseteq SpecialPages
<1>1. FirstMb \in 0..FirstMb
  BY Specials
<1>2. FirstMbUp(FirstMb) \subseteq FirstMbPages \ {FirstMbPage}
  BY <1>1, FirstMbSteps
<1>3. AnonUp(1) = {StackPage, FirstMbPage}
  BY DEF AnonUp
<1> QED
  BY <1>2, <1>3, Specials

\* UnmapIdentity keeps the invariant.
LEMMA UnmapIdentityStep ==
  ASSUME CountersInv, StageInv, UnmapIdentity, used <= Frames
  PROVE  StageInv'
<1>1. PICK m, u, t, cl, w, U, n : /\ m = mach /\ u = used /\ t = kernel /\ cl = cleared
                                  /\ w = in /\ U = UsableOf(in) /\ n = i
  OBVIOUS
<1>2. /\ KernelSound(t) /\ t.end <= u
      /\ KernelInv(m, u, t, cl, U, n, AnonUp(1), FirstMbUp(FirstMb))
      /\ u \in Nat \ {0} /\ u <= Frames /\ U \subseteq Nat /\ n \in 0..(u - 1) /\ n + 1 <= u
  BY <1>1, Ground DEF StageInv, UnmapIdentity, AtUnmap, CountersInv
<1>3. used' = u /\ kernel' = t /\ cleared' = cl /\ in' = w /\ i' = n + 1
  BY <1>1 DEF UnmapIdentity
<1>4. CASE stage' = "unmap" /\ mach' = MapPage(mach, i, 0, 0)
  <2>1. PICK q : q = MapPage(m, n, 0, 0)
    OBVIOUS
  <2>2. KernelInv(q, u, t, cl, U, n + 1, AnonUp(1), FirstMbUp(FirstMb))
    BY <1>2, <2>1, UpPages, UnmapStep
  <2>3. AtUnmap(q, u, t, cl, w, n + 1)
    BY <1>1, <1>2, <2>2 DEF AtUnmap
  <2>4. AtUnmap(mach', used', kernel', cleared', in', i')
    BY <1>1, <1>3, <1>4, <2>1, <2>3
  <2> QED
    BY <1>2, <1>3, <1>4, <2>4 DEF StageInv
<1>5. CASE stage' = "panic"
  BY <1>5 DEF StageInv
<1> QED
  BY <1>4, <1>5, KernelMapCases DEF UnmapIdentity

\* UnmapDone keeps the invariant.
LEMMA UnmapDoneStep ==
  ASSUME CountersInv, StageInv, UnmapDone
  PROVE  StageInv'
<1>1. PICK m, u, t, cl, w : m = mach /\ u = used /\ t = kernel /\ cl = cleared /\ w = in
  OBVIOUS
<1>2. KernelSound(t) /\ t.end <= u /\ AtUnmap(m, u, t, cl, w, u)
  BY <1>1 DEF StageInv, UnmapDone
<1>3. /\ stage' = "devices" /\ mach' = m /\ used' = u /\ kernel' = t /\ cleared' = cl /\ in' = w
  BY <1>1 DEF UnmapDone, Goto
<1>4. AnonUp(1) = AnonUp(1) \cup {}
  OBVIOUS
<1>5. KernelInv(m, u, t, cl, UsableOf(w), u, AnonUp(1) \cup {}, FirstMbUp(FirstMb))
  BY <1>2, <1>4 DEF AtUnmap
<1>6. AtDevices(m, u, t, cl, w)
  BY <1>5 DEF AtDevices
<1>7. AtDevices(mach', used', kernel', cleared', in')
  BY <1>3, <1>6
<1> QED
  BY <1>2, <1>3, <1>7 DEF StageInv

\* A page with a frame of its own, or with a fixed one, is mapped.
LEMMA UpIsMapped ==
  ASSUME NEW m, NEW u \in Nat, NEW t, NEW cl, NEW U, U \subseteq Nat, NEW lo, NEW A, NEW P,
         KernelInv(m, u, t, cl, U, lo, A, P), NEW v \in A
  PROVE  Reach(m, v, Levels) # NoFrame
<1>1. Reach(m, v, Levels) \in Nat
  BY DEF KernelInv, KernelBase, Anon
<1> QED
  BY <1>1 DEF NoFrame

\* The translation in terms of Reach.
LEMMA TranslationIs ==
  ASSUME NEW m, m.root # 0, NEW v \in Page
  PROVE  Translation(m)[v] = Reach(m, v, Levels)
  BY DEF Translation, Reach

\* MapTables keeps the invariant.
LEMMA MapTablesStep ==
  ASSUME CountersInv, StageInv, MapTables, used <= Frames
  PROVE  StageInv'
<1>1. PICK m, u, t, cl, w, U : /\ m = mach /\ u = used /\ t = kernel /\ cl = cleared
                               /\ w = in /\ U = UsableOf(in)
  OBVIOUS
<1>2. /\ KernelSound(t) /\ t.end <= u /\ AtDevices(m, u, t, cl, w)
      /\ u \in Nat \ {0} /\ u <= Frames /\ U \subseteq Nat
  BY <1>1, Ground DEF StageInv, MapTables
<1>3. PICK B \in SUBSET TablePages :
         KernelInv(m, u, t, cl, U, u, AnonUp(1) \cup B, FirstMbUp(FirstMb))
  BY <1>1, <1>2 DEF AtDevices
<1>4. used' = u /\ kernel' = t /\ cleared' = cl /\ in' = w
  BY <1>1 DEF MapTables
<1>5. PICK v \in TablePages : Translation(m)[v] = NoFrame /\ KernelMap(v, 0, 1, "devices")
  BY <1>1 DEF MapTables
<1>6. CASE /\ stage' = "devices" /\ mach' = MapPage(mach, v, 0, 1)
           /\ ~OutOfMemory(mach, v, 0, 1)
  <2>1. PICK q : q = MapPage(m, v, 0, 1)
    OBVIOUS
  <2>2. ~OutOfMemory(m, v, 0, 1)
    BY <1>1, <1>6
  <2>3. v \in SpecialPages /\ v \in Page
    BY Specials, SpecialPage
  <2>4. m.root # 0
    BY <1>3 DEF KernelInv, KernelBase
  <2>5. v \notin AnonUp(1) \cup B
    BY <1>2, <1>3, <1>5, <2>3, <2>4, TranslationIs, UpIsMapped
  <2>6. v \notin FirstMbUp(FirstMb) /\ v # WindowPage /\ v # WindowPt
    BY UpPages, LinkerAssumption
  <2>7. /\ AnonUp(1) \cup B \subseteq SpecialPages /\ FirstMbUp(FirstMb) \subseteq SpecialPages
        /\ v \notin (AnonUp(1) \cup B) \cup FirstMbUp(FirstMb) \cup {WindowPage, WindowPt}
    BY <2>5, <2>6, UpPages, Specials
  <2>8. KernelInv(q, u, t, cl, U, u, (AnonUp(1) \cup B) \cup {v}, FirstMbUp(FirstMb))
    BY <1>2, <1>3, <2>1, <2>2, <2>3, <2>7, MapAnonStep
  <2>9. (AnonUp(1) \cup B) \cup {v} = AnonUp(1) \cup (B \cup {v}) /\ B \cup {v} \in SUBSET TablePages
    OBVIOUS
  <2>10. AtDevices(q, u, t, cl, w)
    BY <1>1, <2>8, <2>9 DEF AtDevices
  <2>11. AtDevices(mach', used', kernel', cleared', in')
    BY <1>1, <1>4, <1>6, <2>1, <2>10
  <2> QED
    BY <1>2, <1>4, <1>6, <2>11 DEF StageInv
<1>7. CASE stage' = "panic"
  BY <1>7 DEF StageInv
<1> QED
  BY <1>5, <1>6, <1>7, KernelMapCases

\* MapApic keeps the invariant.
LEMMA MapApicStep ==
  ASSUME CountersInv, StageInv, MapApic, used <= Frames
  PROVE  StageInv'
<1>1. PICK m, u, t, cl, w, U : /\ m = mach /\ u = used /\ t = kernel /\ cl = cleared
                               /\ w = in /\ U = UsableOf(in)
  OBVIOUS
<1>2. /\ KernelSound(t) /\ t.end <= u /\ AtDevices(m, u, t, cl, w)
      /\ u \in Nat \ {0} /\ u <= Frames /\ U \subseteq Nat /\ ApicFrame \notin U
  BY <1>1, Ground DEF StageInv, MapApic
<1>3. PICK B \in SUBSET TablePages :
         KernelInv(m, u, t, cl, U, u, AnonUp(1) \cup B, FirstMbUp(FirstMb))
  BY <1>1, <1>2 DEF AtDevices
<1>4. used' = u /\ kernel' = t /\ cleared' = cl /\ in' = w
  BY <1>1 DEF MapApic
<1>5. B = TablePages
  <2>1. SUFFICES ASSUME NEW v \in TablePages PROVE v \in B
    OBVIOUS
  <2>2. v \in SpecialPages /\ v \in Page /\ v >= Frames /\ v \notin ImageSet(t, PagesOf(t))
    BY <1>2, Specials, SpecialPage, SpecialIsApart
  <2>3. v \notin 0..(u - 1)
    BY <1>2, <2>2, Ground DEF Page
  <2>4. m.root # 0
    BY <1>3 DEF KernelInv, KernelBase
  <2>5. Reach(m, v, Levels) # NoFrame
    BY <1>1, <2>2, <2>4, TranslationIs DEF MapApic
  <2>6. v \notin AnonUp(1) \cup FirstMbUp(FirstMb) \cup {WindowPage, WindowPt}
    BY UpPages, Specials, LinkerAssumption
  <2>7. Only(m, 0..(u - 1) \cup {WindowPage, WindowPt} \cup ImageSet(t, PagesOf(t))
                  \cup (AnonUp(1) \cup B) \cup FirstMbUp(FirstMb))
    BY <1>3 DEF KernelInv
  <2> QED
    BY <2>2, <2>3, <2>5, <2>6, <2>7 DEF Only
<1>6. CASE /\ stage' = "running" /\ mach' = MapPage(mach, ApicPage, ApicFrame, 1)
           /\ ~OutOfMemory(mach, ApicPage, ApicFrame, 1)
  <2>1. PICK q : q = MapPage(m, ApicPage, ApicFrame, 1)
    OBVIOUS
  <2>2. ~OutOfMemory(m, ApicPage, ApicFrame, 1)
    BY <1>1, <1>6
  <2>3. PICK A, P : A = AnonUp(1) \cup TablePages /\ P = FirstMbUp(FirstMb)
    OBVIOUS
  <2>4. A \subseteq SpecialPages /\ P \subseteq SpecialPages /\ ApicPage \notin A \cup P
    <3>1. /\ A \subseteq SpecialPages /\ P \subseteq SpecialPages
      BY <2>3, UpPages, Specials
    <3>2. ApicPage \notin TablePages \cup FirstMbPages /\ ApicPage # StackPage
      BY LinkerAssumption
    <3>3. FirstMbPage \in FirstMbPages
      <4>1. 0 \in 0..(FirstMb - 1) /\ FirstMbPage + 0 = FirstMbPage
        BY Specials
      <4> QED
        BY <4>1, Specials
    <3> QED
      BY <2>3, <3>1, <3>2, <3>3, UpPages
  <2>5. ApicPage \in SpecialPages /\ ApicFrame \in Frame \ {0} /\ ApicFrame = FixedAt(ApicPage)
    BY Specials, BootAssumption DEF FixedAt
  <2>6. KernelInv(q, u, t, cl, U, u, A, P \cup {ApicPage})
    BY <1>2, <1>3, <1>5, <2>1, <2>2, <2>3, <2>4, <2>5, MapFixedStep
  <2>7. AtRunning(q, u, t, cl, w)
    BY <1>1, <2>3, <2>6 DEF AtRunning
  <2>8. AtRunning(mach', used', kernel', cleared', in')
    BY <1>1, <1>4, <1>6, <2>1, <2>7
  <2> QED
    BY <1>2, <1>4, <1>6, <2>8 DEF StageInv
<1>7. CASE stage' = "panic"
  BY <1>7 DEF StageInv
<1> QED
  BY <1>6, <1>7, KernelMapCases DEF MapApic

-----------------------------------------------------------------------------
(***************************************************************************)
(* The theorems about the address space                                    *)
(***************************************************************************)

\* The invariant is kept by every step, as long as the loader's memory is there.
LEMMA StageStep ==
  ASSUME CountersInv, StageInv, [StartupNext]_startupVars, used' <= Frames
  PROVE  StageInv'
<1>0. used' \in Nat /\ used <= used' /\ used <= Frames
  <2>1. CountersInv' /\ used' >= used
    BY CountersStep
  <2> QED
    BY <2>1, Ground DEF CountersInv
<1>1. CASE Check
  BY <1>1 DEF Check, Goto, StageInv
<1>2. CASE ReadTag
  BY <1>2 DEF ReadTag, StageInv
<1>3. CASE FoundKernel
  BY <1>3, FoundKernelStep
<1>4. CASE LoadPage
  BY <1>0, <1>4, LoadPageStep
<1>5. CASE NextSegment
  BY <1>5, NextSegmentStep
<1>6. CASE FindSymbols
  BY <1>6, FindSymbolsStep
<1>7. CASE MapWindow
  BY <1>0, <1>7, MapWindowStep
<1>8. CASE MapWindowPt
  BY <1>0, <1>8, MapWindowPtStep
<1>9. CASE IdentityPage
  BY <1>0, <1>9, IdentityPageStep
<1>10. CASE EnterKernel
  BY <1>0, <1>10, EnterKernelStep
<1>11. CASE AddEntry
  BY <1>0, <1>11, AddEntryStep
<1>12. CASE UnknownMap
  BY <1>12 DEF UnknownMap, Goto, StageInv
<1>13. CASE SkipTag
  BY <1>13, SkipTagStep
<1>14. CASE MapStack
  BY <1>0, <1>14, MapStackStep
<1>15. CASE MapFirstMb
  BY <1>0, <1>15, MapFirstMbStep
<1>16. CASE FirstMbDone
  BY <1>16, FirstMbDoneStep
<1>17. CASE UnmapIdentity
  BY <1>0, <1>17, UnmapIdentityStep
<1>18. CASE UnmapDone
  BY <1>18, UnmapDoneStep
<1>19. CASE MapTables
  BY <1>0, <1>19, MapTablesStep
<1>20. CASE MapApic
  BY <1>0, <1>20, MapApicStep
<1>21. CASE SearchTables
  BY <1>21 DEF SearchTables, StageInv
<1>22. CASE UNCHANGED startupVars
  BY <1>22 DEF startupVars, bootVars, StageInv
<1> QED
  BY <1>1, <1>2, <1>3, <1>4, <1>5, <1>6, <1>7, <1>8, <1>9, <1>10, <1>11, <1>12, <1>13,
     <1>14, <1>15, <1>16, <1>17, <1>18, <1>19, <1>20, <1>21, <1>22 DEF StartupNext, BootNext

\* Tables and translations in terms of Reach.
LEMMA TablesAre ==
  ASSUME NEW m, m.root # 0
  PROVE  /\ \A f : f \in Tables(m) => \E x \in Page : \E l \in 0..(Levels - 1) : f = Reach(m, x, l)
         /\ NoFrame \notin Tables(m)
  BY DEF Tables, Reach

\* The tables are in the memory in use.
LEMMA TablesAreLow ==
  ASSUME NEW m, NEW u \in Nat, Tree(m, u), m.root # 0, NEW f \in Tables(m)
  PROVE  f \in Nat /\ f < u
<1>1. PICK x \in Page, l \in 0..(Levels - 1) : f = Reach(m, x, l)
  BY TablesAre
<1>2. f # NoFrame
  BY TablesAre
<1> QED
  BY <1>1, <1>2 DEF Tree

\* The image is where its headers say.
LEMMA ImageIsMapped ==
  ASSUME mach.root # 0, ImageAt(mach, used, kernel, cleared, PagesOf(kernel)), KernelSound(kernel)
  PROVE  ImageMapped
<1>1. PICK m, u, t, cl : m = mach /\ u = used /\ t = kernel /\ cl = cleared
  OBVIOUS
<1>2. m.root # 0 /\ ImageAt(m, u, t, cl, PagesOf(t)) /\ KernelSound(t)
  BY <1>1
<1>3. \A p \in PagesOf(t) : Translation(m)[VirtOf(t, p)] = Reach(m, VirtOf(t, p), Levels)
  BY <1>2, ImagePage, TranslationIs
<1>4. ASSUME NEW p \in PagesOf(t)
      PROVE  IF FromFile(t, p)
               THEN /\ Translation(m)[VirtOf(t, p)] = FileFrame(t, p)
                    /\ (Ends(t, p) => (2 * FileFrame(t, p)) + 1 \in cl)
               ELSE /\ Translation(m)[VirtOf(t, p)] \in t.end..(u - 1)
                    /\ Translation(m)[VirtOf(t, p)] \notin Tables(m)
                    /\ m.mem[Translation(m)[VirtOf(t, p)]] = ZeroFrame
                    /\ \A q \in PagesOf(t) :
                         q # p => Translation(m)[VirtOf(t, q)] # Translation(m)[VirtOf(t, p)]
  <2>1. PICK f : f = Reach(m, VirtOf(t, p), Levels)
    OBVIOUS
  <2>2. Translation(m)[VirtOf(t, p)] = f
    BY <1>3, <2>1
  <2>3. CASE FromFile(t, p)
    BY <1>2, <2>1, <2>2, <2>3 DEF ImageAt
  <2>4. CASE ~FromFile(t, p)
    <3>1. /\ f \in t.end..(u - 1) /\ NotTable(m, f) /\ m.mem[f] = ZeroFrame
          /\ \A q \in PagesOf(t) : q # p => Reach(m, VirtOf(t, q), Levels) # f
      BY <1>2, <2>1, <2>4 DEF ImageAt
    <3>2. f \notin Tables(m)
      BY <1>2, <3>1, TablesAre DEF NotTable
    <3>3. \A q \in PagesOf(t) : q # p => Translation(m)[VirtOf(t, q)] # f
      BY <1>3, <3>1
    <3> QED
      BY <2>2, <2>4, <3>1, <3>2, <3>3
  <2> QED
    BY <2>3, <2>4
<1> QED
  BY <1>1, <1>4 DEF ImageMapped, ImagePages, ImageVirt, InFile, FilePage, Segments,
                    FromFile, FileFrame, Ends

\* The invariant implies LoaderHandsOver.
LEMMA HandsOver ==
  ASSUME CountersInv, StageInv, used <= Frames
  PROVE  LoaderHandsOver
<1>1. SUFFICES ASSUME stage = "early" PROVE
        LET T == Translation(mach)
        IN  /\ LoaderFits
            /\ \A v \in 0..(used - 1) : T[v] = v
            /\ ImageMapped
            /\ T[WindowPt] = Walk(mach, WindowPage)[Levels - 1]
            /\ \A v \in Page :
                  v >= used /\ v \notin {ImageVirt(p) : p \in ImagePages}
                            /\ v \notin {WindowPage, WindowPt}
                      => T[v] = NoFrame
  BY DEF LoaderHandsOver
<1>2. PICK m, u, t, cl : m = mach /\ u = used /\ t = kernel /\ cl = cleared
  OBVIOUS
<1>3. KernelSound(t) /\ AtEarly(m, u, t, cl, in, tag, seg) /\ u \in Nat \ {0} /\ u <= Frames
  BY <1>1, <1>2, Ground DEF StageInv
<1>4. /\ m.root # 0 /\ ImageAt(m, u, t, cl, PagesOf(t)) /\ OwnTable(m) /\ Identity(m, 0, u)
      /\ Only(m, 0..(u - 1) \cup {WindowPage, WindowPt} \cup ImageSet(t, PagesOf(t)))
  BY <1>3 DEF AtEarly, KernelInv, KernelBase
<1>5. \A v \in 0..(u - 1) : Translation(m)[v] = v
  <2>1. SUFFICES ASSUME NEW v \in 0..(u - 1) PROVE Translation(m)[v] = v
    OBVIOUS
  <2>2. v \in Nat /\ v < Frames
    BY <1>3, Ground
  <2>3. v \in Page
    BY <2>2, LowPage
  <2> QED
    BY <1>4, <2>2, <2>3, TranslationIs DEF Identity
<1>6. ImageMapped
  BY <1>2, <1>3, <1>4, ImageIsMapped
<1>7. Translation(m)[WindowPt] = Walk(m, WindowPage)[Levels - 1]
  <2>1. WindowPt \in Page
    BY BootAssumption
  <2> QED
    BY <1>4, <2>1, TranslationIs DEF OwnTable, Reach
<1>8. ASSUME NEW v \in Page, v >= u, v \notin ImageSet(t, PagesOf(t)), v \notin {WindowPage, WindowPt}
      PROVE  Translation(m)[v] = NoFrame
  <2>1. v \notin 0..(u - 1)
    BY <1>3, <1>8 DEF Page
  <2> QED
    BY <1>4, <1>8, <2>1, TranslationIs DEF Only
<1> QED
  BY <1>2, <1>5, <1>6, <1>7, <1>8 DEF LoaderFits, ImageSet, ImagePages, ImageVirt

\* What the kernel's stages have in common.
LEMMA FreeIsFree ==
  ASSUME NEW m, NEW u \in Nat, NEW t, NEW cl, NEW U, NEW lo, NEW A, NEW P,
         KernelInv(m, u, t, cl, U, lo, A, P)
  PROVE  /\ \A f \in FreeFrames(m) : f >= u /\ f \in U
         /\ FreeFrames(m) \cap Tables(m) = {}
         /\ \A v \in Page : Translation(m)[v] \notin FreeFrames(m)
<1>1. /\ Tree(m, u) /\ m.root # 0
      /\ \A f \in FreeFrames(m) : f >= u /\ f \in U
      /\ \A v \in Page : Reach(m, v, Levels) \notin FreeFrames(m)
  BY DEF KernelInv, KernelBase
<1>2. ASSUME NEW f \in FreeFrames(m), f \in Tables(m) PROVE FALSE
  <2>1. f \in Nat /\ f < u /\ f >= u
    BY <1>1, <1>2, TablesAreLow
  <2> QED
    BY <2>1
<1>3. \A v \in Page : Translation(m)[v] \notin FreeFrames(m)
  BY <1>1, TranslationIs
<1> QED
  BY <1>1, <1>2, <1>3

\* The invariant implies FreeMemoryIsFree.
LEMMA FreeMemory ==
  ASSUME CountersInv, StageInv
  PROVE  FreeMemoryIsFree
<1>1. SUFFICES ASSUME stage \in {"early", "first_mb", "unmap", "devices", "running"}
               PROVE  \E lo, A, P : KernelInv(mach, used, kernel, cleared, UsableOf(in), lo, A, P)
  <2>1. used \in Nat /\ UsableOf(in) = Usable
    BY DEF CountersInv, Usable, UsableOf
  <2> QED
    BY <2>1, FreeIsFree DEF FreeMemoryIsFree
<1> QED
  BY <1>1 DEF StageInv, AtEarly, AtFirstMb, AtUnmap, AtDevices, AtRunning

\* The invariant implies KernelAddressSpace.
LEMMA SpaceIsRight ==
  ASSUME CountersInv, StageInv, used <= Frames
  PROVE  KernelAddressSpace
<1>1. SUFFICES ASSUME stage = "running" PROVE
        LET T    == Translation(mach)
            anon == {StackPage, FirstMbPage} \cup TablePages
            firstMb == {FirstMbPage + k : k \in 1..(FirstMb - 1)}
        IN  /\ ImageMapped
            /\ \A v \in firstMb : T[v] = v - FirstMbPage
            /\ T[ApicPage] = ApicFrame
            /\ \A v \in anon :
                  /\ T[v] \in Usable /\ T[v] >= used /\ T[v] \notin Tables(mach)
                  /\ \A u \in Page : T[u] = T[v] => u = v
            /\ \A v \in Page :
                  v \notin anon \cup firstMb \cup {ApicPage, WindowPage, WindowPt}
                             \cup {ImageVirt(p) : p \in ImagePages}
                      => T[v] = NoFrame
  BY DEF KernelAddressSpace
<1>2. PICK m, u, t, cl, U : m = mach /\ u = used /\ t = kernel /\ cl = cleared /\ U = Usable
  OBVIOUS
<1>3. PICK A, P : A = {StackPage, FirstMbPage} \cup TablePages
                  /\ P = {FirstMbPage + k : k \in 1..(FirstMb - 1)}
  OBVIOUS
<1>4. KernelSound(t) /\ u \in Nat \ {0} /\ u <= Frames /\ KernelInv(m, u, t, cl, U, u, A, P \cup {ApicPage})
  <2>1. Usable = UsableOf(in) /\ AnonUp(1) \cup TablePages = A /\ FirstMbUp(FirstMb) = P
    BY <1>3, UpPages DEF Usable, UsableOf, FirstMbUp
  <2> QED
    BY <1>1, <1>2, <2>1, Ground DEF StageInv, AtRunning
<1>5. /\ m.root # 0 /\ Tree(m, u) /\ ImageAt(m, u, t, cl, PagesOf(t)) /\ Identity(m, u, u)
      /\ \A v \in A : Anon(m, u, U, v)
      /\ \A v \in P \cup {ApicPage} : Reach(m, v, Levels) = FixedAt(v)
      /\ Only(m, 0..(u - 1) \cup {WindowPage, WindowPt} \cup ImageSet(t, PagesOf(t))
                  \cup A \cup (P \cup {ApicPage}))
  BY <1>4 DEF KernelInv, KernelBase
<1>6. ImageMapped
  BY <1>2, <1>4, <1>5, ImageIsMapped
<1>7. /\ A \subseteq Page /\ P \subseteq FirstMbPages /\ FirstMbPages \subseteq Page
      /\ ApicPage \in Page /\ ApicPage \notin FirstMbPages
  BY <1>3, BootAssumption, LinkerAssumption DEF FirstMbPages
<1>8. \A v \in P : Translation(m)[v] = v - FirstMbPage
  BY <1>5, <1>7, TranslationIs DEF FixedAt
<1>9. Translation(m)[ApicPage] = ApicFrame
  BY <1>5, <1>7, TranslationIs DEF FixedAt
<1>10. ASSUME NEW v \in A
       PROVE  /\ Translation(m)[v] \in U /\ Translation(m)[v] >= u
              /\ Translation(m)[v] \notin Tables(m)
              /\ \A x \in Page : Translation(m)[x] = Translation(m)[v] => x = v
  <2>1. PICK f : f = Reach(m, v, Levels)
    OBVIOUS
  <2>2. Translation(m)[v] = f
    BY <1>5, <1>7, <2>1, TranslationIs
  <2>3. f \in U /\ f >= u /\ \A x \in Page : Reach(m, x, Levels) = f => x = v
    BY <1>5, <2>1 DEF Anon
  <2>4. \A x \in Page : Translation(m)[x] = f => x = v
    BY <1>5, <2>3, TranslationIs
  <2>5. f \notin Tables(m)
    <3>1. f \in Tables(m) => f \in Nat /\ f < u
      BY <1>4, <1>5, TablesAreLow
    <3> QED
      BY <1>4, <2>3, <3>1
  <2> QED
    BY <2>2, <2>3, <2>4, <2>5
<1>11. ASSUME NEW v \in Page,
              v \notin A \cup P \cup {ApicPage, WindowPage, WindowPt} \cup ImageSet(t, PagesOf(t))
       PROVE  Translation(m)[v] = NoFrame
  <2>1. Translation(m)[v] = Reach(m, v, Levels)
    BY <1>5, TranslationIs
  <2>2. CASE v \in 0..(u - 1)
    BY <1>4, <1>5, <2>1, <2>2 DEF Identity
  <2>3. CASE v \notin 0..(u - 1)
    BY <1>5, <1>11, <2>1, <2>3 DEF Only
  <2> QED
    BY <2>2, <2>3
<1> QED
  BY <1>2, <1>3, <1>6, <1>8, <1>9, <1>10, <1>11 DEF ImageSet, ImagePages, ImageVirt

\* The inductive invariant: as long as the loader's memory is memory that the
\* machine has, the address space is the one of the stage.
SpaceInv == CountersInv /\ (LoaderFits => StageInv)

\* SpaceInv is an invariant of the whole boot.
LEMMA SpaceIsKept == StartupSpec => []SpaceInv
<1>1. StartupInit => SpaceInv
  BY SpaceInit DEF SpaceInv
<1>2. SpaceInv /\ [StartupNext]_startupVars => SpaceInv'
  <2>1. SUFFICES ASSUME SpaceInv, [StartupNext]_startupVars PROVE SpaceInv'
    OBVIOUS
  <2>2. CountersInv
    BY <2>1 DEF SpaceInv
  <2>3. CountersInv' /\ used' >= used
    BY <2>1, <2>2, CountersStep
  <2>4. ASSUME used' <= Frames PROVE StageInv'
    <3>1. used <= Frames
      BY <2>2, <2>3, <2>4, Ground DEF CountersInv
    <3>2. StageInv
      BY <2>1, <3>1 DEF SpaceInv, LoaderFits
    <3> QED
      BY <2>1, <2>2, <2>4, <3>2, StageStep
  <2> QED
    BY <2>3, <2>4 DEF SpaceInv, LoaderFits
<1> QED
  BY <1>1, <1>2, PTL DEF StartupSpec

\* Whatever the image, the memory in use and the number of levels are, the loader
\* hands over what the kernel relies on: all memory in use mapped to itself, also
\* the tables that the identity loop allocates while its bound moves; the image at
\* its addresses; the table of the window at _phys_window_pt; and nothing else.
THEOREM LoaderHandsOverIsRight == StartupSpec => [](LoaderFits => LoaderHandsOver)
<1>1. SpaceInv => (LoaderFits => LoaderHandsOver)
  BY HandsOver DEF SpaceInv, LoaderFits
<1> QED
  BY <1>1, SpaceIsKept, PTL

\* Whatever the memory map is, early_main frees only usable memory above the one in
\* use, and no frame is free and a page table or mapped at the same time, from the
\* first entry until the kernel runs.
THEOREM FreeMemoryStaysFree == StartupSpec => [](LoaderFits => FreeMemoryIsFree)
<1>1. SpaceInv => (LoaderFits => FreeMemoryIsFree)
  BY FreeMemory DEF SpaceInv, LoaderFits
<1> QED
  BY <1>1, SpaceIsKept, PTL

\* When main is done the address space is the one that the kernel means: the image
\* is still there, the identity mapping is gone to the last page, and the stack, the
\* descriptor tables and the page for address 0 share their frames with nothing.
THEOREM KernelSpaceIsRight == StartupSpec => [](LoaderFits => KernelAddressSpace)
<1>1. SpaceInv => (LoaderFits => KernelAddressSpace)
  BY SpaceIsRight DEF SpaceInv, LoaderFits
<1> QED
  BY <1>1, SpaceIsKept, PTL
=============================================================================
