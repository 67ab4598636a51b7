------------------------------- MODULE MCBoot -------------------------------
EXTENDS Startup

\* Pages of 8 entries in 3 levels: the special pages fill the last table.
MCTablePages == {509, 508}

Segment(load, vaddr, offset, filesz, memsz) ==
    [load |-> load, vaddr |-> vaddr, offset |-> offset,
     filesz |-> filesz, memsz |-> memsz]

Module(segments, symbols) ==
    [type |-> "module", beaveros |-> TRUE, aligned |-> TRUE, header |-> TRUE,
     start |-> 4, end |-> 8, symbols |-> symbols, segments |-> segments]

Text == Segment(TRUE, 448, 0, 2, 2)
Data == Segment(TRUE, 449, 1, 3, 3)
DataBss == Segment(TRUE, 449, 1, 3, 7)
Bss == Segment(TRUE, 455, 3, 0, 3)
Note == Segment(FALSE, 460, 0, 2, 2)

\* The symbols are in the last page of the module, or behind the data.
Kernels ==
    {Module(s, {14}) : s \in {<<Text>>, <<Text, Note, Data>>, <<Text, DataBss>>,
                              <<Bss, Text>>, <<Text, Data, Bss>>}}
    \cup {Module(<<Text, Data>>, {13, 14}), Module(<<Text>>, {})}
    \cup {[Module(<<Text>>, {14}) EXCEPT !.header = FALSE],
          [Module(<<Text>>, {14}) EXCEPT !.aligned = FALSE]}

OtherModule ==
    [Module(<<Text>>, {14}) EXCEPT !.beaveros = FALSE, !.start = 8, !.end = 9]

Region(base, length, type) == [base |-> base, length |-> length, type |-> type]
Map(entries) == [type |-> "memory_map", known |-> TRUE, entries |-> entries]

\* Memory in use, a hole, and usable memory that begins below, at and above the
\* end of the memory in use; too little memory; an unknown version.
Maps ==
    {Map(<<Region(0, 2, 1), Region(2, 38, 1)>>),
     Map(<<Region(0, 14, 1), Region(14, 16, 2), Region(30, 6, 1)>>),
     Map(<<Region(30, 3, 1), Region(2, 20, 1), Region(35, 5, 1)>>),
     Map(<<Region(2, 12, 1), Region(36, 2, 1)>>),
     [Map(<<>>) EXCEPT !.known = FALSE]}

Other == [type |-> "other"]

MCMachines ==
    {[bootable |-> TRUE, infoEnd |-> e, tags |-> <<Other, k, m, OtherModule>>] :
        e \in {4, 13}, k \in Kernels, m \in Maps}
    \cup {[bootable |-> b, infoEnd |-> 4, tags |-> <<m>>] :
            b \in BOOLEAN, m \in Maps}

\* Root pointers of version 0 and 2, with good and bad checksums, or of another
\* version; a table at 10 that lists the others.
Root(sum, version, sum2) ==
    [sum |-> sum, version |-> version, sum2 |-> sum2, rsdt |-> 10, xsdt |-> 20]

RootSeqs ==
    {<<>>, <<Root(TRUE, 0, FALSE)>>, <<Root(TRUE, 2, FALSE), Root(TRUE, 1, TRUE)>>,
     <<Root(FALSE, 0, TRUE), Root(TRUE, 2, TRUE)>>}

AcpiTable(signature, lists) == [signature |-> signature, lists |-> lists]

\* Addresses 11 and 12 hold an MCFG, 13 to 15 an MADT, 16 another table.
Lists ==
    {<<16, 13, 11>>, <<12, 16, 14>>, <<13, 14, 11, 15>>, <<13, 16>>, <<11, 12, 13>>, <<>>}

MCFirmwares ==
    {[rsdps |-> r,
      table |-> [a \in {10, 20} |-> AcpiTable("RSDT", l)]
                @@ [a \in {11} |-> AcpiTable("MCFG", <<31>>)]
                @@ [a \in {12} |-> AcpiTable("MCFG", <<31, 32, 33>>)]
                @@ [a \in {13, 14, 15} |-> AcpiTable("APIC", <<>>)]
                @@ [a \in {16} |-> AcpiTable("FACP", <<10>>)]] :
        <<r, l>> \in (RootSeqs \X {<<16, 13, 11>>}) \cup ({<<Root(TRUE, 0, FALSE)>>} \X Lists)}
=============================================================================
