------------------------------ MODULE MCMapper ------------------------------
(***************************************************************************)
(* Mapper for TLC: two entries per table and three levels.  The loader has *)
(* built the tables of the upper half of the address space, pages 4..7, in *)
(* frames 1..4, and mapped page 7 to frame 0, which belongs to the BIOS;   *)
(* the last frame belongs to a device.                                     *)
(***************************************************************************)
EXTENDS Mapper

MCInitMem ==
    [f \in Frame |->
        [i \in 0..1 |->
            CASE f = 1 /\ i = 1 -> PageEntry(2, 1)
              [] f = 2 /\ i = 0 -> PageEntry(3, 1)
              [] f = 2 /\ i = 1 -> PageEntry(4, 1)
              [] f = 4 /\ i = 1 -> PageEntry(0, 1)
              [] OTHER -> 0]]

MCRegions == {<<5, 2>>, <<7, 1>>}

\* Pages 4..6 are mapped to anonymous frames and to the device.  Page 5 may
\* also get an anonymous frame with PAGE_F_BIT.
MCMappings == ({4, 5, 6} \X {0, 8} \X {1}) \cup {<<5, 0, 3>>}
=============================================================================
