------------------------------ MODULE Startup -------------------------------
(* The whole of main: the address space of Boot, then the tables of Acpi.     *)
EXTENDS Boot, Acpi

startupVars == <<bootVars, acpiVars>>

StartupInit == BootInit /\ AcpiInit

SearchTables ==
    /\ stage \in {"running", "tables"} /\ stage' = "tables"
    /\ AcpiNext
    /\ UNCHANGED <<in, mach, used, tag, kernel, seg, i, cleared>>

StartupNext == (BootNext /\ UNCHANGED acpiVars) \/ SearchTables

StartupSpec ==
    StartupInit /\ [][StartupNext]_startupVars /\ WF_startupVars(StartupNext)

\* Every boot ends, in main's last loop or in a panic: no loop over the tags,
\* over the pages, over the identity mapping with its growing bound or over the
\* tables goes on for ever.
BootEnds == <>(stage = "panic" \/ pc \in {"panic", "intloop", "damaged"})
=============================================================================
