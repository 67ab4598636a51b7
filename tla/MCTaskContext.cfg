\* Two workers and the boot task, in each of the three modes.
CONSTANTS
    Workers = {w1, w2}
    BootTask = boot
    VtimeMod = 6
    Cycles = {0, 1, 3}
SPECIFICATION ContextSpec
SYMMETRY Symmetry
INVARIANTS
    FindsOwnRegisters
    TotalCoversTasks
CHECK_DEADLOCK FALSE
