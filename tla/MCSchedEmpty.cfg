\* Every worker may terminate, so that the queue can run empty.
CONSTANTS
    Workers = {w1, w2}
    BootTask = boot
    Immortal = {}
    KillOthers = FALSE
    NumTasksMod = 8
SPECIFICATION SchedSpec
SYMMETRY Symmetry
INVARIANT NothingToDoPanics
CHECK_DEADLOCK FALSE
