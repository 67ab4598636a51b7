\* The wake-up of a waiter and the run queue.
CONSTANTS
    Workers = {w1, w2}
    BootTask = boot
    Immortal = {}
    KillOthers = FALSE
    NumTasksMod = 8
SPECIFICATION Spec
SYMMETRY Symmetry
INVARIANT InQueueMeansQueued
