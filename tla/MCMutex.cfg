\* Three workers contend for one mutex and may terminate themselves.
CONSTANTS
    Workers = {w1, w2, w3}
    BootTask = boot
    Immortal = {}
    KillOthers = FALSE
    NumTasksMod = 8
SPECIFICATION Spec
SYMMETRY Symmetry
INVARIANTS
    MutualExclusion
    SpinlockOwned
    WaitersAreParked
    LostOnlyInWait
    NumTasksCoversLive
    NoDivideError
