\* Three workers that start and terminate one another, one of them immortal.
CONSTANTS
    Workers = {w1, w2, w3}
    BootTask = boot
    Immortal = {w1}
    KillOthers = TRUE
    NumTasksMod = 8
SPECIFICATION SchedSpec
SYMMETRY Symmetry
INVARIANTS
    TypeOK
    OneContextPerTask
    NoTaskLost
    IsrNeverSpins
    QueueNeverUnderflows
    TerminateNeverReturns
PROPERTY TerminatedStaysOff
