SPECIFICATION StartupSpec
CONSTANTS
    Entries = 8
    Levels = 3
    Frames = 41
    Machines <- MCMachines
    Garbage = 13
    LoaderEnd = 3
    FirstMb = 2
    WindowPage = 511
    WindowPt = 510
    TablePages <- MCTablePages
    ApicPage = 507
    ApicFrame = 40
    StackPage = 506
    FirstMbPage = 504
    Firmwares <- MCFirmwares
    HeapFrame = 1
    Beyond = 0
INVARIANTS
    LoaderHandsOver
    FreeMemoryIsFree
    KernelAddressSpace
    AcpiTablesFound
PROPERTY
    BootEnds
CHECK_DEADLOCK FALSE
