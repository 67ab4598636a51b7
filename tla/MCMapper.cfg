\* Pages are mapped, replaced and unmapped; the page that is mapped with
\* PAGE_F_BIT is replaced but not unmapped.
CONSTANTS
    Entries = 2
    Levels = 3
    Frames = 9
    Root = 1
    InitMem <- MCInitMem
    Regions <- MCRegions
    Mappings <- MCMappings
    UnmapPages = {0, 4, 6}
SPECIFICATION MapperSpec
INVARIANTS
    FreeListSound
    FreeFramesUnused
    AnonFramesPrivate
PROPERTY
    MapperIsAddressSpace
CHECK_DEADLOCK FALSE
