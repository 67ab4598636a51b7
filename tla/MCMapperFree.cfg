\* The page that is mapped with PAGE_F_BIT is unmapped.
CONSTANTS
    Entries = 2
    Levels = 3
    Frames = 9
    Root = 1
    InitMem <- MCInitMem
    Regions <- MCRegions
    Mappings <- MCMappings
    UnmapPages = {5}
SPECIFICATION MapperSpec
INVARIANT
    FreeFramesUnused
CHECK_DEADLOCK FALSE
