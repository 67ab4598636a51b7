SPECIFICATION LibSpec
CONSTANTS
    Half = 32
    HalfOf <- MCHalfOf
    WidthMod = 16
    PtrDigits = 4
    PrintCalls <- MCPrintCalls
    MemSize = 5
    CharHalf = 2
INVARIANTS
    PrintsValue
    DivisionExact
    StringFunctions
CHECK_DEADLOCK FALSE
