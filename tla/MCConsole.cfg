\* One or two tasks print on a screen of two rows.
CONSTANTS
    Width = 2
    Height = 2
    Tab = 2
    Tasks = {t1, t2}
    Messages <- MCMessages
    Panics <- MCPanics
    Colors = {10}
    MaxCalls = 4
    MaxSwitches = 3
SPECIFICATION ConsoleSpec
SYMMETRY Symmetry
INVARIANTS
    ScreenShowsPage
    CursorReturns
    DriftIsBounded
CHECK_DEADLOCK FALSE
