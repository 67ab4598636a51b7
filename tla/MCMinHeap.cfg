\* Up to six entries of four tasks; the spread of vtime is below half an int.
CONSTANTS
    Item <- MCItem
    Less <- MCLess
    Nothing = Nothing
    MaxSize = 6
    MaxItem = 3
    IntMod = 8
SPECIFICATION HeapSpec
INVARIANTS
    HeapTypeOK
    HeapOrder
PROPERTIES
    HeapIsPriorityQueue
    SiftingEnds
