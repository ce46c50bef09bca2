SPECIFICATION Spec
CONSTANTS
    Size = 6
    TaskSize = 1
    Value = {1, 2, 3}
CHECK_DEADLOCK FALSE
INVARIANTS
    NoSharedCells
    SameElements
    SortedAtEnd
PROPERTIES
    PivotsArePlaced
    Terminates
