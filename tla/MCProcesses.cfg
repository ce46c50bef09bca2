SPECIFICATION Spec
CONSTANTS
    Children = 2
    MaxStarts = 2
    MaxFaults = 1
CHECK_DEADLOCK FALSE
INVARIANTS
    LocksSurvive
    RecordsAreShared
    NothingRemains
PROPERTIES
    StopEnds
