SPECIFICATION Spec
CONSTANTS
    Scripts <- MCScripts
    Program <- MCProgram
    Code <- MCCode
    Writes <- MCWrites
    Readers = {"r"}
    Capacity = 2
    MaxPid = 8
    MaxPipe = 2
CHECK_DEADLOCK FALSE
INVARIANTS
    OneAtATime
    FailureIsReal
    NoZombieIsForgotten
PROPERTIES
    SessionEnds
