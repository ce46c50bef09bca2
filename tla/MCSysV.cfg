SPECIFICATION Spec
CONSTANTS
    Worker = {w1, w2}
    Key = {k1, k2}
    Value = {v1, v2}
    Nil = Nil
    WORKER_PROCESSES_COUNT = 2
    HASHTABLE_SEGMENTS_COUNT = 2
    HASHTABLE_SEGMENT_SIZE = 2
    Digest <- DigestMC
    MaxCommands <- CommandsMC
INVARIANTS
    WritersAreAlone
PROPERTIES
    ServesAsMap
    CommandsEnd
CHECK_DEADLOCK FALSE
