SPECIFICATION FairRivalsSpec
CONSTANTS
    w1 = w1
    w2 = w2
    k1 = k1
    v1 = v1
    Worker = {w1, w2}
    Writer = {w1, w2}
    Cleaner = gc
    Key = {k1}
    Value = {v1}
    Nil = nil
    TTL = {1}
    MinTTL = 1
    IntMax = 2
    Period = 1
    MaxTime = 2
    HASHTABLE_SEGMENTS_COUNT = 2
    HASHTABLE_SEGMENT_SIZE = 2
    Hash <- MCHash
INVARIANTS
    TypeOK
    LockDiscipline
    FullMeansFull
    OneCopyUnlessMet
PROPERTIES
    CellsAreNeverFreed
    CommandsEnd
