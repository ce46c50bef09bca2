SPECIFICATION HSpec
SYMMETRY Symmetry
CONSTANTS
    w1 = w1
    w2 = w2
    k1 = k1
    k2 = k2
    v1 = v1
    Worker <- MCWorker
    Writer <- MCWorker
    Cleaner = gc
    Key <- MCKey
    Value = {v1}
    Nil = nil
    TTL = {1}
    MinTTL = 1
    IntMax = 100
    Period = 2
    MaxTime = 3
    HASHTABLE_SEGMENTS_COUNT = 1
    HASHTABLE_SEGMENT_SIZE = 2
    Hash <- MCHash
INVARIANT
    MinimumTTL
