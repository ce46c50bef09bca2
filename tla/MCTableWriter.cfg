SPECIFICATION MCSpec
SYMMETRY Symmetry
CONSTANTS
    w1 = w1
    w2 = w2
    k1 = k1
    k2 = k2
    v1 = v1
    v2 = v2
    Worker <- MCWorker
    Writer <- MCWriter
    Cleaner = gc
    Key <- MCKey
    Value <- MCValue
    Nil = nil
    TTL = {1}
    MinTTL = 1
    IntMax = 100
    Period = 2
    MaxTime = 3
    HASHTABLE_SEGMENTS_COUNT = 2
    HASHTABLE_SEGMENT_SIZE = 1
    Hash <- MCHash
INVARIANTS
    MissIsHonest
    AnswersAreHonest
    MinimumTTL
PROPERTIES
    KeysSettle
    ImplementsMap
