SPECIFICATION Spec
CONSTANTS
    Keys <- MCKeys
    a = a
    b = b
    Values <- MCValues
    Nothing = Nothing
    LongKeys <- MCLong
    Hash <- MCHash
    STARTING_ARRLEN = 1
    CRITICAL_LOAD_FACTOR = 2
    BucketCapacity = 2
    INITIAL_CAPACITY = 3
    MemoryMayFail = TRUE
SYMMETRY MCSymmetry
INVARIANTS EntriesInPlace OwnsItsKeys
PROPERTY ImplementsMap
