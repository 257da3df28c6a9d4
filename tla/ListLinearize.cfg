CONSTANTS
    Values = {a, b}
    INITIAL_CAPACITY = 2
    MaxCapacity = 5
SPECIFICATION LinearizeSpec
INVARIANTS TypeOK LinksMutual FreeChainSound ListVerifyOK
PROPERTIES LinearizedOnReturn GrowsOnlyWhenFull ImplementsHandleSeq
\* After an overrun, or on a block given back, the program has no defined next step.
CHECK_DEADLOCK FALSE
