SPECIFICATION FairSpec
CONSTANTS
    N_REGISTERS = 2
    WordHalf = 4
    FieldHalf = 4
    BitOp <- MCBitOp
    Programs <- MCPrograms
    RET_STACK_MAX_SIZE = 2
    RAM_SIZE = 3
    RamWords = 1
    DrawnWords = 1
    DrawLength = 1
    ScreenSide = 3
    StackMemory = 2
    MemoryMayFail = TRUE
INVARIANTS
    TypeOK
    ReturnsFollowCalls
PROPERTIES
    NoImplicitChange
    ForwardProgramsEnd
