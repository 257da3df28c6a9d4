SPECIFICATION ToolSpec
CONSTANTS
    N_REGISTERS = 2
    WordHalf = 3
    FieldHalf = 3
    BitOp <- NoBitOp
    MemoryMayFail = TRUE
    Labels = {"a", "b"}
    Sources <- MCSources
    Programs = {}
    RET_STACK_MAX_SIZE = 2
    RAM_SIZE = 1
    RamWords = 1
    DrawnWords = 1
    DrawLength = 1
    ScreenSide = 1
    StackMemory = 0
INVARIANTS
    AsmTypeOK
    PassesAgree
    JumpsReachLabels
PROPERTY
    RunsAsWritten
