SPECIFICATION LangSpec
CONSTANTS
    N_REGISTERS = 2
    WordHalf = 128
    FieldHalf = 128
    BitOp <- MCBitOp
    MemoryMayFail = FALSE
    Labels <- MCLabels
    Sources = {}
    Programs = {}
    RET_STACK_MAX_SIZE = 8
    RAM_SIZE = 4
    RamWords = 4
    DrawnWords = 1
    DrawLength = 1
    ScreenSide = 1
    StackMemory = 12
    LangPrograms <- MCPrograms
    LangTexts <- MCTexts
    Cells = 4
    RunDepth = 8
INVARIANTS
    ReadAsWritten
    ProperCompile
    RunsAsMeant
    StackLeftEmpty
