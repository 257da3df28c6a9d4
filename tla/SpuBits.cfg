\* The widths of the code, except that an int32_t has 22 bits.
SPECIFICATION Spec
CONSTANTS
    N_REGISTERS = 32
    FieldHalf = 524288
    MemoryMayFail = FALSE
    IntHalf = 2097152
    Texts <- MCTexts
    Words <- MCWords
INVARIANTS
    MeaningKept
    ReassemblyAccepted
