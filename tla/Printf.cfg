\* Words of 16 bits leave one bit above the last octal digit, as 64 do. With two
\* xmm registers the fifth double is the first whose jump may lose the program,
\* which then has no next step.
SPECIFICATION Spec
CONSTANTS
    WordBits = 16
    BufferSize = 4
    IntRegs = 2
    FloatRegs = 2
    Precision = 2
    FloatUnit = 8
    Mantissa = 18
    MixLength = 6
    MaxFloats = 5
    Char <- MCChar
    Calls <- MCCalls
CHECK_DEADLOCK FALSE
INVARIANTS
    PrintsTheFormat
    LinesGoOut
    HandedOn
