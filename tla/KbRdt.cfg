\* The driver from the first instruction of its installation, and run a second
\* time at any moment after it.
CONSTANTS
    Cells <- MCCells
    Words <- MCWords
    Regs <- MCRegs
    Picture <- MCPicture
    MaxInstances = 2
SPECIFICATION FairSpec
INVARIANTS OnlyUnseenChangesLost PictureKnown AllAcknowledged
PROPERTIES InterruptsReachBios
