SPECIFICATION MachinesSpec
CONSTANTS
    MessageLists <- MCMessages
    VlqBase = 8
    MinRun = 2
    ShortrunMax = 2
    MaxSizes = {0, 4}
    Threads = 2
    bsz = 2
    FileSizes = {0, 1, 5}
    Faults = {"read", "code", "malloc", "write"}
    Base = 4
    SizetBytes = 4
    IntBytes = 2
INVARIANTS
    InOrder
    NeverMalformed
    AllArrive
    MTAriOutcome
    BlocksSorted
    LzmaComesBack
CHECK_DEADLOCK FALSE
