SPECIFICATION FairSpec
CONSTANTS
    NumThreads = 2
    ExtraBlocks = 0
    BlockSize = 2
    DataSizes = {0, 3, 4, 7, 8}
    Modes = {"stream", "memory"}
    Expected = {"none", "exact"}
    Faults = {"alloc", "read", "thread", "code", "write"}
INVARIANTS
    OneReader
    OneWriter
    BuffersApart
    WrittenInOrder
    OKMeansWhole
    NobodyWorks
PROPERTIES
    Ends
CHECK_DEADLOCK FALSE
