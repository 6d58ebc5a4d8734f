SPECIFICATION FairSpec
CONSTANTS
    NumThreads = 3
    Streams <- MCStreams
    SizeErrors <- MCSizeErrors
    InBufSize = 2
    InBufSize_ST = 3
    OutStep = 2
    OutBlockMax = 3
    MinBlock = 2
    Faults = {"link", "cross", "out", "thread", "read", "write", "st"}
INVARIANTS
    InTurn
    AheadAgrees
PROPERTIES
    Delivers
    Ends
CHECK_DEADLOCK FALSE
