SPECIFICATION FairSpec
CONSTANTS
    NumThreads = 3
    Streams <- MCCut
    SizeErrors = {0}
    InBufSize = 2
    InBufSize_ST = 3
    OutStep = 2
    OutBlockMax = 3
    MinBlock = 2
    Faults = {}
INVARIANTS
    OKMeansFinished
CHECK_DEADLOCK FALSE
