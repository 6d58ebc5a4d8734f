SPECIFICATION FairSpec
CONSTANTS
    InFiles <- MCInFiles2
    CompTypes = {"LZ77"}
    Sizes = {0, 2}
    PackedSizes = {1}
    ProcessorCount = 2
    CounterRange = 8
    InfoBytes = 4
    EntryBytes = 5
    BuildHash = FALSE
    DeleteCanFail = FALSE
    RelativeTo = 1
    MaxEdits = 0
PROPERTIES
    SkippedThenEnds
