SPECIFICATION FairSpec
CONSTANTS
    InFiles <- MCInFiles3
    CompTypes = {"LZ77", "LZSSE", "NoCompression"}
    Sizes = {0, 2}
    PackedSizes = {1}
    ProcessorCount = 1
    CounterRange = 8
    InfoBytes = 4
    EntryBytes = 5
    BuildHash = FALSE
    DeleteCanFail = FALSE
    RelativeTo = 1
    MaxEdits = 0
INVARIANTS
    SettledAfterWait
    TempsMatchTasks
    OrderIsOfPaths
PROPERTIES
    Ends
