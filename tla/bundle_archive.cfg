SPECIFICATION AllSpec
CONSTANTS
    InFiles <- MCInFiles2
    CompTypes = {"LZMA2", "LZ77", "LZSSE", "FastAri", "NoCompression"}
    Sizes = {2, 3}
    PackedSizes = {1, 2, 3}
    ProcessorCount = 1
    CounterRange = 8
    InfoBytes = 1
    EntryBytes = 1
    BuildHash = FALSE
    DeleteCanFail = TRUE
    RelativeTo = 1
    MaxEdits = 0
    AskedNames <- MCAskedNames
    MaxReads = 3
    Mishaps = {}
PROPERTIES
    IsAnArchive
