SPECIFICATION Spec
CONSTANTS
    InFiles <- MCInFiles2
    CompTypes = {"BSC", "LZJB", "LZ77", "LZP", "LZMA2", "LZSSE", "NoCompression"}
    Sizes = {0, 2, 3}
    PackedSizes = {0, 1, 3}
    ProcessorCount = 1
    CounterRange = 8
    InfoBytes = 4
    EntryBytes = 5
    BuildHash = TRUE
    DeleteCanFail = FALSE
    RelativeTo = 1
    MaxEdits = 1
INVARIANTS
    TypeOK
    IndexMatchesData
    CrcCoversData
    EntriesTileData
    NothingLost
    NoTempLeft
PROPERTIES
    InputsKept
