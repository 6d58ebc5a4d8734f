SPECIFICATION AllSpec
CONSTANTS
    InFiles <- MCInFiles2
    CompTypes = {"LZMA2", "LZSSE", "NoCompression", "LZ77", "LZP"}
    Sizes = {0, 2}
    PackedSizes = {0, 1, 2}
    ProcessorCount = 1
    CounterRange = 8
    InfoBytes = 1
    EntryBytes = 1
    BuildHash = FALSE
    DeleteCanFail = FALSE
    RelativeTo = 1
    MaxEdits = 0
    AskedNames <- MCAskedNames
    MaxReads = 3
    Mishaps = {"crash", "directory", "closed"}
PROPERTIES
    GivesWhatWasPacked
    WholeIsReadable
    ExtractionComplete
