SPECIFICATION Spec
CONSTANTS
    WordSize = 1024
    ChunkHeader = 3
    ChunkSlack = 0
    DefaultChunk = 8
    TotalCap = 8
    HardLimit = 9
    Limits <- MCLimits
    Sizes <- MCSizes
    Aligns <- MCAligns
    MaxRequest = 4
    MaxChunks = 3
CHECK_DEADLOCK FALSE
INVARIANTS
    TypeOK
    LiveBlocksSeparate
    AccountingExact
    NoSpuriousFailure
PROPERTIES
    GrantsRespectLimits
    BlocksStable
