SPECIFICATION Spec

CONSTANTS
    ChunkBase = 4
    AddressChunks = 2
    KeyChunks = 2
    Locations <- FrameCells
    Stored <- StoredCells
    Values = {0, 1}
    MaxOperations = 4
    MaxFrames = 2

INVARIANTS
    TypeOK
    RowsIncrease
    ReadsAgree
    ValueBeforeExact
    GroupMarks

PROPERTIES
    EarlierFramesKept
