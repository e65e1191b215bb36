SPECIFICATION Spec

CONSTANTS
    ChunkBase = 4
    AddressChunks = 2
    KeyChunks = 2
    Locations <- FrameCells
    Stored = {}
    Values = {0, 1}
    MaxOperations = 3
    MaxFrames = 1

INVARIANTS
    ReadsAgree
