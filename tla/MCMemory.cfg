SPECIFICATION Spec

CONSTANTS
    WordSize = 2
    ByteMod = 16
    LimbMod = 16
    MaxBuffer = 6
    PageSize = 2
    QuadDivisor = 2
    Offsets = {0, 1, 5, 12, 17}
    Sizes = {0, 1, 3, 11, 16}
    StoredWords = {35}
    Widths = {1, 2}
    Source <- MCSource
    StrayBytes = {0, 4}
    GasLimits = {8, 30, 3000}
    MaxInstructions = 2

INVARIANTS
    TypeOK
    MemoryPaid
    CapacityCovers
    OutputInMemory
    MemoryTraced

PROPERTIES
    TraceTruthful
