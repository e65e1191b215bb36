SPECIFICATION Spec

CONSTANTS
    Rev = 13
    StackLimit = 4
    LimbBytes = 2
    IntMod = 256
    Programs <- FramePrograms
    GasLimits = {5, 40, 3000}
    Results <- OneResult

INVARIANTS
    TypeOK
    StackInBounds
