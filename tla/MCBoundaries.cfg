SPECIFICATION FairSpec

CONSTANTS
    Rev = 12
    StackLimit = 3
    LimbBytes = 2
    IntMod = 256
    Programs <- BoundaryPrograms
    GasLimits = {30}
    Results <- OneResult

INVARIANTS
    JumpdestMapExact
    ExecutesInstructions
    CodeReadsPadded

PROPERTIES
    Advances
    Terminates
