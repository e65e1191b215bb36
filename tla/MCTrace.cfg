SPECIFICATION Spec

CONSTANTS
    Rev = 12
    StackLimit = 4
    LimbBytes = 2
    IntMod = 256
    Programs <- TracePrograms
    GasLimits = {30, 3000}
    Results <- MCResults

INVARIANTS
    TraceCoherent
    StackTraced

PROPERTIES
    OperandsDeclared
