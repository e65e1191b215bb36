SPECIFICATION Spec

CONSTANTS
    Rev = 12
    StackLimit = 4
    LimbBytes = 2
    IntMod = 256
    Programs <- SwapProgram
    GasLimits = {30}
    Results <- OneResult

INVARIANTS
    TraceCoherent
