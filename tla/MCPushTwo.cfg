SPECIFICATION Spec

CONSTANTS
    Rev = 12
    StackLimit = 4
    LimbBytes = 2
    IntMod = 256
    Programs <- PushTwoProgram
    GasLimits = {30}
    Results <- OneResult

INVARIANTS
    StackAddressAssert
