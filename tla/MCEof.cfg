CONSTANTS
    Containers <- MCContainers
    Revs = {12, 13}
    SectionLimit = 4
    InOutLimit = 4
    StackLimit = 4
    WordSize = 2
SPECIFICATION FairSpec
INVARIANTS
    TypeOK
    ReadsInside
    ParsersAgree
    RequirementsMet
    OnInstruction
    HeightsAsValidated
    UncheckedAccessSafe
PROPERTY ValidationTerminates
