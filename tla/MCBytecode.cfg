SPECIFICATION Spec

CONSTANTS
    Codes <- MCCodes
    Rev = 12
    FieldMod = 251
    SizeMod = 256
    MaxCodes = 2

INVARIANTS
    TypeOK
    BodyClassified

PROPERTIES
    EarlierRowsKept
