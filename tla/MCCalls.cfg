CONSTANTS
    Addresses = {1, 2, 3}
    Keys = {k}
    Words = {0, 1}
    Codes = {legacy, eof}
    EofCodes = {eof}
    NoCode = empty
    CodeWords <- MCCodeWords
    CodeHash <- MCCodeHash
    Rehash <- MCRehash
    Messages <- MCMessages
    InitialAccounts <- MCAccounts
    GasOperands = {40, 131}
    CallValues = {1}
    Salts = {1}
    MemoryCosts = {0, 1}
    StepCosts = {1}
    LimbMod = 128
    WordMod = 256
    CallDepthLimit = 2
    GasDivisor = 4
    CallCost = 1
    ColdAccountCost = 1
    ValueCost = 2
    Stipend = 1
    NewAccountCost = 2
    CreateCost = 2
    MaxInitWords = 1
    SstoreMinimum = 1
    ColdSloadCost = 1
    WarmAccess = 1
    StoreReset = 2
    TstoreCost = 1
    SelfdestructCost = 1
    ColdBeneficiary = 1
SPECIFICATION FairSpec
INVARIANTS TypeOK FrameGasWithinMessage RunningCodeKept
PROPERTIES ImplementsBudget StaticKeepsAccounts BalanceConserved Terminates
