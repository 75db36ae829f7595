CONSTANTS
    Files = {1, 2}
    Nobody = 0
    MaxSessions = 2
    CrcTable <- MCCrcTable
    Messages <- MCMessages
    Bytewise <- MCBytewise
    Variants <- MCVariants
SPECIFICATION DeliveryFairSpec
INVARIANTS
    CrcIsStandard
    SuccessMeansReplaced
    VerifiedMeansPromised
PROPERTIES
    UnpackReturns
CHECK_DEADLOCK FALSE
