CONSTANTS
    f1 = f1
    f2 = f2
    f3 = f3
    Names <- MCNames
    ListFiles <- NoNames
    Userdata <- NoNames
    SkipFullFileCheck = FALSE
    Contents <- MCContents
    Targets <- MCTargets
    MaxActive = 2
    MaxLines = 3
SPECIFICATION Spec
SYMMETRY Interchangeable
INVARIANTS
    TypeOK
    LiveObjectsAreInSlots
    NothingForgotten
    VerifiedMeansSynchronized
    CancelledMeansFalse
CHECK_DEADLOCK FALSE
