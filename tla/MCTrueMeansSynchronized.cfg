CONSTANTS
    f1 = f1
    f2 = f2
    f3 = f3
    Names <- TwoNames
    ListFiles <- NoNames
    Userdata <- NoNames
    SkipFullFileCheck = FALSE
    Contents <- MCContents
    Targets <- MCTargets
    MaxActive = 2
    MaxLines = 2
SPECIFICATION Spec
INVARIANTS
    TrueMeansSynchronized
CHECK_DEADLOCK FALSE
