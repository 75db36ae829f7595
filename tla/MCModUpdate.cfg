CONSTANTS
    u1 = u1
    u2 = u2
    u1x64 = u1x64
    u2x64 = u2x64
    Throws = Throws
    Words <- MCWords
    EndingIn <- MCEndingIn
    stoi <- MCstoi
    Urls <- MCUrls
    Url64 <- MCUrl64
    MirrorLists <- MCMirrorLists
    CommandLines <- MCCommandLines
    Is64BitSystem = TRUE
    MaxStarts = 2
SPECIFICATION FairSpec
INVARIANTS
    TypeOK
    ActualizedIsListed
    FallbackIsOld
PROPERTIES
    OldConfigStays
    UpdateEnds
CHECK_DEADLOCK FALSE
