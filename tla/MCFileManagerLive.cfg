CONSTANTS
    f1 = f1
    f2 = f2
    f3 = f3
    Names <- MCNames
    ListFiles <- MCListFiles
    Userdata <- MCUserdata
    SkipFullFileCheck = TRUE
    Contents <- MCTargets
    Targets <- MCTargets
    MaxActive = 1
    MaxLines = 2
SPECIFICATION FairSpec
PROPERTIES
    OnlyDueFilesTouched
    ActualizeFilesReturns
CHECK_DEADLOCK FALSE
