CONSTANTS
    d1 = d1
    d2 = d2
    Downloaders <- MCDownloaders
    Compressed <- MCCompressed
    MaxStarts = 1
    MaxStops = 1
SPECIFICATION FairSpec
PROPERTIES
    DeleteReturns
    JoinReturns
CHECK_DEADLOCK FALSE
