CONSTANTS
    d1 = d1
    d2 = d2
    Downloaders <- MCDownloaders
    Compressed <- MCCompressed
    MaxStarts = 2
    MaxStops = 2
SPECIFICATION Spec
INVARIANTS
    TypeOK
    RefCount
    NoDangling
    ThreadDeletedClean
    NoDeadlock
    RequestMatchesConnection
    SuccessMeansComplete
PROPERTIES
    ImplementsService
CHECK_DEADLOCK FALSE
