CONSTANTS
    d1 = d1
    d2 = d2
    Downloaders <- MCDownloaders
    Compressed <- MCCompressed
    MaxStarts = 1
    MaxStops = 2
SPECIFICATION Spec
INVARIANTS
    AcquiredMeansAssigned
CHECK_DEADLOCK FALSE
