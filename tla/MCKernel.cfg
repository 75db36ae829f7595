CONSTANTS
    g1 = g1
    g2 = g2
    Nobody = Nobody
    Games <- MCGames
    MaxLoads <- MCMaxLoads
    MaxCrashes = 1
SPECIFICATION Spec
INVARIANTS
    TypeOK
    DllStaysLoaded
    OneThreadInside
    SemaphoreRecovers
PROPERTIES
    NameStaysForWorker
CHECK_DEADLOCK FALSE
