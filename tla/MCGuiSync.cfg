CONSTANTS
    s1 = s1
    s2 = s2
    Seconds <- MCSeconds
    Nobody = Nobody
    MaxCycles = 2
SPECIFICATION FairSpec
INVARIANTS
    TypeOK
    CallsAreExclusive
    OneSecondThread
    ActiveFollowsWindow
    BarIsOurs
PROPERTIES
    SafeExecReturns
