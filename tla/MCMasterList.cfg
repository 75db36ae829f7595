CONSTANTS
    u1 = u1
    u2 = u2
    m = m
    other = other
    NoUrl = NoUrl
    Urls <- MCUrls
    Mods <- MCMods
    Mod = m
    MasterLists <- MCMasterLists
    MasterLinks = 6
SPECIFICATION Spec
INVARIANTS
    TypeOK
    OnlyTrustedSources
    EveryMirrorOffered
CHECK_DEADLOCK FALSE
