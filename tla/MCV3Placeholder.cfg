SPECIFICATION Spec
CONSTANTS
    Mib <- MCMib
    Writable <- MCWritable
    SaltSize = 4
    DesSaltSize = 2
    EarlyZeros = TRUE
    UsmStats <- MCUsmStats
    Window = 1
    MaxTime = 1
    MaxBoots = 0
    Faults = {}
    SockCapacity = 2
    MaxMishaps = 0
    MaxId <- MCMaxId
    InitIds <- MCInitIds
    InitSalts <- MCInitSalts
    WalkRows = 1
    Users <- AuthUsers
    Calls <- OneGet
    Roots <- MCRoots
    MaxCalls = 2
CHECK_DEADLOCK FALSE
INVARIANTS
    PlaceholderReplaced
