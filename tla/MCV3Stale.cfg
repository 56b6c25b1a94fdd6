SPECIFICATION FairSpec
CONSTANTS
    Mib <- SmallMib
    Writable <- MCWritable
    SaltSize = 4
    DesSaltSize = 2
    EarlyZeros = FALSE
    UsmStats <- MCUsmStats
    Window = 1
    MaxTime = 1
    MaxBoots = 1
    Faults = {"copy", "early", "garble"}
    SockCapacity = 2
    MaxMishaps = 1
    MaxId <- MCMaxId
    InitIds <- MCInitIds
    InitSalts <- MCInitSalts
    WalkRows = 1
    Users <- StaleUsers
    Calls <- OneGet
    Roots <- MCRoots
    MaxCalls = 3
CHECK_DEADLOCK FALSE
INVARIANTS
    IvsFresh
    ClockNotAhead
    OwnAnswer
PROPERTIES
    CallReturns
