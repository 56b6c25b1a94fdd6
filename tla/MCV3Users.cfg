SPECIFICATION Spec
CONSTANTS
    Mib <- MCMib
    Writable <- MCWritable
    SaltSize = 4
    DesSaltSize = 2
    EarlyZeros = FALSE
    UsmStats <- MCUsmStats
    Window = 1
    MaxTime = 2
    MaxBoots = 1
    Faults = {"loss"}
    SockCapacity = 2
    MaxMishaps = 0
    MaxId <- MCMaxId
    InitIds <- MCInitIds
    InitSalts <- MCInitSalts
    WalkRows = 1
    Users <- AllUsers
    Calls <- AllCalls
    Roots <- MCRoots
    MaxCalls = 3
CHECK_DEADLOCK FALSE
INVARIANTS
    TypeOK
    Protected
    TurnedAwayOnceOnly
    UnwrapIsSafe
PROPERTIES
    ClockAdvances
    Implements
