SPECIFICATION Spec
CONSTANTS
    Mib <- MCMib
    Writable <- MCWritable
    Faults = {"early"}
    MaxMishaps = 0
    SockCapacity = 2
    InitVersions <- OnlyV2c
    MaxId <- MCMaxId
    InitIds <- OneInitId
    WalkRows = 2
    Calls <- TwoGets
    Roots <- NoRoots
    MaxCalls = 2
CHECK_DEADLOCK FALSE
INVARIANTS
    GetReturnsItsOids
