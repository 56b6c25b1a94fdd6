SPECIFICATION Spec
CONSTANTS
    Mib <- MCMib
    Writable <- MCWritable
    Faults = {}
    MaxMishaps = 0
    SockCapacity = 2
    InitVersions <- OnlyV1
    MaxId <- MCMaxId
    InitIds <- OneInitId
    WalkRows = 2
    Calls <- TwoGets
    Roots <- MCRoots
    MaxCalls = 1
CHECK_DEADLOCK FALSE
INVARIANTS
    WalkReturnsSubtree
