SPECIFICATION FairSpec
CONSTANTS
    Mib <- SmallMib
    Writable <- MCWritable
    Faults = {"loss", "copy", "garble", "early"}
    MaxMishaps = 1
    SockCapacity = 2
    InitVersions <- OnlyV2c
    MaxId <- MCMaxId
    InitIds <- MCInitIds
    WalkRows = 2
    Calls <- FewCalls
    Roots <- OneRoot
    MaxCalls = 2
CHECK_DEADLOCK FALSE
INVARIANTS
    LagBounded
    InStep
    OwnAnswer
    IdsNameRequests
PROPERTIES
    CallReturns
