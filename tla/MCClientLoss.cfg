SPECIFICATION Spec
CONSTANTS
    Mib <- MCMib
    Writable <- MCWritable
    Faults = {"loss"}
    MaxMishaps = 0
    SockCapacity = 1
    InitVersions <- AnyVersion
    MaxId <- MCMaxId
    InitIds <- MCInitIds
    WalkRows = 2
    Calls <- AllCalls
    Roots <- MCRoots
    MaxCalls = 3
CHECK_DEADLOCK FALSE
INVARIANTS
    TypeOK
    WalkInStep
PROPERTIES
    Implements
