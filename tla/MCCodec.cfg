SPECIFICATION FairSpec

CONSTANTS
    U32Bytes = 2
    U64Bytes = 3
    Messages <- MCMessages
    Bytes <- MCBytes
    Positions <- MCPositions

CHECK_DEADLOCK FALSE

INVARIANTS
    TypeOK
    RoundTrip
    CutShortRefused
    PanicsOnHugeLengthOnly
    AccessorAgrees
    WorkBounded

PROPERTIES
    Ends
