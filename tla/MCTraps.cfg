SPECIFICATION FairSpec
CONSTANTS
    Callers = {c1, c2}
    Kinds <- MCKinds
    SockCapacity = 2
    MaxCalls = 3
    MaxSent = 2
    MaxTries = 2
    MaxCopies = 1
CHECK_DEADLOCK FALSE
INVARIANTS
    TypeOK
    AtMostOnce
PROPERTIES
    Implements
    NoneHeldBack
