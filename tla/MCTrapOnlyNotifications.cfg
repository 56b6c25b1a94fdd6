SPECIFICATION Spec
CONSTANTS
    Callers = {c1, c2}
    Kinds <- Probes
    SockCapacity = 2
    MaxCalls = 3
    MaxSent = 1
    MaxTries = 2
    MaxCopies = 1
CHECK_DEADLOCK FALSE
INVARIANTS
    OnlyNotifications
