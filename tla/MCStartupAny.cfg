SPECIFICATION FairSpec
CONSTANTS
    MaxLoop = 4
    Requested <- Options
    CanFail = TRUE
    MaxConns = 2
INVARIANTS
    TypeOK
    LockAlive
PROPERTIES
    EventuallyServing
CHECK_DEADLOCK FALSE
