SPECIFICATION FairSpec
CONSTANTS
    Conns = {c1}
    SndBuf = 2
    Kinds <- AllKinds
    HeadLen = 1
    BodyLen = 2
    MaxRequests = 2
    WholeRequests = TRUE
    AwaitResponse = FALSE
PROPERTIES
    ClosingEventuallyClosed
CHECK_DEADLOCK FALSE
