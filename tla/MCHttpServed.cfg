SPECIFICATION FairSpec
CONSTANTS
    Conns = {c1, c2}
    SndBuf = 2
    Kinds <- AllKinds
    HeadLen = 1
    BodyLen = 1
    MaxRequests = 2
    WholeRequests = TRUE
    AwaitResponse = TRUE
INVARIANTS
    AnswersMatchRequests
    WithinBlock
PROPERTIES
    RequestsServed
    ClosingEventuallyClosed
CHECK_DEADLOCK FALSE
