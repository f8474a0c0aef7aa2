SPECIFICATION Spec
CONSTANTS
    Conns = {c1}
    SndBuf = 2
    Kinds <- AllKinds
    HeadLen = 2
    BodyLen = 1
    MaxRequests = 2
    WholeRequests = FALSE
    AwaitResponse = FALSE
INVARIANTS
    TypeOK
    ClosingArmed
    FlushedBeforeFree
    HeadsConserved
    StreamInOrder
    RestArmed
PROPERTIES
    NothingAfterClose
CHECK_DEADLOCK FALSE
