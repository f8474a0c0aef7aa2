SPECIFICATION FairSpec
CONSTANTS
    Block = {b1, b2, b3}
    Null = Null
    InitCap = 1
    Delays = {0, 2}
    Types <- HasCallback
    Milli = 2
    MaxElapsed = 3
    AddWhileWaiting = TRUE
INVARIANTS
    TypeOK
    NoneLost
    TopIsNearest
    BoundedWait
    NotEarly
PROPERTIES
    RoundEnds
VIEW Readable
CHECK_DEADLOCK FALSE
