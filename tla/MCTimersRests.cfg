SPECIFICATION FairSpec
CONSTANTS
    Block = {b1}
    Null = Null
    InitCap = 1
    Delays = {1}
    Types <- AllTypes
    Milli = 2
    MaxElapsed = 3
    AddWhileWaiting = FALSE
PROPERTIES
    EveryTimerFires
CHECK_DEADLOCK FALSE
