SPECIFICATION FairSpec
CONSTANTS
    Conns = {c1, c2}
    Workers = {w1}
    MainLoop = m
    Junk = junk
CHECK_DEADLOCK FALSE
INVARIANTS
    TypeOK
    RunsAfterConnection
    AgreeUnlessEarly
    UnharmedUnlessEarly
PROPERTIES
    Flushed
