SPECIFICATION Spec
CONSTANTS
    Conns = {c1}
    Workers = {w1}
    MainLoop = m
    Junk = junk
CHECK_DEADLOCK FALSE
INVARIANTS
    WorkingTells
