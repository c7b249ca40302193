SPECIFICATION Spec
CONSTANTS
    p1 = p1
    c1 = c1
    c2 = c2
    Panes = {p1}
    Streams = {c1, c2}
    QueueCap = 1
    IdleTime = 1
    MaxTime = 2
CHECK_DEADLOCK FALSE
INVARIANTS
    TypeOK
    StreamIsFresh
PROPERTIES
    WaitIsReal
