SPECIFICATION ReadingSpec
CONSTANTS
    t1 = t1
    t2 = t2
    Callers = {t1, t2}
    Nobody = Nobody
    NoChunk = NoChunk
    MaxOutput = 4
    MaxChunk = 2
    OutCap = 2
INVARIANTS
    TypeOK
    CloseIsFinal
    DoneIsLast
PROPERTIES
    ImplementsStream
    CloseTerminates
