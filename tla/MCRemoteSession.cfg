SPECIFICATION ReadingSpec
CONSTANTS
    k1 = k1
    k2 = k2
    Keys = {k1, k2}
    NoKey = NoKey
    NoChunk = NoChunk
    MaxOutput = 3
    MaxChunk = 2
    OutCap = 1
    NetCap = 1
CHECK_DEADLOCK FALSE
INVARIANTS
    TypeOK
    OnlyAuthorizedStarts
PROPERTIES
    ImplementsStream
    ShellEndsWithConnection
    SessionEndsWithConnection
