SPECIFICATION FairSpec
CONSTANTS
    k1 = k1
    Keys = {k1}
    NoKey = NoKey
    NoChunk = NoChunk
    MaxOutput = 1
    MaxChunk = 1
    OutCap = 1
    NetCap = 2
CHECK_DEADLOCK FALSE
PROPERTIES
    ShellEndsWithConnection
