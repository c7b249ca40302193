SPECIFICATION FairSpec
CONSTANTS
    MaxOutput = 3
    MaxChunk = 2
    MaxScrollback = 2
    SubCap = 1
    MaxCalls = 3
    NoChunk = NoChunk
    NoSub = NoSub
CHECK_DEADLOCK FALSE
INVARIANTS
    TypeOK
    TabSeesOneStretch
    BridgeSafe
PROPERTIES
    ClientEnds
