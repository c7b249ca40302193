SPECIFICATION FairHubSpec
CONSTANTS
    c1 = c1
    c2 = c2
    Clients = {c1, c2}
    NoChunk = NoChunk
    MaxOutput = 6
    MaxChunk = 2
    OutCap = 2
    SubCap = 2
    MaxScrollback = 3
INVARIANTS
    TypeOK
    ScrollbackIsTail
    NoGapNoRepeat
    DoneClosedExactlyOnce
    DoneMeansFinished
PROPERTIES
    DroppedOnlyWhenBehind
    KeepsThePromise
    OutputIsDrained
    EndReachesEveryone
