SPECIFICATION Spec
CONSTANTS
    k1 = k1
    k2 = k2
    Keys = {k1, k2}
    Comments <- AnyComment
    Torn = Torn
    MaxMade = 3
    MaxCalls = 4
    MaxFaults = 3
INVARIANTS
    TypeOK
    IdentityIsDurable
    AnswersAreRight
