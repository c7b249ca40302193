SPECIFICATION FairSpec
CONSTANTS
    p1 = p1
    p2 = p2
    c1 = c1
    c2 = c2
    s1 = s1
    s2 = s2
    Callers = {c1, c2}
    Sessions = {s1, s2}
    Slots <- OnePane
    None = None
    Operations = {"open", "delete", "close"}
    MayFail = TRUE
INVARIANTS
    TypeOK
    RollbackSparesExisting
    ReapedIsGone
PROPERTIES
    EndedIsUnregistered
