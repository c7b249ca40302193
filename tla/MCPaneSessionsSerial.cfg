SPECIFICATION Spec
CONSTANTS
    p1 = p1
    p2 = p2
    c1 = c1
    s1 = s1
    s2 = s2
    s3 = s3
    s4 = s4
    Callers = {c1}
    Sessions = {s1, s2, s3, s4}
    Slots <- TwoPanes
    None = None
    Operations = {"open", "delete"}
    MayFail = FALSE
SYMMETRY Symmetry
INVARIANTS
    OneShellPerPane
    LiveIsRegistered
    DeletedIsSilent
