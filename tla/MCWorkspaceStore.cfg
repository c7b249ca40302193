SPECIFICATION Spec
CONSTANTS
    n1 = n1
    a = a
    b = b
    x = x
    w1 = w1
    c1 = c1
    c2 = c2
    Names = {n1}
    PaneIds = {a, b}
    Settings = {x}
    Slots = {0, 1, 2}
    Presets = {"single", "split_vertical", "bogus"}
    NoPane = NoPane
    WorkspaceIds = {w1}
    Callers = {c1, c2}
    Nobody = Nobody
    Absent = Absent
    Torn = Torn
    MayFail = TRUE
SYMMETRY Symmetry
INVARIANTS
    TypeOK
    EveryFileLoads
    RenamesItsOwn
