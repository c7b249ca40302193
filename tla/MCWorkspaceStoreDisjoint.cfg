SPECIFICATION Spec
CONSTANTS
    n1 = n1
    n2 = n2
    a = a
    b = b
    x = x
    w1 = w1
    w2 = w2
    c1 = c1
    c2 = c2
    Names = {n1, n2}
    PaneIds = {a, b}
    Settings = {x}
    Slots = {0}
    Presets = {"single", "split_vertical", "bogus"}
    NoPane = NoPane
    WorkspaceIds = {w1, w2}
    Callers = {c1, c2}
    Nobody = Nobody
    Absent = Absent
    Torn = Torn
    MayFail = TRUE
SYMMETRY Symmetry
CONSTRAINT NoOverlap
PROPERTIES
    ImplementsAtomicWorkspaces
