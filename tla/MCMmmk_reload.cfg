SPECIFICATION Spec
CONSTANTS
    v0 = v0
    v1 = v1
    A = A
    B = B
    Absent = Absent
    Default = v0
    MM = {A}
    Handled = {}
    MaxId = 3
    MaxOps = 3
    MaxLoads = 2
    MayReload = TRUE
    MayUndo = TRUE
    MayFail = FALSE
    Val <- MCVal
    Loadable <- OneOf
INVARIANTS
    UndoRevertsLastOperation
CHECK_DEADLOCK FALSE
