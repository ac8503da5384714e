SPECIFICATION Spec
CONSTANTS
    v0 = v0
    v1 = v1
    A = A
    B = B
    Absent = Absent
    Default = v0
    MM = {A}
    Handled = {0}
    MaxId = 3
    MaxOps = 6
    MaxLoads = 1
    MayReload = FALSE
    MayUndo = TRUE
    MayFail = TRUE
    Val <- MCVal
    Loadable <- OneOf
INVARIANTS
    ChangelogIsLastOperation
CHECK_DEADLOCK FALSE
