SPECIFICATION Spec
CONSTANTS
    v0 = v0
    v1 = v1
    A = A
    B = B
    Absent = Absent
    Default = v0
    MM = {A}
    Val = {v0}
    Handled = {}
    Loadable = {}
    MaxId = 1
    MaxOps = 13
    MaxLoads = 3
    MayReload = FALSE
    MayUndo = TRUE
    MayFail = TRUE
INVARIANTS
    TypeOK
    FailureIsAtomic
    StepIsLastOperation
    JournalIsComplete
    WellFormed
CHECK_DEADLOCK FALSE
