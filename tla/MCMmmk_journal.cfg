SPECIFICATION Spec
CONSTANTS
    v0 = v0
    v1 = v1
    A = A
    B = B
    Absent = Absent
    Default = v0
    MM = {A, B}
    Handled = {0}
    MaxId = 3
    MaxOps = 3
    MaxLoads = 2
    MayReload = FALSE
    MayUndo = TRUE
    MayFail = TRUE
    Val <- MCVal
    Loadable <- OneOfEach
SYMMETRY Symmetry
INVARIANTS
    TypeOK
    FailureIsAtomic
    StepIsLastOperation
    JournalIsComplete
    WellFormed
CHECK_DEADLOCK FALSE
