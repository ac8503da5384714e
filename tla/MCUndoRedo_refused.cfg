SPECIFICATION Spec
CONSTANTS
    c1 = c1
    c2 = c2
    CSWorker = {c1}
    MaxOps = 5
    BatchLen = 2
    MayLocal = FALSE
    MayBatch = FALSE
    MayFail = TRUE
    MayRedo = FALSE
    Patient = TRUE
INVARIANTS
    WorkersAgree
CHECK_DEADLOCK FALSE
