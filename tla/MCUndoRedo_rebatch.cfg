SPECIFICATION Spec
CONSTANTS
    c1 = c1
    c2 = c2
    CSWorker = {c1}
    MaxOps = 6
    BatchLen = 2
    MayLocal = FALSE
    MayBatch = TRUE
    MayFail = FALSE
    MayRedo = TRUE
    Patient = TRUE
INVARIANTS
    WorkersAgree
CHECK_DEADLOCK FALSE
