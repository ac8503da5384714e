SPECIFICATION Spec
CONSTANTS
    c1 = c1
    c2 = c2
    CSWorker = {c1}
    MaxOps = 4
    BatchLen = 2
    MayLocal = TRUE
    MayBatch = TRUE
    MayFail = TRUE
    MayRedo = TRUE
    Patient = TRUE
INVARIANTS
    TypeOK
    NamesAreMarked
    BatchIsAtomic
    AgreeWhileSmooth
CONSTRAINT TwoRequestsIfEarly
CHECK_DEADLOCK FALSE
