SPECIFICATION FairSpec
CONSTANTS
    Req <- MixReq
    Kind <- MixKind
    Subs <- MixSubs
    Undo <- MixUndo
    NoReq <- None
INVARIANTS
    TypeOK
    CountersExact
    EditsSerialized
    PassIsCurrent
    NoLostWakeup
    BurstsComplete
PROPERTIES
    EventuallyAnswered
CHECK_DEADLOCK FALSE
