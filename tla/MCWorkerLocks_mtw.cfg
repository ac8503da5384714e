SPECIFICATION FairSpec
CONSTANTS
    Req <- MtwReq
    Kind <- MtwKind
    Subs <- MtwSubs
    Undo <- MtwUndo
    NoReq <- None
PROPERTIES
    EventuallyAnswered
CHECK_DEADLOCK FALSE
