SPECIFICATION FairSpec
CONSTANTS
    Req <- ReadReq
    Kind <- ReadKind
    Subs <- ReadSubs
    Undo <- ReadUndo
    NoReq <- None
PROPERTIES
    BatchReadIsolated
CHECK_DEADLOCK FALSE
