SPECIFICATION FairSpec
CONSTANTS
    Req <- NestReq
    Kind <- NestKind
    Subs <- NestSubs
    Undo <- NestUndo
    NoReq <- None
PROPERTIES
    WritersNotStarved
CHECK_DEADLOCK FALSE
