SPECIFICATION FairSpec
CONSTANTS
    c1 = c1
    c2 = c2
    b = b
    Founder = {c1}
    Joiner = {b}
    MaxMade = 3
INVARIANTS
    TypeOK
    AppliedInOrder
    NothingLost
PROPERTIES
    ImplementsReplicaLog
CHECK_DEADLOCK FALSE
