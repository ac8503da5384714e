SPECIFICATION Spec
CONSTANTS
    Client = {c1, c2}
    MaxWorkers = 3
    MaxAsk = 1
INVARIANTS
    TypeOK
    StaysUp
    ListsMatchProcesses
PROPERTIES
    SessionsEnd
    SubscriptionsAnswered
CHECK_DEADLOCK FALSE
