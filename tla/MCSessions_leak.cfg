SPECIFICATION Spec
CONSTANTS
    Client = {c1, c2}
    MaxWorkers = 3
    MaxAsk = 1
PROPERTIES
    NoWorkerIsLeft
CHECK_DEADLOCK FALSE
