SPECIFICATION Spec
CONSTANTS
    Node = {n1, n2}
    CSMM = {a, b}
    First = a
    MaxMade = 4
    MaxSwitch = 1
    MaxUndo = 2
    MaxSave = 1
INVARIANTS TypeOK IconsCurrent ShowsItsChangelogs
PROPERTY AllApplied
CHECK_DEADLOCK FALSE
