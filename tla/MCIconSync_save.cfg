SPECIFICATION Spec
CONSTANTS
    Node = {n1}
    CSMM = {a}
    First = a
    MaxMade = 2
    MaxSwitch = 0
    MaxUndo = 0
    MaxSave = 1
INVARIANT SaveConsistent
CHECK_DEADLOCK FALSE
