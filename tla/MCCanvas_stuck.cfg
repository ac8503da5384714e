SPECIFICATION Spec
CONSTANTS
    a = a
    b = b
    l = l
    Icon = {a, b}
    Link = {l}
    From <- MCFrom
    To <- MCTo
    NoIcon = NoIcon
    MaxChange = 2
    MaxDialog = 2
INVARIANT NeverStuck
CHECK_DEADLOCK FALSE
