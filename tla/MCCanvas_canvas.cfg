SPECIFICATION Spec
CONSTANTS
    a = a
    b = b
    l = l
    Icon = {a, b}
    Link = {l}
    From <- MCFrom
    To <- MCTo
    NoIcon = NoIcon
    MaxChange = 2
    MaxDialog = 2
INVARIANTS TypeOK SelectionShown ViewFollowsModel DialogsHaveEvents
PROPERTY OnlySelectedEdgesFreeze
CHECK_DEADLOCK FALSE
