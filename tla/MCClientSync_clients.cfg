SPECIFICATION Spec
CONSTANTS
    o = o
    g = g
    Owner = {o}
    Guest = {g}
    Cloned = FALSE
    MaxAsw = 2
    MaxCsw = 3
INVARIANTS TypeOK ShowsABeginning
PROPERTY ShowsEverything
CHECK_DEADLOCK FALSE
