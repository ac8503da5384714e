SPECIFICATION Spec
CONSTANTS
    o = o
    g = g
    Owner = {o}
    Guest = {}
    Cloned = TRUE
    MaxAsw = 1
    MaxCsw = 2
INVARIANT ShowsABeginning
CHECK_DEADLOCK FALSE
