SPECIFICATION Spec
CONSTANTS
    o = o
    g = g
    Owner = {}
    Guest = {g}
    Cloned = FALSE
    MaxAsw = 2
    MaxCsw = 1
INVARIANT GuestsAreSafe
CHECK_DEADLOCK FALSE
