CONSTANTS
    c1 = c1
    c2 = c2
    open = open
    close = close
    a1 = a1
    d1 = d1
    a2 = a2
    None = None
    Client = {c1, c2}
    Event = {open, a1, a2}
    ClientOf <- MCClientOf
    TypeOf <- MCTypeOf
    MaxResends = 0
    MaxEntries = 2
SPECIFICATION Spec
CHECK_DEADLOCK FALSE
INVARIANT NoFork
