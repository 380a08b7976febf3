CONSTANTS
    c1 = c1
    c2 = c2
    open = open
    close = close
    a1 = a1
    d1 = d1
    a2 = a2
    None = None
    Client = {c1}
    Event = {open, a1}
    ClientOf <- MCClientOf
    TypeOf <- MCTypeOf
    MaxResends = 1
    MaxEntries = 2
SPECIFICATION Spec
CHECK_DEADLOCK FALSE
INVARIANT AcceptedIsStored
