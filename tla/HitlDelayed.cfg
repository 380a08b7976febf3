CONSTANTS
    o1 = o1
    o2 = o2
    Operator = {o1, o2}
    Deadline = 2
    Horizon = 4
    MaxDelay = 2
    IngestTypes = {"human"}
SYMMETRY OperatorSymmetry
SPECIFICATION Spec
CHECK_DEADLOCK FALSE
INVARIANT GateSound
