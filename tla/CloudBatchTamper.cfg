CONSTANTS
    a1 = a1
    a2 = a2
    a3 = a3
    p1 = p1
    v1 = v1
    c1 = c1
    s1 = s1
    NoHash = NoHash
    NoTask = NoTask
    Task = {"t1"}
    Envelope = {a1, a2, a3}
    Session = {s1}
    SessionOf <- MCOneSession
    TypeOf <- MCTypeOf
    MaxRetries = 1
    Buffered = TRUE
    MaxBatch = 2
    SpoolEnabled = TRUE
    OnRecordLoss = "warn"
    MaxLines = 0
SYMMETRY ActionSymmetry
SPECIFICATION Spec
CHECK_DEADLOCK FALSE
INVARIANT NoFalseTamper
