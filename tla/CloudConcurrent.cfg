CONSTANTS
    a1 = a1
    a2 = a2
    a3 = a3
    p1 = p1
    v1 = v1
    c1 = c1
    s1 = s1
    NoHash = NoHash
    NoTask = NoTask
    Task = {"t1", "t2"}
    Envelope = {a1, a2, p1}
    Session = {s1}
    SessionOf <- MCOneSession
    TypeOf <- MCTypeOf
    MaxRetries = 2
    Buffered = TRUE
    MaxBatch = 2
    SpoolEnabled = TRUE
    OnRecordLoss = "fail"
    MaxLines = 0
SPECIFICATION FairSpec
CHECK_DEADLOCK FALSE
INVARIANT DenseNumbering
INVARIANT AcknowledgedIsDurable
PROPERTY SealIsFinal
PROPERTY EveryCallReturns
