CONSTANTS
    t1 = t1
    t2 = t2
    Task = {t1, t2}
    Loop = Loop
    Closer = Closer
    MaxRecords = 3
    MaxBufferSize = 2
    Attempts = 2
    Inners = {TRUE, FALSE}
SPECIFICATION FairSpec
CHECK_DEADLOCK FALSE
INVARIANT NoOvertaking
INVARIANT CloseFlushes
PROPERTY EveryRecordAttempted
PROPERTY ImplementsDelivery
