CONSTANTS
    MaxRecords = 3
    BatchSize = 2
    MaxRuns = 2
SPECIFICATION Spec
CHECK_DEADLOCK FALSE
INVARIANT ReceiptIsTrue
INVARIANT GapsStayInBatch
INVARIANT RetiredIsReceipted
PROPERTY AttemptsSurvive
PROPERTY ImplementsDelivery
