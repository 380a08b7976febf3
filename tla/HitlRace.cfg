CONSTANTS
    o1 = o1
    o2 = o2
    Operator = {o1, o2}
    Deadline = 2
    Horizon = 4
    MaxDelay = 0
    IngestTypes = {"human", "timeout"}
SPECIFICATION FairSpec
CHECK_DEADLOCK FALSE
INVARIANT GateSound
INVARIANT OutcomeIsTheRow
INVARIANT OneResolution
PROPERTY ResolutionIsFinal
PROPERTY GateEnds
PROPERTY ApprovalReachesGate
