CONSTANTS
    NoHash = 0
    MaxLength = 4
    MaxDamage = 3
    MaxWritten = 1
SPECIFICATION EvidenceSpec
CHECK_DEADLOCK FALSE
INVARIANT WalkDecidesVerdict
INVARIANT LossIsIncomplete
INVARIANT ValidMeansHistory
INVARIANT AlterationDetected
INVARIANT WalkedStatusEarned
INVARIANT UntouchedIsWhole
