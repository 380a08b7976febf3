CONSTANTS
    Owner = Owner
    t1 = t1
    Task = {Owner, t1}
    MaxOps = 3
SPECIFICATION Spec
CHECK_DEADLOCK FALSE
INVARIANT DecisionLinks
INVARIANT OutcomeIsKept
INVARIANT ConsentBeforeTool
INVARIANT ExitIsComplete
