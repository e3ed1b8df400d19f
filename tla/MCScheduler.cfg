SPECIFICATION Spec
CONSTANTS
    c1 = c1
    c2 = c2
    c3 = c3
    Caller = {c1, c2, c3}
    Workload <- MCWorkload
    TargetItems = 3
    MaxItems = 3
    MaxPending = 3
INVARIANTS
    CapacityKept
    OwnVerdict
    SentOnce
PROPERTIES
    Answered
CHECK_DEADLOCK FALSE
