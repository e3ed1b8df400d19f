SPECIFICATION FairSpec
CONSTANTS
    w1 = w1
    w2 = w2
    Writer = {w1, w2}
    Settings <- Limits
CHECK_DEADLOCK FALSE
INVARIANTS
    BoundsHeld
    NotRefusedEarly
PROPERTIES
    CallersReturn
    WorkDrained
