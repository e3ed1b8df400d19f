SPECIFICATION Spec
CONSTANTS
    o1 = o1
    o2 = o2
    Op = {o1, o2}
    Peers = 2
    Setting <- MCSetting
    FailureThreshold = 1
    HalfOpenMax = 1
    SuccessThreshold = 1
    RequestsPerRetry = 1
    Burst = 1
    MaxAttempts = 2
    MaxFaults = 2
INVARIANTS
    PermitsKept
    ServingUniform
    SendsAllowed
PROPERTIES
    OperationsEnd
CHECK_DEADLOCK FALSE
