SPECIFICATION BreakerFairSpec
CONSTANTS
    Caller = {c1, c2, c3}
    FailureThreshold = 2
    OpenInitial = 1
    OpenMax = 3
    HalfOpenMax = 2
    SuccessThreshold = 3
    MaxFailures = 5
INVARIANTS
    ProbesCounted
PROPERTIES
    Recovers
