SPECIFICATION MCSpec
CONSTANTS
    Vol = {v, w}
    Att = {p}
    Dev = {0}
    Pinned <- MCPinned
    FsPinned <- MCFsPinned
    MaxConn = 2
    MaxEnv = 2
    MaxFaults = 1
INVARIANTS
    NoOrphan
    SuccessEarned
PROPERTIES
    OwnOnly
    Converges
