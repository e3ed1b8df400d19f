SPECIFICATION Spec
CONSTANTS
    Host = {a, b}
    Frontend = {f}
    Setting <- MCSetting
    MaxFlows = 2
    MaxGeneration = 2
    MaxFence = 3
    Op <- MCOp
    Auth <- MCAuth
    Root <- MCRoot
    NoRoot = NoRoot
    NilOp = NilOp
    NilAuth = NilAuth
SYMMETRY Symmetry
INVARIANTS AckedKept CurrentKept SessionKept
CHECK_DEADLOCK FALSE
