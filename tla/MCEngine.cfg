SPECIFICATION Spec
CONSTANTS
    Client = {c1, c2}
    Units = 2
    BlocksPerUnit = 2
    Requests <- RacingRequests
    MaxSlots = 2
    ByteLimits = {3, 4}
    BatchItems = 1
    ChunkUnits = 1
    Filled = {0}
    CacheSizes = {0, 1}
    MaxOps = 3
    MaxExpiries = 1
SYMMETRY Symmetric
CHECK_DEADLOCK FALSE
INVARIANTS
    NoLostUpdate
    ReadsLinear
    AckedDurable
    NeverStuck
