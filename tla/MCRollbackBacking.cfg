SPECIFICATION Spec
CONSTANTS
    Capacity = 2
    MaxPages = 2
    Val = {v1}
    Name = {a, b, c}
    SubName = {c}
    Dir = {"sub"}
    Parent <- MCParent
    MaxEntries = 2
    MaxId = 3
    MaxGen = 5
    MaxCalls = 4
    MaxFaults = 2
SYMMETRY Symmetry
CHECK_DEADLOCK FALSE
INVARIANTS
    WitnessedKept
    PromiseKept
