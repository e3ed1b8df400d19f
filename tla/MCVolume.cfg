SPECIFICATION Spec
CONSTANTS
    Unit = {1, 2}
    Ciphertext = {p}
    Tombstone = t
    MaxLen = 3
    Window = 1
    MaxFails = 2
    MaxRecords = 2
    MaxFaults = 3
INVARIANTS
    CheckpointHonest
PROPERTIES
    ImplementsDurableVolume
