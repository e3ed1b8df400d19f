SPECIFICATION Spec
CONSTANTS
    Payload = {x}
    Tombstone = t
    SegmentSize = 3
    MaxLen = 3
    MaxSeq = 3
    MaxIdx = 3
    MaxFaults = 4
INVARIANTS
    AttachAccepts
    RecoversAcked
PROPERTIES
    FreshIndex
