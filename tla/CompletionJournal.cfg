CONSTANTS
    Frames = {f1, f2}
    NoFrame = NoFrame
    MaxCalls = 3
    MaxFaults = 3
SPECIFICATION Spec
INVARIANTS
    TypeOK
    RecordWhole
PROPERTIES
    StoredForGood
CHECK_DEADLOCK FALSE
