CONSTANTS
    Pairs = {p1}
    NoPair = NoPair
    W = 1
    MaxQueue = 0
    Retries = 1
    Aggregate = FALSE
    DropFirstDone = FALSE
    MaxFaults = 1
    MaxRestarts = 0
SPECIFICATION Spec
INVARIANTS
    WorkerReused
CHECK_DEADLOCK FALSE
