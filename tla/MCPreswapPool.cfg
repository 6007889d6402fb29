CONSTANTS
    Pairs = {p1, p2, p3}
    NoPair = NoPair
    W = 2
    MaxQueue = 1
    Retries = 1
    Aggregate = FALSE
    DropFirstDone = TRUE
    MaxFaults = 2
    MaxRestarts = 1
SPECIFICATION Spec
SYMMETRY Symmetry
INVARIANTS
    TypeOK
    DurableBeforeKnown
    TablesAgree
    WorkConserving
    ShutdownCutsNoSession
CHECK_DEADLOCK FALSE
