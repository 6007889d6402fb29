CONSTANTS
    Pairs = {p1, p2, p3}
    NoPair = NoPair
    W = 1
    MaxQueue = 1
    Retries = 1
    Aggregate = TRUE
    DropFirstDone = TRUE
    MaxFaults = 0
    MaxRestarts = 0
SPECIFICATION FairSpec
PROPERTIES
    EveryoneServed
CHECK_DEADLOCK FALSE
