CONSTANTS
    UintMax = 63
    N = 4
    Origin = 1
    Delta = 2
    Epsilon = 1
    Modes = {{"withdraw"}, {"recover"}, {"refund"}, {"withdraw", "recover"}}
    MaxFaults = 3
SPECIFICATION Spec
INVARIANTS
    TypeOK
    NeverStranded
    RetryAccepted
    OkMeansSettled
PROPERTIES
    EventuallySettled
