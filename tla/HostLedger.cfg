CONSTANTS
    UintMax = 63
    N = 4
    Origin = 1
    Delta = 2
    Epsilon = 1
    Horizon = 16
SPECIFICATION Spec
INVARIANTS
    TypeOK
    ScheduleRespected
    WithdrawalExtractable
    SnapshotRecoverable
