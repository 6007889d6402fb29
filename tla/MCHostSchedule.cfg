CONSTANTS
    UintMax = 31
    MaxN = 5
SPECIFICATION CallSpec
INVARIANTS
    AdmissionExact
    WindowsInOrder
CHECK_DEADLOCK FALSE
