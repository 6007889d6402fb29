CONSTANT N = 3
SPECIFICATION Spec
INVARIANTS
    PeersReaped
    RefundAfterLastLevel
    NoWitnessBeforeVector
PROPERTIES
    ImplementsIdeal
    AllOrNothing
CHECK_DEADLOCK FALSE
