CONSTANT N = 3
SPECIFICATION Spec
INVARIANTS
    TypeOK
    ProofsThenLocks
    DerivedWitnesses
    AbortObserved
PROPERTY
    SealedFilesRest
CHECK_DEADLOCK FALSE
