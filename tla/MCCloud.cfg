CONSTANTS
    Participants <- MCParticipants
    ConcurrentPairs <- MCConcurrentPairs
    Modes <- MCModes
    HashOrder <- MCHashOrder
    Trials = 1
    Warmup = 1
    Campaign = "c1"
    Route = "eu_to_us"
    MaxStarts = 2
    MaxPairs = 2
    Unit = 20
    MODES <- MCModes
    PRIMARY_WORKLOADS <- MCPrimary
    LOAD_WORKLOADS <- MCLoad
    REQUIRED_COMPARISONS = {"complete_method_vs_reference"}
    Measurements <- MCMeasurements
    Build = "build"
    Keys = "eu_to_us"
    Archive <- MCArchive
    PValues = {3, 4}
SPECIFICATION FinalSpec
INVARIANTS
    CompletedAccepted
    OneExecution
    HolmStepDown
    NoMoreSignificant
PROPERTIES
    AttemptsEnd
CHECK_DEADLOCK FALSE
