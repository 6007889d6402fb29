CONSTANTS
    N = 2
    Port = {p1, p2}
SPECIFICATION Spec
INVARIANTS
    PortsNeverClash
PROPERTIES
    KeepsBarrier
    PhaseEnds
CHECK_DEADLOCK FALSE
