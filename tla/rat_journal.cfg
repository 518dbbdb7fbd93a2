SPECIFICATION Spec
CONSTANTS
    Proc = {p, q}
    Fact = {f}
    Overlap = {TRUE, FALSE}
    MaxCalls = 4
    MaxFaults = 2
SYMMETRY Symmetry
INVARIANTS
    ReaderFailsClosed
PROPERTIES
    VerdictsStand
CHECK_DEADLOCK FALSE
