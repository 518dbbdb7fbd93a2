SPECIFICATION Spec
CONSTANTS
    Proc = {p}
    Fact = {f}
    Overlap = {FALSE}
    MaxCalls = 3
    MaxFaults = 2
SYMMETRY Symmetry
PROPERTIES
    AcknowledgedIsRecorded
CHECK_DEADLOCK FALSE
