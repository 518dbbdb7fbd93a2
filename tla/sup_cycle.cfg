SPECIFICATION Spec
CONSTANTS
    Fact = {1, 2, 3}
    Overlap = FALSE
    MaxRows = 3
INVARIANTS
    EveryLineageHasATip
