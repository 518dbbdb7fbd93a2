SPECIFICATION FairSpec
CONSTANTS
    Fact = {1, 2, 3, 4}
    Overlap = FALSE
    MaxRows = 4
INVARIANTS
    
    FamiliesAreRight
PROPERTIES
    FoldEnds
