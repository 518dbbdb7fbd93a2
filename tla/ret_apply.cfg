SPECIFICATION Spec
CONSTANTS
    a1 = a1
    a2 = a2
    b = b
    anon = anon
    U = U
    A = A
    B = B
    Session = {a1, a2, b, anon}
    Anonymous = anon
    Prefix = {A, B, U}
    PrefixOf <- MCPrefixOf
    Link = Link
    NoPlan = NoPlan
    Archive = {FALSE}
    Concurrent = {TRUE, FALSE}
    MaxRuns = 3
    MaxDrift = 1
    MaxApplies = 1
SYMMETRY Twins
INVARIANTS
    ReceiptsAreSound
PROPERTIES
    
    DeletesWhatWasConfirmed
    OnlyOldSessionsLose
CHECK_DEADLOCK FALSE
