SPECIFICATION Spec
CONSTANTS
    a1 = a1
    a2 = a2
    b = b
    anon = anon
    U = U
    A = A
    B = B
    Session = {a1, b}
    Anonymous = anon
    Prefix = {A, B}
    PrefixOf <- MCPrefixOfTwo
    Link = Link
    NoPlan = NoPlan
    Archive = {TRUE, FALSE}
    Concurrent = {FALSE}
    MaxRuns = 3
    MaxDrift = 0
    MaxApplies = 1
PROPERTIES
    DefaultSessionResolves
CHECK_DEADLOCK FALSE
