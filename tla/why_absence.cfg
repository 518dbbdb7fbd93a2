SPECIFICATION QuerySpec
CONSTANTS
    Sid = {"a", "b"}
    Section <- Sections
    Forked = {"f2"}
    WhyMax = 2
    MaxWrites = 3
    MaxQueries = 1
INVARIANTS
    AbsenceIsSearched
CHECK_DEADLOCK FALSE
