SPECIFICATION Spec
CONSTANTS
    Session = {a, b}
    Proc = {p, q}
    Overlap = "sessions"
    DebounceTurns = 1
    StakesFrom = 1
    NoSession = none
    MaxTurns = 2
    MaxRuns = 3
    MaxCrashes = 1
SYMMETRY Symmetry

    
PROPERTIES
    BankRefinement
    JournalIsExact
CHECK_DEADLOCK FALSE
