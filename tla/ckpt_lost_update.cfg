SPECIFICATION Spec
CONSTANTS
    Session = {a, b}
    Proc = {p, q}
    Overlap = "sessions"
    DebounceTurns = 1
    StakesFrom = 1
    NoSession = none
    MaxTurns = 1
    MaxRuns = 3
    MaxCrashes = 0
INVARIANTS
    OtherBlocksPreserved
CHECK_DEADLOCK FALSE
