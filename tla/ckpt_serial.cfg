SPECIFICATION FairSpec
CONSTANTS
    Session = {a, b}
    Proc = {p}
    Overlap = "none"
    DebounceTurns = 2
    StakesFrom = 2
    NoSession = none
    MaxTurns = 3
    MaxRuns = 3
    MaxCrashes = 1
PROPERTIES
    CheckpointBanks
    
CHECK_DEADLOCK FALSE
