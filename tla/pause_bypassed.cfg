CONSTANTS
    Runs = {r1, r2}
    Configs <- MCConfigs
    InitialAliases = 1
    DirectCounts <- MCDirect
    MaxHistory = 1
    MaxTime = 2
    MaxMade = 3
    MaxLost = 0
    MaxRuns = 2
    MaxChanges = 1
    Faults = FALSE
    TicksPerDay = 2
    MaxRetryDelay = 2
SPECIFICATION Spec
SYMMETRY Symmetry
PROPERTY PauseHonoured
CHECK_DEADLOCK FALSE
