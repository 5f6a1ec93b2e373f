CONSTANTS
    Runs = {r1, r2}
    Configs <- MCAnytimeConfigs
    InitialAliases = 1
    DirectCounts <- MCDirect
    MaxHistory = 1
    MaxTime = 1
    MaxMade = 3
    MaxLost = 1
    MaxRuns = 2
    MaxChanges = 1
    Faults = TRUE
    TicksPerDay = 1
    MaxRetryDelay = 2
SPECIFICATION Spec
SYMMETRY Symmetry
INVARIANTS TotalLimitHonoured LimitsHonoured NoReplay HistoryComplete
PROPERTIES RunsNeverEnable
CHECK_DEADLOCK FALSE
