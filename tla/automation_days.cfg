CONSTANTS
    Runs = {r1}
    Configs <- MCDailyConfigs
    InitialAliases = 0
    DirectCounts <- MCDirect
    MaxHistory = 1
    MaxTime = 3
    MaxMade = 3
    MaxLost = 0
    MaxRuns = 3
    MaxChanges = 2
    Faults = FALSE
    TicksPerDay = 2
    MaxRetryDelay = 4
SPECIFICATION Spec
VIEW WithoutHistory
INVARIANTS TypeOK LimitsHonoured RuleCoherent
CHECK_DEADLOCK FALSE
