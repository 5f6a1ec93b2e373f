SPECIFICATION Spec
CONSTANTS
    MaxRecords = 3
    DayLength = 2
    Retention = 2
    Limit = 2
    MaxTime = 3
    MaxStarts = 2
INVARIANTS TypeOK AcknowledgedListed
PROPERTIES ExpiredRemoved
CHECK_DEADLOCK FALSE
