SPECIFICATION Spec
CONSTANTS
    Callers = {c1, c2}
    QueueSize = 2
    MaxAttempts = 2
    MaxNotices = 3
    MaxUpdates = 2
    MaxStarts = 2
INVARIANTS TypeOK SettingsPersisted
PROPERTIES DeliveryOrdered AcceptedAttempted CloseReturns
CHECK_DEADLOCK FALSE
