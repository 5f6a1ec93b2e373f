SPECIFICATION PagingSpec
CONSTANTS
    Limit = 2
    ScanLimit = 3
    MaxUID = 5
    MaxFailures = 1
INVARIANTS PagingTypeOK NoDuplicateNoGap
PROPERTIES PagingEnds
CHECK_DEADLOCK FALSE
