CONSTANTS
    Entries = {e1, e2, e3}
    MaxRequests = 3
    MaxSecret = 2
SPECIFICATION FairSpec
INVARIANTS TypeOK ConnectionsOwned NothingStale
PROPERTIES PoolQuiesces
CHECK_DEADLOCK FALSE
