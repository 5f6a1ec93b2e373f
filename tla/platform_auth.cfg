SPECIFICATION Spec
CONSTANTS
    Requests = {r1, r2}
    Names = {alice, bob}
    NoAdmin = none
    NoOne = no_one
    MaxSessions = 2
    Duration = 2
    MaxTime = 3
    MaxIssued = 4
INVARIANTS TypeOK SessionsOwned SessionsBounded
PROPERTIES AppointedOnce
