CONSTANTS
    Requests = {p1, p2, p3}
    Challenges = {c1, c2}
    NoAccount = NoAccount
    NoClient = NoClient
    MaxRequests = 3
    MaxGen = 2
    MaxRev = 1
SPECIFICATION FairSpec
INVARIANTS TypeOK ChallengesOwned
PROPERTIES SessionNeverRegresses RemovalFinal RequestsFinish
CHECK_DEADLOCK FALSE
