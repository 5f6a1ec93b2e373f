CONSTANTS
    Accounts = {a1, a2}
    Clients = {c1}
    Runs = {r1}
    Pollers = {g1, g2, g3}
SPECIFICATION FairSpec
INVARIANTS TypeOK OnePoller ReconciledUnlessRaced
PROPERTIES StopReturns DueRuleRuns
CHECK_DEADLOCK FALSE
