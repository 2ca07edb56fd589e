SPECIFICATION FairSpec
CONSTANTS
    w1 = w1
    r1 = r1
    r2 = r2
    Workers = {w1}
    Requests = {r1, r2}
    MaxGrants = 2
    MAX_CONSECUTIVE_FAILURES = 2
    Budget <- BudgetRaces
INVARIANTS
    TypeOK
    DisconnectHolds
PROPERTIES
    ReauthNeedsCause
    DeadGrantIsNoticed
