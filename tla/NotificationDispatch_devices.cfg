SPECIFICATION FairSpec
CONSTANTS
    w1 = w1
    w2 = w2
    k1 = k1
    k2 = k2
    Workers = {w1, w2}
    Tasks <- OneTask
    MaxAttempts <- Attempts
    Tokens = {k1, k2}
    MaxIds = 2
    Budget <- BudgetOnce
    MaxFaults = 3
CHECK_DEADLOCK FALSE
INVARIANTS
    TypeOK
    DuplicatesNeedFault
    DeliveriesRecorded
    DoneServesAll
PROPERTIES
    WaitingTaskServes
