SPECIFICATION FairSpec
CONSTANTS
    w1 = w1
    w2 = w2
    Workers = {w1}
    MaxMails = 2
    Passing = {1, 2}
    MaxFetch = 1
    MaxDeliveryAttempts = 2
    MaxPending = 1
    Budget <- BudgetLive
PROPERTIES
    PollRecovers
