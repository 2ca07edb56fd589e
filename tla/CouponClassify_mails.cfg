SPECIFICATION FairSpec
CONSTANTS
    w1 = w1
    w2 = w2
    m1 = m1
    m2 = m2
    Workers = {w1, w2}
    Mails = {m1, m2}
    Parsed <- SomeMails
    MaxDeliveryAttempts = 2
    MaxClock = 6
    Budget <- BudgetOnce
    MaxFaults = 2
CHECK_DEADLOCK FALSE
INVARIANTS
    TypeOK
    OneCouponPerDelivery
    LostTasksBounded
    AckNeedsReason
PROPERTIES
    CouponLedgerSpec
    PublishedIsSettled
