SPECIFICATION Spec
CONSTANTS
    w1 = w1
    w2 = w2
    Workers = {w1, w2}
    MaxMails = 3
    Passing = {2, 3}
    MaxFetch = 1
    MaxDeliveryAttempts = 2
    MaxPending = 1
    Budget <- BudgetHandlers
SYMMETRY Symmetry
INVARIANTS
    TypeOK
    ClassifyAtMostOnce
    CursorCovers
    OrphansBounded
PROPERTIES
    LedgerSpec
    TruncationNeedsOverflow
