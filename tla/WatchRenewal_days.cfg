SPECIFICATION Spec
CONSTANTS
    a1 = a1
    a2 = a2
    None = None
    Accounts = {a1, a2}
    WATCH_TTL_DAYS = 4
    RENEW_WITHIN_DAYS = 3
    MAX_CONSECUTIVE_FAILURES = 3
    MaxAttempts = 2
    MaxFaults = 3
    MaxEndings = 1
SYMMETRY Symmetry
INVARIANTS
    TypeOK
    LapseNeedsFaults
    RecordedWatchIsReal
