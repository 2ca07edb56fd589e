SPECIFICATION Spec
CONSTANTS
    w1 = w1
    w2 = w2
    u1 = u1
    u2 = u2
    None = None
    Workers = {w1, w2}
    Mails <- SomeMails
    DomainRows <- SomeDomains
    KeywordRows <- SomeKeywords
    CacheTtl = 2
    MinKeywordScore = 1
    MaxQuery = 1
    MaxClock = 4
    MaxChanges = 2
SYMMETRY Symmetry
INVARIANTS
    TypeOK
    RulesTakeEffect
    InvalidationHolds
PROPERTIES
    RulesNeverGoBack
