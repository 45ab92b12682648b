SPECIFICATION Spec
CONSTANTS
    c1 = c1
    c2 = c2
    Checks <- TwoChecks
    Stamps <- TwoStamps
    Timeout = 2
    TTL = 3
    MaxTime = 7
INVARIANTS
    TypeOK
    ErrorsAreReal
    LeftoversExplained
    TestKeysGoAway
    OnlyCleanUpIsLate
CHECK_DEADLOCK FALSE
