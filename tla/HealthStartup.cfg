SPECIFICATION FairSpec
CONSTANTS
    s1 = s1
    q1 = q1
    q2 = q2
    q3 = q3
    StartupProbes <- OneStartup
    ReadinessProbes <- OneReadiness
    Checkers <- ThreeCheckers
    CacheDuration = 1
    CheckTimeout = 1
    MaxTime = 0
INVARIANTS
    StartupSeesFailures
PROPERTIES
    EveryProbeAnswered
CHECK_DEADLOCK FALSE
