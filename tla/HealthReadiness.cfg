SPECIFICATION Spec
CONSTANTS
    s1 = s1
    q1 = q1
    q2 = q2
    q3 = q3
    StartupProbes <- NoProbes
    ReadinessProbes <- ThreeReadiness
    Checkers <- OwnCheckers
    CacheDuration = 1
    CheckTimeout = 1
    MaxTime = 3
SYMMETRY ProbeSymmetry
INVARIANTS
    TypeOK
    ResultsAreFresh
    NotReadySoonAfterShutdown
    ReadyOnlyWhenRunning
CHECK_DEADLOCK FALSE
