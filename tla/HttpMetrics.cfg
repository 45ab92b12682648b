SPECIFICATION Spec
CONSTANTS
    r1 = r1
    r2 = r2
    p1 = p1
    p2 = p2
    p3 = p3
    none = none
    Requests <- TwoRequests
    Paths <- TwoPaths
    Patterns <- LockPattern
    RouteOf <- LockRoute
    Answers <- TwoAnswers
    Probes <- ThreeProbes
    NoProbe <- none
SYMMETRY RequestSymmetry
INVARIANTS
    TypeOK
    InFlightExact
    AnsweredIsCounted
    GaugesTellLastProbe
CHECK_DEADLOCK FALSE
