SPECIFICATION FairSpec
CONSTANTS
    r1 = r1
    r2 = r2
    Requests <- TwoRequests
INVARIANTS
    TypeOK
    CollectorUsesOpenStore
    ReadyUntilShutdown
    CleanExit
PROPERTIES
    SignalEndsProcess
    ShutdownIsGraceful
CHECK_DEADLOCK FALSE
