SPECIFICATION SerialSpec
CONSTANTS
    r1 = r1
    r2 = r2
    r3 = r3
    p1 = p1
    b1 = b1
    b2 = b2
    Requests <- ThreeRequests
    Projects <- OneProject
    Branches <- TwoBranches
    SlashedProjects <- OneProject
    BadName  = BadName
    NoBranch = NoBranch
    NoLock   = NoLock
    MaxRestarts = 1
INVARIANTS
    SingleWinner
PROPERTIES
    PromiseKept
