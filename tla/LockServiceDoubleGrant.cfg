SPECIFICATION Spec
CONSTANTS
    r1 = r1
    r2 = r2
    r3 = r3
    p1 = p1
    b1 = b1
    b2 = b2
    Requests <- TwoRequests
    Projects <- OneProject
    Branches <- TwoBranches
    SlashedProjects <- NoProjects
    BadName  = BadName
    NoBranch = NoBranch
    NoLock   = NoLock
    MaxRestarts = 0
INVARIANTS
    SingleWinner
