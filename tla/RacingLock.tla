----------------------------- MODULE RacingLock -----------------------------
(***************************************************************************)
(* What the service promises its clients when their requests overlap.      *)
(* PutIfAbsent (internal/store/olric.go:326-357) finds the key absent in   *)
(* one call and writes it in another.  Between the two an attempt races:   *)
(* it will take the project, whoever holds it by then.  DeploymentLock is  *)
(* the special case in which no two attempts race for a project.           *)
(***************************************************************************)
CONSTANTS
    Projects,    \* the names of the projects that can be locked
    Branches,    \* the names of the branches that ask for them
    Free,        \* the holder of a project that nobody holds, no branch
    Attempts     \* the calls of PutIfAbsent

VARIABLES
    holder,      \* holder[p]: the branch that holds project p, or Free
    winners,     \* winners[p]: the branches told "200 locked" since p was free
    racing       \* the attempts that found their project free and did not write yet

vars == <<holder, winners, racing>>

Race == [attempt : Attempts, project : Projects, branch : Branches]

TypeOK ==
    /\ holder  \in [Projects -> Branches \cup {Free}]
    /\ winners \in [Projects -> SUBSET Branches]
    /\ racing  \subseteq Race

Init ==
    /\ holder  = [p \in Projects |-> Free]
    /\ winners = [p \in Projects |-> {}]
    /\ racing  = {}

\* An attempt finds its project free.
Enter(t) ==
    /\ holder[t.project] = Free
    /\ \A u \in racing : u.attempt # t.attempt
    /\ racing' = racing \cup {t}
    /\ UNCHANGED <<holder, winners>>

\* It writes, over whatever is there, and is told so.
Take(t) ==
    /\ t \in racing
    /\ racing'  = racing \ {t}
    /\ holder'  = [holder EXCEPT ![t.project] = t.branch]
    /\ winners' = [winners EXCEPT ![t.project] = @ \cup {t.branch}]

\* It writes, and its request fails nevertheless.
TakeUnannounced(t) ==
    /\ t \in racing
    /\ racing' = racing \ {t}
    /\ holder' = [holder EXCEPT ![t.project] = t.branch]
    /\ UNCHANGED winners

\* It fails without a write.
GiveUp(t) ==
    /\ t \in racing
    /\ racing' = racing \ {t}
    /\ UNCHANGED <<holder, winners>>

\* A branch asks again for the project it holds.
Confirm(p, b) ==
    /\ holder[p] = b
    /\ winners' = [winners EXCEPT ![p] = @ \cup {b}]
    /\ UNCHANGED <<holder, racing>>

\* Releasing is idempotent, asks nothing of the caller, and stops no attempt.
Release(p) ==
    /\ holder'  = [holder EXCEPT ![p] = Free]
    /\ winners' = [winners EXCEPT ![p] = {}]
    /\ UNCHANGED racing

\* A restart of the only node frees every project and ends every attempt.
Reset ==
    /\ holder'  = [p \in Projects |-> Free]
    /\ winners' = [p \in Projects |-> {}]
    /\ racing'  = {}

Next ==
    \/ \E t \in Race : Enter(t) \/ Take(t) \/ TakeUnannounced(t) \/ GiveUp(t)
    \/ \E p \in Projects : Release(p) \/ \E b \in Branches : Confirm(p, b)
    \/ Reset

Spec == Init /\ [][Next]_vars

Contended(p) == \E t \in racing : t.project = p

\* The environment that makes PutIfAbsent atomic: a lock per key around it, say.
OneRacer == \A t, u \in racing : t.project = u.project => t = u

SerialSpec == Init /\ [][Next /\ OneRacer']_vars

-----------------------------------------------------------------------------

\* Once the race for a project is over its lock is a lock: as long as it is not
\* released no other branch gets it, nobody else is told to have it, and no new
\* attempt begins to race for it ("atomically stores a value only if the key does
\* not exist", store.go:44-46, from then on).
SettledLockStays ==
    [][\A p \in Projects :
         holder[p] # Free /\ ~Contended(p) /\ holder'[p] # Free =>
             /\ holder'[p] = holder[p]
             /\ winners'[p] \subseteq winners[p] \cup {holder[p]}
             /\ ~Contended(p)']_vars

\* Without overlapping attempts the service keeps the whole promise.
Ideal == INSTANCE DeploymentLock
=============================================================================
