--------------------------- MODULE DeploymentLock ---------------------------
(***************************************************************************)
(* What the service promises its clients, whatever the store underneath:   *)
(* a project is free or held by one branch, and every branch that was told *)
(* it holds the project does hold it.  This is the contract stated by the  *)
(* LockManager interface (internal/storage/storage.go) and by PutIfAbsent  *)
(* of the Store interface (internal/store/store.go).  LockService says     *)
(* under which conditions the code keeps it.                               *)
(***************************************************************************)
CONSTANTS
    Projects,    \* the names of the projects that can be locked
    Branches,    \* the names of the branches that ask for them
    Free         \* the holder of a project that nobody holds, no branch

VARIABLES
    holder,      \* holder[p]: the branch that holds project p, or Free
    winners      \* winners[p]: the branches told "200 locked" since p was free

vars == <<holder, winners>>

TypeOK ==
    /\ holder  \in [Projects -> Branches \cup {Free}]
    /\ winners \in [Projects -> SUBSET Branches]

Init ==
    /\ holder  = [p \in Projects |-> Free]
    /\ winners = [p \in Projects |-> {}]

\* A branch takes a free project, or asks again for the one it holds.
Grant(p, b) ==
    /\ holder[p] \in {Free, b}
    /\ holder'  = [holder EXCEPT ![p] = b]
    /\ winners' = [winners EXCEPT ![p] = @ \cup {b}]

\* The lock is taken, and the branch does not learn it: its request failed
\* after the store had applied the write.
GrantUnannounced(p, b) ==
    /\ holder[p] \in {Free, b}
    /\ holder' = [holder EXCEPT ![p] = b]
    /\ UNCHANGED winners

\* Releasing is idempotent and asks nothing of the caller.
Release(p) ==
    /\ holder'  = [holder EXCEPT ![p] = Free]
    /\ winners' = [winners EXCEPT ![p] = {}]

\* The locks live in memory: a restart of the only node frees every project.
Reset ==
    /\ holder'  = [p \in Projects |-> Free]
    /\ winners' = [p \in Projects |-> {}]

Next ==
    \/ \E p \in Projects, b \in Branches : Grant(p, b) \/ GrantUnannounced(p, b)
    \/ \E p \in Projects : Release(p)
    \/ Reset

Spec == Init /\ [][Next]_vars

\* The promise: no two branches are told that they hold the same project, and
\* the branch that was told so is the one the store records.
SingleHolder == \A p \in Projects : winners[p] \subseteq {holder[p]}
=============================================================================
