-------------------------- MODULE RacingLockProofs --------------------------
(***************************************************************************)
(* What the promises RacingLock and DeploymentLock are worth to a client,  *)
(* for any projects, branches and attempts, and that the first is the      *)
(* second when no two attempts race for a project.                         *)
(***************************************************************************)
EXTENDS RacingLock, TLAPS

-----------------------------------------------------------------------------
(* DeploymentLock. *)

\* Whatever the projects and branches: a branch told that it holds a project is
\* its holder, so no two branches are (LockManager, storage.go:26-43).
THEOREM PromiseHolds ==
    ASSUME Free \notin Branches
    PROVE  Ideal!Spec => [](Ideal!TypeOK /\ Ideal!SingleHolder)
  <1> DEFINE Inv == Ideal!TypeOK /\ Ideal!SingleHolder
  <1>1. Ideal!Init => Inv
    BY DEF Ideal!Init, Ideal!TypeOK, Ideal!SingleHolder
  <1>2. Inv /\ [Ideal!Next]_(Ideal!vars) => Inv'
    <2> SUFFICES ASSUME Inv, [Ideal!Next]_(Ideal!vars)
                 PROVE  Inv'
      OBVIOUS
    <2>1. ASSUME NEW p \in Projects, NEW b \in Branches, Ideal!Grant(p, b)
          PROVE  Inv'
      <3>1. winners[p] \subseteq {b}
        BY <2>1 DEF Ideal!TypeOK, Ideal!SingleHolder, Ideal!Grant
      <3> QED BY <2>1, <3>1 DEF Ideal!TypeOK, Ideal!SingleHolder, Ideal!Grant
    <2>2. ASSUME NEW p \in Projects, NEW b \in Branches, Ideal!GrantUnannounced(p, b)
          PROVE  Inv'
      <3>1. winners[p] \subseteq {b}
        BY <2>2 DEF Ideal!TypeOK, Ideal!SingleHolder, Ideal!GrantUnannounced
      <3> QED BY <2>2, <3>1 DEF Ideal!TypeOK, Ideal!SingleHolder, Ideal!GrantUnannounced
    <2>3. ASSUME NEW p \in Projects, Ideal!Release(p)
          PROVE  Inv'
      BY <2>3 DEF Ideal!TypeOK, Ideal!SingleHolder, Ideal!Release
    <2>4. CASE Ideal!Reset
      BY <2>4 DEF Ideal!TypeOK, Ideal!SingleHolder, Ideal!Reset
    <2>5. CASE UNCHANGED Ideal!vars
      BY <2>5 DEF Ideal!TypeOK, Ideal!SingleHolder, Ideal!vars
    <2> QED BY <2>1, <2>2, <2>3, <2>4, <2>5 DEF Ideal!Next
  <1> QED BY <1>1, <1>2, PTL DEF Ideal!Spec

-----------------------------------------------------------------------------
(* RacingLock. *)

\* The type invariant of RacingLock (AcquireLock and PutIfAbsent).
THEOREM RacingTypes == Spec => []TypeOK
  <1>1. Init => TypeOK
    BY DEF Init, TypeOK
  <1>2. TypeOK /\ [Next]_vars => TypeOK'
    <2> SUFFICES ASSUME TypeOK, [Next]_vars
                 PROVE  TypeOK'
      OBVIOUS
    <2>1. ASSUME NEW t \in Race, Enter(t) \/ Take(t) \/ TakeUnannounced(t) \/ GiveUp(t)
          PROVE  TypeOK'
      <3>1. t.project \in Projects /\ t.branch \in Branches
        BY DEF Race
      <3> QED BY <2>1, <3>1 DEF TypeOK, Enter, Take, TakeUnannounced, GiveUp
    <2>2. ASSUME NEW p \in Projects, Release(p) \/ \E b \in Branches : Confirm(p, b)
          PROVE  TypeOK'
      BY <2>2 DEF TypeOK, Release, Confirm
    <2>3. CASE Reset
      BY <2>3 DEF TypeOK, Reset
    <2>4. CASE UNCHANGED vars
      BY <2>4 DEF TypeOK, vars
    <2> QED BY <2>1, <2>2, <2>3, <2>4 DEF Next
  <1> QED BY <1>1, <1>2, PTL DEF Spec

\* A lock nobody races for is kept by every step but a release and a restart
\* (PutIfAbsent, olric.go:326-357).
LEMMA SettledStep ==
    ASSUME TypeOK, [Next]_vars, NEW p \in Projects,
           holder[p] # Free, ~Contended(p), holder'[p] # Free
    PROVE  /\ holder'[p] = holder[p]
           /\ winners'[p] \subseteq winners[p] \cup {holder[p]}
           /\ ~Contended(p)'
  <1>1. ASSUME NEW t \in Race, Enter(t)
        PROVE  t.project # p
    BY <1>1 DEF Enter
  <1>2. ASSUME NEW t \in Race, Take(t) \/ TakeUnannounced(t) \/ GiveUp(t)
        PROVE  t.project # p
    BY <1>2 DEF Take, TakeUnannounced, GiveUp, Contended
  <1>3. ASSUME NEW t \in Race, t.project # p,
               Enter(t) \/ Take(t) \/ TakeUnannounced(t) \/ GiveUp(t)
        PROVE  holder'[p] = holder[p] /\ winners'[p] = winners[p] /\ ~Contended(p)'
    <2>1. racing' \subseteq racing \cup {t}
      BY <1>3 DEF Enter, Take, TakeUnannounced, GiveUp
    <2> QED BY <1>3, <2>1 DEF Enter, Take, TakeUnannounced, GiveUp, Contended, TypeOK
  <1>4. ASSUME NEW q \in Projects, Release(q)
        PROVE  holder'[p] = holder[p] /\ winners'[p] = winners[p] /\ ~Contended(p)'
    BY <1>4 DEF Release, Contended, TypeOK
  <1>5. ASSUME NEW q \in Projects, NEW b \in Branches, Confirm(q, b)
        PROVE  /\ holder'[p] = holder[p]
               /\ winners'[p] \subseteq winners[p] \cup {holder[p]}
               /\ ~Contended(p)'
    BY <1>5 DEF Confirm, Contended, TypeOK
  <1>6. CASE Reset
    BY <1>6 DEF Reset
  <1>7. CASE UNCHANGED vars
    BY <1>7 DEF vars, Contended
  <1> QED BY <1>1, <1>2, <1>3, <1>4, <1>5, <1>6, <1>7 DEF Next

\* Once no Put is under way for a project that is held, its lock is exclusive until
\* it is released, for any number of attempts (PutIfAbsent, olric.go:326-357).
THEOREM RacesSettle == Spec => SettledLockStays
  <1> DEFINE Stays ==
        \A p \in Projects :
          holder[p] # Free /\ ~Contended(p) /\ holder'[p] # Free =>
              /\ holder'[p] = holder[p]
              /\ winners'[p] \subseteq winners[p] \cup {holder[p]}
              /\ ~Contended(p)'
  <1>1. TypeOK /\ [Next]_vars => [Stays]_vars
    BY SettledStep
  <1> QED BY <1>1, RacingTypes, PTL DEF Spec, SettledLockStays

-----------------------------------------------------------------------------
(* One racer at a time. *)

\* While an attempt races its project is free, since nobody else could take it.
RacersFindFree == \A t \in racing : holder[t.project] = Free

SerialInv == TypeOK /\ OneRacer /\ RacersFindFree

LEMMA SerialStep ==
    ASSUME SerialInv, [Next /\ OneRacer']_vars
    PROVE  SerialInv' /\ [Ideal!Next]_(Ideal!vars)
  <1>0. /\ TypeOK
        /\ [Next]_vars
    BY DEF SerialInv
  <1>1. OneRacer'
    BY DEF SerialInv, OneRacer, vars
  <1>2. ASSUME NEW t \in Race, Enter(t)
        PROVE  TypeOK' /\ RacersFindFree' /\ UNCHANGED Ideal!vars
    BY <1>0, <1>2 DEF Enter, TypeOK, SerialInv, RacersFindFree, Ideal!vars
  <1>3. ASSUME NEW t \in Race, Take(t) \/ TakeUnannounced(t)
        PROVE  /\ TypeOK' /\ RacersFindFree'
               /\ Ideal!Grant(t.project, t.branch) \/ Ideal!GrantUnannounced(t.project, t.branch)
    <2>1. /\ t.project \in Projects /\ t.branch \in Branches
          /\ t \in racing /\ racing' = racing \ {t}
          /\ holder' = [holder EXCEPT ![t.project] = t.branch]
          /\ winners' \in {winners, [winners EXCEPT ![t.project] = @ \cup {t.branch}]}
      BY <1>3 DEF Race, Take, TakeUnannounced
    <2>2. holder[t.project] = Free /\ \A u \in racing' : u.project # t.project
      BY <2>1 DEF SerialInv, RacersFindFree, OneRacer
    <2>3. TypeOK'
      BY <1>0, <2>1 DEF TypeOK
    <2>4. RacersFindFree'
      BY <1>0, <2>1, <2>2 DEF SerialInv, RacersFindFree, TypeOK
    <2>5. Ideal!Grant(t.project, t.branch) \/ Ideal!GrantUnannounced(t.project, t.branch)
      BY <1>3, <2>2 DEF Take, TakeUnannounced, Ideal!Grant, Ideal!GrantUnannounced
    <2> QED BY <2>3, <2>4, <2>5
  <1>4. ASSUME NEW t \in Race, GiveUp(t)
        PROVE  TypeOK' /\ RacersFindFree' /\ UNCHANGED Ideal!vars
    BY <1>0, <1>4 DEF GiveUp, TypeOK, SerialInv, RacersFindFree, Ideal!vars
  <1>5. ASSUME NEW p \in Projects, NEW b \in Branches, Confirm(p, b)
        PROVE  TypeOK' /\ RacersFindFree' /\ Ideal!Grant(p, b)
    BY <1>0, <1>5 DEF Confirm, TypeOK, SerialInv, RacersFindFree, Ideal!Grant
  <1>6. ASSUME NEW p \in Projects, Release(p)
        PROVE  TypeOK' /\ RacersFindFree' /\ Ideal!Release(p)
    BY <1>0, <1>6 DEF Release, TypeOK, SerialInv, RacersFindFree, Ideal!Release, Race
  <1>7. ASSUME Reset
        PROVE  TypeOK' /\ RacersFindFree' /\ Ideal!Reset
    BY <1>7 DEF Reset, TypeOK, RacersFindFree, Ideal!Reset
  <1>8. ASSUME UNCHANGED vars
        PROVE  TypeOK' /\ RacersFindFree' /\ UNCHANGED Ideal!vars
    BY <1>0, <1>8 DEF vars, TypeOK, SerialInv, RacersFindFree, Ideal!vars
  <1>9. TypeOK' /\ RacersFindFree' /\ [Ideal!Next]_(Ideal!vars)
    <2>1. ASSUME NEW t \in Race, Take(t) \/ TakeUnannounced(t)
          PROVE  [Ideal!Next]_(Ideal!vars)
      BY <1>3, <2>1 DEF Race, Ideal!Next
    <2> QED BY <1>0, <1>2, <1>3, <1>4, <1>5, <1>6, <1>7, <1>8, <2>1 DEF Next, Ideal!Next
  <1> QED BY <1>1, <1>9 DEF SerialInv

\* If no two attempts race for a project at a time, every branch told that it holds
\* the project does: a lock per key around PutIfAbsent is all that is missing for the
\* promise of store.go:44-46.
THEOREM SerialRacesAreIdeal == SerialSpec => Ideal!Spec
  <1>1. Init => SerialInv /\ Ideal!Init
    BY DEF Init, SerialInv, TypeOK, OneRacer, RacersFindFree, Ideal!Init
  <1>2. SerialInv /\ [Next /\ OneRacer']_vars => SerialInv' /\ [Ideal!Next]_(Ideal!vars)
    BY SerialStep
  <1> QED BY <1>1, <1>2, PTL DEF SerialSpec, Ideal!Spec
=============================================================================
