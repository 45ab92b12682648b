------------------------ MODULE LockRefinementProofs ------------------------
(***************************************************************************)
(* LockService implements RacingLock, and, if PutIfAbsent's window is not  *)
(* shared, DeploymentLock.  Each step of the service is a step of the      *)
(* abstract lock or leaves it alone; the rest are the theorems about the   *)
(* abstract locks (RacingLockProofs), read for the service.                *)
(***************************************************************************)
EXTENDS LockServiceProofs

Contract == INSTANCE RacingLockProofs WITH winners <- granted, Attempts <- Requests

\* The theorems of Contract are about the locks that LockService calls Racing and
\* Promise.
LEMMA SameContract ==
    /\ Contract!Init <=> Racing!Init
    /\ [Contract!Next]_(Contract!vars) <=> [Racing!Next]_(Racing!vars)
    /\ Contract!Ideal!Init <=> Promise!Init
    /\ [Contract!Ideal!Next]_(Contract!Ideal!vars) <=> [Promise!Next]_(Promise!vars)
  <1>1. Contract!Init <=> Racing!Init
    BY DEF Contract!Init, Racing!Init
  <1>2. Contract!Next <=> Racing!Next
    BY DEF Contract!Next, Racing!Next, Contract!Race, Racing!Race, Contract!Enter, Racing!Enter,
           Contract!Take, Racing!Take, Contract!TakeUnannounced, Racing!TakeUnannounced,
           Contract!GiveUp, Racing!GiveUp, Contract!Confirm, Racing!Confirm,
           Contract!Release, Racing!Release, Contract!Reset, Racing!Reset
  <1>3. Contract!Ideal!Init <=> Promise!Init
    BY DEF Contract!Ideal!Init, Promise!Init
  <1>4. Contract!Ideal!Next <=> Promise!Next
    BY DEF Contract!Ideal!Next, Promise!Next, Contract!Ideal!Grant, Promise!Grant,
           Contract!Ideal!GrantUnannounced, Promise!GrantUnannounced,
           Contract!Ideal!Release, Promise!Release, Contract!Ideal!Reset, Promise!Reset
  <1>5. /\ UNCHANGED Contract!vars <=> UNCHANGED Racing!vars
        /\ UNCHANGED Contract!Ideal!vars <=> UNCHANGED Promise!vars
    BY DEF Contract!vars, Racing!vars, Contract!Ideal!vars, Promise!vars
  <1> QED BY <1>1, <1>2, <1>3, <1>4, <1>5

-----------------------------------------------------------------------------
(* What the abstract lock sees of a step. *)

\* A request that was not in the race and does not join it.
LEMMA RaceKept ==
    ASSUME TypeOK, NEW m \in Requests, NEW point,
           pc[m] # "put", point # "put", pc' = [pc EXCEPT ![m] = point], req' = req
    PROVE  racing' = racing
  <1>1. \A q \in Requests : (pc'[q] = "put" <=> pc[q] = "put") /\ Attempt(q)' = Attempt(q)
    BY DEF TypeOK, Attempt
  <1> QED BY <1>1 DEF racing

\* A request joins the race by finding no lock in PutIfAbsent.
LEMMA RaceJoined ==
    ASSUME TypeOK, NEW m \in Requests, pc' = [pc EXCEPT ![m] = "put"], req' = req
    PROVE  racing' = racing \cup {Attempt(m)}
  <1>1. /\ pc'[m] = "put"
        /\ \A q \in Requests \ {m} : pc'[q] = pc[q]
        /\ \A q \in Requests : Attempt(q)' = Attempt(q)
    BY DEF TypeOK, Attempt
  <1> QED BY <1>1 DEF racing

\* A request leaves the race by getting its answer.
LEMMA RaceLeft ==
    ASSUME TypeOK, NEW m \in Requests, pc[m] = "put", pc' = [pc EXCEPT ![m] = "reply"], req' = req
    PROVE  racing' = racing \ {Attempt(m)}
  <1>1. /\ pc'[m] # "put"
        /\ \A q \in Requests \ {m} : pc'[q] = pc[q]
    BY DEF TypeOK
  <1>2. \A q, r \in Requests : Attempt(q) = Attempt(r) => q = r
    BY DEF Attempt
  <1>3. \A q \in Requests : Attempt(q)' = Attempt(q)
    BY DEF Attempt
  <1> QED BY <1>1, <1>2, <1>3 DEF racing

LEMMA LockRequestInFlight ==
    ASSUME IInv, NEW r \in Requests, pc[r] \in LockCalls
    PROVE  /\ req[r].project \in Projects /\ req[r].branch \in Branches
           /\ NewLock(r) \in Lock /\ NewLock(r) # NoLock /\ NewLock(r).branch = req[r].branch
           /\ Attempt(r) \in Racing!Race
  <1>1. req[r].project \in Projects /\ req[r].branch \in Branches
    BY DEF IInv, RequestInv, CallsOfOperation, LockCalls, InFlight, StoreCalls
  <1> QED BY <1>1, NoLockAssumption DEF NewLock, Lock, Attempt, Racing!Race

\* What a write does to the holder.
LEMMA HolderChange ==
    ASSUME TypeOK, NEW p \in Projects, NEW v \in Lock \cup {NoLock}, NEW told, Store(p, v, told)
    PROVE  /\ holder' = [holder EXCEPT ![p] = IF v = NoLock THEN Free ELSE v.branch]
           /\ granted' = [granted EXCEPT ![p] = IF v = NoLock THEN {} ELSE @ \cup told]
  BY DEF TypeOK, Store, holder

\* A Put: the attempt ends, and its branch holds the project.
LEMMA PutStep ==
    ASSUME IInv, NEW m \in Requests, pc[m] = "put", pc' = [pc EXCEPT ![m] = "reply"], req' = req,
           NEW told, Store(req[m].project, NewLock(m), told)
    PROVE  /\ told = {req[m].branch} => Racing!Take(Attempt(m))
           /\ told = {} => Racing!TakeUnannounced(Attempt(m))
  <1>0. TypeOK
    BY DEF IInv
  <1>1. /\ req[m].project \in Projects /\ req[m].branch \in Branches
        /\ NewLock(m) \in Lock /\ NewLock(m) # NoLock /\ NewLock(m).branch = req[m].branch
    BY LockRequestInFlight DEF LockCalls
  <1>2. racing' = racing \ {Attempt(m)}
    BY <1>0, RaceLeft, Zenon
  <1>3. /\ holder' = [holder EXCEPT ![req[m].project] = req[m].branch]
        /\ granted' = [granted EXCEPT ![req[m].project] = @ \cup told]
    BY <1>0, <1>1, HolderChange
  <1>4. /\ Attempt(m) \in racing
        /\ Attempt(m).project = req[m].project /\ Attempt(m).branch = req[m].branch
    BY DEF racing, Attempt
  <1>5. told = {} => granted' = granted
    BY <1>0, <1>3 DEF TypeOK
  <1> QED BY <1>2, <1>3, <1>4, <1>5 DEF Racing!Take, Racing!TakeUnannounced

\* A Delete frees the project.
LEMMA DeleteStep ==
    ASSUME IInv, NEW m \in Requests, pc[m] = "delete", pc' = [pc EXCEPT ![m] = "reply"], req' = req,
           Store(req[m].project, NoLock, {})
    PROVE  req[m].project \in Projects /\ Racing!Release(req[m].project)
  <1>0. TypeOK
    BY DEF IInv
  <1>1. req[m].project \in Projects
    BY DEF IInv, RequestInv, CallsOfOperation, InFlight, StoreCalls
  <1>2. racing' = racing
    <2>1. pc[m] # "put" /\ "reply" # "put"
      OBVIOUS
    <2> QED BY <1>0, <2>1, RaceKept, Zenon
  <1> QED BY <1>0, <1>1, <1>2, HolderChange DEF Racing!Release

\* An answer from a lock that was found.
LEMMA FoundStep ==
    ASSUME IInv, NEW m \in Requests, pc[m] \in {"existing", "reread"}, req' = req,
           dmap[req[m].project] # NoLock, AnswerFromExisting(m, dmap[req[m].project])
    PROVE  \/ UNCHANGED Racing!vars
           \/ /\ req[m].project \in Projects /\ req[m].branch \in Branches
              /\ Racing!Confirm(req[m].project, req[m].branch)
  <1>0. TypeOK
    BY DEF IInv
  <1>1. req[m].project \in Projects /\ req[m].branch \in Branches
    BY LockRequestInFlight DEF LockCalls
  <1>2. racing' = racing
    BY <1>0, RaceKept DEF AnswerFromExisting, Decide
  <1>3. CASE dmap[req[m].project].branch = req[m].branch
    <2>1. Succeed(m)
      BY <1>3 DEF AnswerFromExisting
    <2>2. holder[req[m].project] = req[m].branch /\ holder' = holder
      BY <1>1, <1>3, <2>1 DEF holder, Succeed
    <2> QED BY <1>1, <1>2, <2>1, <2>2 DEF Succeed, Racing!Confirm
  <1>4. CASE dmap[req[m].project].branch # req[m].branch
    BY <1>2, <1>4 DEF AnswerFromExisting, store, holder, Racing!vars
  <1> QED BY <1>3, <1>4

\* A step that writes nothing and neither enters the race nor leaves it.
LEMMA QuietStep ==
    ASSUME TypeOK, NEW m \in Requests, NEW point, pc[m] # "put", point # "put",
           pc' = [pc EXCEPT ![m] = point], req' = req, UNCHANGED store
    PROVE  UNCHANGED Racing!vars
  BY RaceKept DEF store, holder, Racing!vars

\* An arrival is not in the race yet.
LEMMA ArrivalIsQuiet ==
    ASSUME TypeOK, NEW m \in Requests, Arrive(m)
    PROVE  UNCHANGED Racing!vars
  <1>1. /\ pc[m] = "idle" /\ pc'[m] # "put" /\ UNCHANGED store
        /\ \A q \in Requests \ {m} : pc'[q] = pc[q] /\ req'[q] = req[q]
    <2>1. CASE Accept(m)
      BY <2>1, ValidRequest DEF Accept, Goto, TypeOK
    <2>2. CASE Reject(m) \/ RejectEscaped(m)
      BY <2>2 DEF Reject, RejectEscaped, Decide, TypeOK
    <2>3. CASE RouteMiss(m)
      BY <2>3 DEF RouteMiss, Decide, TypeOK
    <2> QED BY <2>1, <2>2, <2>3 DEF Arrive
  <1>2. racing' = racing
    <2>1. \A q \in Requests : (pc'[q] = "put" <=> pc[q] = "put") /\ (pc[q] = "put" => Attempt(q)' = Attempt(q))
      BY <1>1 DEF Attempt
    <2> QED BY <2>1 DEF racing
  <1> QED BY <1>1, <1>2 DEF store, holder, Racing!vars

\* Each step of the service is a step of RacingLock or a stutter.
LEMMA RacingStep ==
    ASSUME IInv, [Next]_vars
    PROVE  [Racing!Next]_(Racing!vars)
  <1>0. TypeOK
    BY DEF IInv
  <1>1. ASSUME NEW m \in Requests, GetExistingLock(m) \/ RereadLock(m)
        PROVE  [Racing!Next]_(Racing!vars)
    <2>1. CASE dmap[req[m].project] = NoLock
      BY <1>0, <1>1, <2>1, QuietStep DEF GetExistingLock, RereadLock, Goto, Decide, store
    <2>2. CASE dmap[req[m].project] # NoLock
      BY <1>1, <2>2, FoundStep DEF GetExistingLock, RereadLock, Racing!Next
    <2> QED BY <2>1, <2>2
  <1>2. ASSUME NEW m \in Requests, PutIfAbsentCheck(m)
        PROVE  [Racing!Next]_(Racing!vars)
    <2>1. CASE dmap[req[m].project] = NoLock
      <3>1. /\ Attempt(m) \in Racing!Race
            /\ req[m].project \in Projects
        BY <1>2, LockRequestInFlight DEF PutIfAbsentCheck, LockCalls
      <3>2. racing' = racing \cup {Attempt(m)}
        BY <1>0, <1>2, <2>1, RaceJoined, Zenon DEF PutIfAbsentCheck, Goto
      <3>3. \A u \in racing : u.attempt # m
        BY <1>2 DEF PutIfAbsentCheck, racing, Attempt
      <3>4. holder[req[m].project] = Free /\ holder' = holder /\ granted' = granted
        BY <1>2, <2>1, <3>1 DEF PutIfAbsentCheck, holder, store
      <3>5. Racing!Enter(Attempt(m))
        BY <3>2, <3>3, <3>4 DEF Racing!Enter, Attempt
      <3> QED BY <3>1, <3>5 DEF Racing!Next
    <2>2. CASE dmap[req[m].project] # NoLock
      BY <1>0, <1>2, <2>2, QuietStep DEF PutIfAbsentCheck, Goto
    <2> QED BY <2>1, <2>2
  <1>3. ASSUME NEW m \in Requests, PutIfAbsentStore(m)
        PROVE  [Racing!Next]_(Racing!vars)
    BY <1>3, PutStep, LockRequestInFlight DEF PutIfAbsentStore, Decide, LockCalls, Racing!Next
  <1>4. ASSUME NEW m \in Requests, StoreCallFailsApplied(m)
        PROVE  [Racing!Next]_(Racing!vars)
    <2>1. CASE pc[m] = "put"
      BY <1>4, <2>1, PutStep, LockRequestInFlight DEF StoreCallFailsApplied, Decide, LockCalls, Racing!Next
    <2>2. CASE pc[m] = "delete"
      BY <1>4, <2>2, DeleteStep DEF StoreCallFailsApplied, Decide, Racing!Next
    <2> QED BY <1>4, <2>1, <2>2 DEF StoreCallFailsApplied
  <1>5. ASSUME NEW m \in Requests, StoreCallFails(m)
        PROVE  [Racing!Next]_(Racing!vars)
    <2>1. CASE pc[m] = "put"
      <3>1. Attempt(m) \in Racing!Race /\ Attempt(m) \in racing
        BY <2>1, LockRequestInFlight DEF LockCalls, racing
      <3>2. racing' = racing \ {Attempt(m)}
        <4>1. pc' = [pc EXCEPT ![m] = "reply"] /\ req' = req
          BY <1>5 DEF StoreCallFails, Decide
        <4> QED BY <1>0, <2>1, <4>1, RaceLeft, Zenon
      <3>3. Racing!GiveUp(Attempt(m))
        BY <1>5, <3>1, <3>2 DEF StoreCallFails, store, holder, Racing!GiveUp
      <3> QED BY <3>1, <3>3 DEF Racing!Next
    <2>2. CASE pc[m] # "put"
      BY <1>0, <1>5, <2>2, QuietStep DEF StoreCallFails, Decide
    <2> QED BY <2>1, <2>2
  <1>6. ASSUME NEW m \in Requests, ReleaseLock(m)
        PROVE  [Racing!Next]_(Racing!vars)
    BY <1>6, DeleteStep DEF ReleaseLock, Decide, Racing!Next
  <1>7. ASSUME NEW m \in Requests, QueryLock(m) \/ Respond(m)
        PROVE  [Racing!Next]_(Racing!vars)
    BY <1>0, <1>7, QuietStep DEF QueryLock, Respond, Decide, Goto
  <1>8. ASSUME Restart
        PROVE  [Racing!Next]_(Racing!vars)
    <2>1. racing' = {}
      BY <1>0, <1>8 DEF Restart, racing, TypeOK
    <2> QED BY <1>8, <2>1 DEF Restart, holder, Racing!Reset, Racing!Next
  <1>9. ASSUME UNCHANGED vars
        PROVE  [Racing!Next]_(Racing!vars)
    BY <1>9 DEF vars, holder, racing, Attempt, Racing!vars
  <1> QED BY <1>0, <1>1, <1>2, <1>3, <1>4, <1>5, <1>6, <1>7, <1>8, <1>9, ArrivalIsQuiet
          DEF Next, Handle, AllHandled

-----------------------------------------------------------------------------
(* The results. *)

LEMMA RacingInit == Init => Racing!Init
  BY DEF Init, Racing!Init, holder, racing, Free

\* Whatever requests overlap, fail or die with the process, LockService implements
\* RacingLock (AcquireLock, ReleaseLock, PutIfAbsent).
THEOREM RacingRefinement == Spec => RacingPromiseKept
  <1> QED BY RacingInit, RacingStep, Invariance, PTL DEF Spec, RacingPromiseKept, Racing!Spec

\* So a lock for which no Put is under way stays until it is released, for any number
\* of requests (PutIfAbsent, olric.go:326-357).
THEOREM LocksSettle == Spec => SettledLockStays
  <1> DEFINE Stays ==
        \A p \in Projects :
          holder[p] # Free /\ ~Racing!Contended(p) /\ holder'[p] # Free =>
              /\ holder'[p] = holder[p]
              /\ granted'[p] \subseteq granted[p] \cup {holder[p]}
              /\ ~Racing!Contended(p)'
  <1>1. Racing!Spec => []Contract!TypeOK
    <2>1. Contract!Spec => []Contract!TypeOK
      BY Contract!RacingTypes
    <2> QED BY <2>1, SameContract, PTL DEF Racing!Spec, Contract!Spec
  <1>2. Contract!TypeOK /\ [Racing!Next]_(Racing!vars) => [Stays]_(Racing!vars)
    BY SameContract, Contract!SettledStep DEF Racing!Contended, Contract!Contended
  <1> QED BY <1>1, <1>2, RacingRefinement, PTL
          DEF RacingPromiseKept, Racing!Spec, SettledLockStays, Racing!SettledLockStays

\* If PutIfAbsent's window is not shared, no two attempts race for a project.
LEMMA SerialStep ==
    ASSUME IInv, OnePutAtATime, [SerialNext]_vars
    PROVE  [Next]_vars /\ OnePutAtATime'
  <1>0. TypeOK
    BY DEF IInv
  <1>1. ASSUME \A q \in Requests : pc'[q] = "put" => pc[q] = "put" /\ req'[q] = req[q]
        PROVE  OnePutAtATime'
    BY <1>1 DEF OnePutAtATime
  <1>2. ASSUME NEW m \in Requests, Arrive(m)
        PROVE  OnePutAtATime'
    <2>1. /\ pc'[m] # "put"
          /\ \A q \in Requests \ {m} : pc'[q] = pc[q] /\ req'[q] = req[q]
      <3>1. CASE Accept(m)
        BY <1>0, <3>1, ValidRequest DEF Accept, Goto, TypeOK
      <3>2. CASE Reject(m) \/ RejectEscaped(m)
        BY <1>0, <3>2 DEF Reject, RejectEscaped, Decide, TypeOK
      <3>3. CASE RouteMiss(m)
        BY <1>0, <3>3 DEF RouteMiss, Decide, TypeOK
      <3> QED BY <1>2, <3>1, <3>2, <3>3 DEF Arrive
    <2> QED BY <1>1, <2>1
  <1>3. ASSUME NEW m \in Requests, GetExistingLock(m) \/ RereadLock(m)
        PROVE  OnePutAtATime'
    BY <1>0, <1>1, <1>3 DEF GetExistingLock, RereadLock, AnswerFromExisting, Decide, Goto, TypeOK
  <1>4. ASSUME NEW m \in Requests, PutIfAbsentStore(m) \/ ReleaseLock(m) \/ QueryLock(m)
        PROVE  OnePutAtATime'
    BY <1>0, <1>1, <1>4 DEF PutIfAbsentStore, ReleaseLock, QueryLock, Decide, TypeOK
  <1>5. ASSUME NEW m \in Requests,
               StoreCallFails(m) \/ StoreCallFailsApplied(m) \/ Respond(m)
        PROVE  OnePutAtATime'
    BY <1>0, <1>1, <1>5 DEF StoreCallFails, StoreCallFailsApplied, Respond, Decide,
           Goto, TypeOK
  <1>6. ASSUME Restart
        PROVE  OnePutAtATime'
    BY <1>0, <1>1, <1>6 DEF Restart, TypeOK
  <1>7. ASSUME UNCHANGED vars
        PROVE  OnePutAtATime'
    BY <1>1, <1>7 DEF vars
  <1>8. [Next]_vars
    BY DEF SerialNext, Next, Handle
  <1> QED BY <1>2, <1>3, <1>4, <1>5, <1>6, <1>7, <1>8 DEF SerialNext, AllHandled

\* In that environment the service implements DeploymentLock, unlocks, failures and
\* restarts included: PutIfAbsent needs to be atomic and nothing else does
\* (storage.go:63-150).
THEOREM SerialRefinement == SerialSpec => PromiseKept
  <1>1. Init => IInv /\ OnePutAtATime
    BY InvInit DEF Init, OnePutAtATime
  <1>2. /\ IInv /\ OnePutAtATime /\ [SerialNext]_vars
        => /\ (IInv /\ OnePutAtATime)'
           /\ [Contract!Next /\ Contract!OneRacer']_(Contract!vars)
    <2> SUFFICES ASSUME IInv, OnePutAtATime, [SerialNext]_vars
                 PROVE  /\ (IInv /\ OnePutAtATime)'
                        /\ [Contract!Next /\ Contract!OneRacer']_(Contract!vars)
      OBVIOUS
    <2>1. [Next]_vars /\ OnePutAtATime'
      BY SerialStep
    <2>2. IInv' /\ [Contract!Next]_(Contract!vars)
      BY <2>1, InvStep, RacingStep, SameContract
    <2>3. Contract!OneRacer'
      BY <2>1 DEF OnePutAtATime, Contract!OneRacer, racing, Attempt
    <2> QED BY <2>1, <2>2, <2>3
  <1>3. Init => Contract!Init
    BY RacingInit, SameContract
  <1>4. SerialSpec => Contract!SerialSpec
    BY <1>1, <1>2, <1>3, PTL DEF SerialSpec, Contract!SerialSpec
  <1>5. Contract!SerialSpec => Contract!Ideal!Spec
    BY Contract!SerialRacesAreIdeal
  <1> QED BY <1>4, <1>5, SameContract, PTL DEF PromiseKept, Promise!Spec, Contract!Ideal!Spec

\* And then every branch told that it locked the project is the branch in the DMap
\* (PutIfAbsent, store.go:44-46).
THEOREM SerialSingleWinner == SerialSpec => []SingleWinner
  <1>1. Contract!Ideal!Spec => [](Contract!Ideal!TypeOK /\ Contract!Ideal!SingleHolder)
    BY NamesAssumption, Contract!PromiseHolds DEF Free
  <1>2. PromiseKept => Contract!Ideal!Spec
    BY SameContract, PTL DEF PromiseKept, Promise!Spec, Contract!Ideal!Spec
  <1>3. Contract!Ideal!TypeOK /\ Contract!Ideal!SingleHolder => SingleWinner
    BY NamesAssumption DEF Contract!Ideal!TypeOK, Contract!Ideal!SingleHolder, SingleWinner, holder, Free
  <1> QED BY <1>1, <1>2, <1>3, SerialRefinement, PTL
=============================================================================
