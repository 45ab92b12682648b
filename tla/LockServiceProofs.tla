-------------------------- MODULE LockServiceProofs --------------------------
(***************************************************************************)
(* Proofs about LockService, for any number of requests, projects,         *)
(* branches and restarts.  IInv says what each request saw of the store,   *)
(* WinnerInv which request may win.          *)
(***************************************************************************)
EXTENDS LockService, TLAPS

-----------------------------------------------------------------------------
(* Lemmas about the steps the actions are built from. *)

\* A decided answer keeps the types of pc and reply.
LEMMA DecideType ==
    ASSUME TypeOK, NEW r \in Requests, NEW code \in {200, 400, 404, 409, 500},
           NEW lock \in Lock \cup {NoLock}, Decide(r, code, lock)
    PROVE  /\ pc' \in [Requests -> PCs]
           /\ reply' \in [Requests -> Reply \cup {NoReply}]
  BY DEF TypeOK, Decide, Answer, Reply, PCs

\* Moving to another point keeps them as well.
LEMMA GotoType ==
    ASSUME TypeOK, NEW r \in Requests, NEW point \in PCs, Goto(r, point)
    PROVE  /\ pc' \in [Requests -> PCs]
           /\ reply' \in [Requests -> Reply \cup {NoReply}]
  BY DEF TypeOK, Goto

\* A write of a lock or of NoLock keeps the types of the store and its history.
LEMMA StoreType ==
    ASSUME TypeOK, NEW p \in Projects, NEW v \in Lock \cup {NoLock},
           NEW told \in SUBSET Branches, Store(p, v, told)
    PROVE  /\ dmap' \in [Projects -> Lock \cup {NoLock}]
           /\ seen' \in [Requests -> SUBSET (Lock \cup {NoLock})]
           /\ granted' \in [Projects -> SUBSET Branches]
           /\ overtaken' \in [Projects -> BOOLEAN]
  <1>1. dmap' \in [Projects -> Lock \cup {NoLock}]
    BY DEF TypeOK, Store
  <1>2. seen' \in [Requests -> SUBSET (Lock \cup {NoLock})]
    BY DEF TypeOK, Store
  <1>3. granted' \in [Projects -> SUBSET Branches]
    BY DEF TypeOK, Store
  <1>4. overtaken' \in [Projects -> BOOLEAN]
    <2>1. (v # NoLock /\ (overtaken[p] \/ (dmap[p] # NoLock /\ dmap[p].branch # v.branch)))
             \in BOOLEAN
      OBVIOUS
    <2> QED BY <2>1 DEF TypeOK, Store
  <1> QED BY <1>1, <1>2, <1>3, <1>4

-----------------------------------------------------------------------------
(* The inductive invariant. *)

LockCalls == {"existing", "check", "put", "reread"}

\* A request in flight makes the calls of its operation, with valid names.
CallsOfOperation(r) ==
    /\ pc[r] \in LockCalls => req[r].op = "lock"  /\ req[r].branch \in Branches
    /\ pc[r] = "delete"    => req[r].op = "unlock"
    /\ pc[r] = "query"     => req[r].op = "get"
    /\ InFlight(r)         => req[r].project \in Projects

\* The history of a request in flight includes the present.
SeenIsCurrent(r) == InFlight(r) => dmap[req[r].project] \in seen[r]

\* Past its first GetLock, a lock request saw its project free.
SawFree(r) == pc[r] \in {"check", "put", "reread"} => NoLock \in seen[r]

\* A request that lost the race inside PutIfAbsent saw the lock of another.
SawRival(r) == pc[r] = "reread" => \E l \in seen[r] \ {NoLock} : l.createdBy # r

\* What holds of each request.
RequestInv(r) ==
    /\ CallsOfOperation(r)
    /\ SeenIsCurrent(r)
    /\ SawFree(r)
    /\ SawRival(r)
    /\ pc[r] \in {"reply", "done"} /\ ~Unrouted(r) => JustifiedAnswer(r)
    /\ ExplainedError(r)

\* A stored lock was created by a request that is past its store calls.
CreatorDecided ==
    \A p \in Projects : dmap[p] # NoLock => pc[dmap[p].createdBy] \in {"reply", "done"}

IInv ==
    /\ TypeOK
    /\ \A r \in Requests : RequestInv(r)
    /\ CreatorDecided
    /\ SoleHolderUnlessOvertaken

-----------------------------------------------------------------------------
(* Type correctness. *)

\* A valid request carries the names its operation needs.
LEMMA ValidRequest ==
    ASSUME NEW q \in Request, Valid(q)
    PROVE  /\ q.project \in Projects
           /\ q.op \in {"lock", "unlock"} => q.branch \in Branches
           /\ q.op \in {"lock", "unlock", "get"}
           /\ FirstCall[q.op] = IF q.op = "lock" THEN "existing"
                                ELSE IF q.op = "unlock" THEN "delete" ELSE "query"
  BY DEF Request, Valid, FirstCall

\* The request made of a GET is one.
LEMMA GetRequest ==
    ASSUME NEW p \in Projects
    PROVE  [op |-> "get", project |-> p, branch |-> NoBranch] \in Request
  BY DEF Request

\* AcquireLock's answer from a lock it found keeps the types.
LEMMA AnswerType ==
    ASSUME TypeOK, NEW r \in Requests, CallsOfOperation(r), NEW existing \in Lock,
           pc[r] \in LockCalls, AnswerFromExisting(r, existing)
    PROVE  /\ pc' \in [Requests -> PCs]
           /\ reply' \in [Requests -> Reply \cup {NoReply}]
           /\ dmap' \in [Projects -> Lock \cup {NoLock}]
           /\ seen' \in [Requests -> SUBSET (Lock \cup {NoLock})]
           /\ granted' \in [Projects -> SUBSET Branches]
           /\ overtaken' \in [Projects -> BOOLEAN]
  <1>1. req[r].branch \in Branches /\ req[r].project \in Projects
    BY DEF CallsOfOperation, InFlight, StoreCalls, LockCalls
  <1>2. CASE existing.branch = req[r].branch
    <2>1. Decide(r, 200, existing) /\ Succeed(r)
      BY <1>2 DEF AnswerFromExisting
    <2>2. pc' \in [Requests -> PCs] /\ reply' \in [Requests -> Reply \cup {NoReply}]
      BY <2>1, DecideType
    <2> QED BY <1>1, <2>1, <2>2 DEF TypeOK, Succeed
  <1>3. CASE existing.branch # req[r].branch
    <2>1. Decide(r, 409, existing) /\ UNCHANGED <<store, seen>>
      BY <1>3 DEF AnswerFromExisting
    <2>2. pc' \in [Requests -> PCs] /\ reply' \in [Requests -> Reply \cup {NoReply}]
      BY <2>1, DecideType
    <2> QED BY <2>1, <2>2 DEF TypeOK, store
  <1> QED BY <1>2, <1>3

\* Every step keeps the types, as long as the calls fit the operation.
LEMMA TypeStep ==
    TypeOK /\ (\A r \in Requests : CallsOfOperation(r)) /\ [Next]_vars => TypeOK'
  <1> SUFFICES ASSUME TypeOK, \A r \in Requests : CallsOfOperation(r), [Next]_vars
               PROVE  TypeOK'
    OBVIOUS
  <1> USE NamesAssumption, NoLockAssumption, RestartsAssumption
  <1>1. ASSUME NEW r \in Requests, Accept(r)
        PROVE  TypeOK'
    <2>1. PICK q \in Request :
             /\ Valid(q)
             /\ req' = [req EXCEPT ![r] = q]
             /\ Goto(r, FirstCall[q.op])
             /\ seen' = [seen EXCEPT ![r] = {dmap[q.project]}]
      BY <1>1 DEF Accept
    <2>2. FirstCall[q.op] \in PCs /\ q.project \in Projects
      BY <2>1, ValidRequest DEF PCs, StoreCalls
    <2>3. pc' \in [Requests -> PCs] /\ reply' \in [Requests -> Reply \cup {NoReply}]
      BY <2>1, <2>2, GotoType
    <2>4. req' \in [Requests -> Request \cup {NoRequest}]
      BY <2>1 DEF TypeOK
    <2>5. seen' \in [Requests -> SUBSET (Lock \cup {NoLock})]
      BY <2>1, <2>2 DEF TypeOK
    <2> QED BY <1>1, <2>3, <2>4, <2>5 DEF TypeOK, Accept, store
  <1>2. ASSUME NEW r \in Requests, Reject(r)
        PROVE  TypeOK'
    <2>1. pc' \in [Requests -> PCs] /\ reply' \in [Requests -> Reply \cup {NoReply}]
      BY <1>2, DecideType DEF Reject
    <2>2. req' \in [Requests -> Request \cup {NoRequest}]
      BY <1>2 DEF TypeOK, Reject
    <2> QED BY <1>2, <2>1, <2>2 DEF TypeOK, Reject, store
  <1>3. ASSUME NEW r \in Requests, RouteMiss(r)
        PROVE  TypeOK'
    <2>1. pc' \in [Requests -> PCs] /\ reply' \in [Requests -> Reply \cup {NoReply}]
      BY <1>3, DecideType DEF RouteMiss
    <2>2. /\ req' \in [Requests -> Request \cup {NoRequest}]
          /\ seen' \in [Requests -> SUBSET (Lock \cup {NoLock})]
      BY <1>3, GetRequest DEF TypeOK, RouteMiss
    <2> QED BY <1>3, <2>1, <2>2 DEF TypeOK, RouteMiss, store
  <1>4. ASSUME NEW r \in Requests, RejectEscaped(r)
        PROVE  TypeOK'
    <2>1. pc' \in [Requests -> PCs] /\ reply' \in [Requests -> Reply \cup {NoReply}]
      BY <1>4, DecideType DEF RejectEscaped
    <2>2. /\ req' \in [Requests -> Request \cup {NoRequest}]
          /\ seen' \in [Requests -> SUBSET (Lock \cup {NoLock})]
      BY <1>4, GetRequest DEF TypeOK, RejectEscaped
    <2> QED BY <1>4, <2>1, <2>2 DEF TypeOK, RejectEscaped, store
  <1>5. ASSUME NEW r \in Requests, GetExistingLock(r)
        PROVE  TypeOK'
    <2>1. req[r].project \in Projects /\ pc[r] \in LockCalls
      BY <1>5 DEF GetExistingLock, CallsOfOperation, InFlight, StoreCalls, LockCalls
    <2>2. CASE dmap[req[r].project] = NoLock
      <3>1. pc' \in [Requests -> PCs] /\ reply' \in [Requests -> Reply \cup {NoReply}]
        BY <1>5, <2>2, GotoType DEF GetExistingLock, PCs, StoreCalls
      <3> QED BY <1>5, <2>2, <3>1 DEF GetExistingLock, TypeOK, store
    <2>3. CASE dmap[req[r].project] # NoLock
      <3>1. AnswerFromExisting(r, dmap[req[r].project]) /\ dmap[req[r].project] \in Lock
        BY <1>5, <2>1, <2>3 DEF GetExistingLock, TypeOK
      <3> QED BY <1>5, <2>1, <3>1, AnswerType DEF GetExistingLock, TypeOK
    <2> QED BY <2>2, <2>3
  <1>6. ASSUME NEW r \in Requests, PutIfAbsentCheck(r)
        PROVE  TypeOK'
    <2>1. pc' \in [Requests -> PCs] /\ reply' \in [Requests -> Reply \cup {NoReply}]
      BY <1>6, GotoType DEF PutIfAbsentCheck, PCs, StoreCalls
    <2> QED BY <1>6, <2>1 DEF PutIfAbsentCheck, TypeOK, store
  <1>7. ASSUME NEW r \in Requests, RereadLock(r)
        PROVE  TypeOK'
    <2>1. req[r].project \in Projects /\ pc[r] \in LockCalls
      BY <1>7 DEF RereadLock, CallsOfOperation, InFlight, StoreCalls, LockCalls
    <2>2. CASE dmap[req[r].project] = NoLock
      <3>1. pc' \in [Requests -> PCs] /\ reply' \in [Requests -> Reply \cup {NoReply}]
        BY <1>7, <2>2, DecideType DEF RereadLock
      <3> QED BY <1>7, <2>2, <3>1 DEF RereadLock, TypeOK, store
    <2>3. CASE dmap[req[r].project] # NoLock
      <3>1. AnswerFromExisting(r, dmap[req[r].project]) /\ dmap[req[r].project] \in Lock
        BY <1>7, <2>1, <2>3 DEF RereadLock, TypeOK
      <3> QED BY <1>7, <2>1, <3>1, AnswerType DEF RereadLock, TypeOK
    <2> QED BY <2>2, <2>3
  <1>8. ASSUME NEW r \in Requests, PutIfAbsentStore(r)
        PROVE  TypeOK'
    <2>1. req[r].project \in Projects /\ req[r].branch \in Branches /\ NewLock(r) \in Lock
      BY <1>8 DEF PutIfAbsentStore, CallsOfOperation, InFlight, StoreCalls, LockCalls, NewLock, Lock
    <2>2. pc' \in [Requests -> PCs] /\ reply' \in [Requests -> Reply \cup {NoReply}]
      BY <1>8, <2>1, DecideType DEF PutIfAbsentStore
    <2>3. /\ dmap' \in [Projects -> Lock \cup {NoLock}]
          /\ seen' \in [Requests -> SUBSET (Lock \cup {NoLock})]
          /\ granted' \in [Projects -> SUBSET Branches]
          /\ overtaken' \in [Projects -> BOOLEAN]
      BY <1>8, <2>1, StoreType DEF PutIfAbsentStore
    <2> QED BY <1>8, <2>2, <2>3 DEF PutIfAbsentStore, TypeOK
  <1>9. ASSUME NEW r \in Requests, ReleaseLock(r)
        PROVE  TypeOK'
    <2>1. req[r].project \in Projects
      BY <1>9 DEF ReleaseLock, CallsOfOperation, InFlight, StoreCalls
    <2>2. pc' \in [Requests -> PCs] /\ reply' \in [Requests -> Reply \cup {NoReply}]
      BY <1>9, DecideType DEF ReleaseLock
    <2>3. /\ dmap' \in [Projects -> Lock \cup {NoLock}]
          /\ seen' \in [Requests -> SUBSET (Lock \cup {NoLock})]
          /\ granted' \in [Projects -> SUBSET Branches]
          /\ overtaken' \in [Projects -> BOOLEAN]
      BY <1>9, <2>1, StoreType DEF ReleaseLock
    <2> QED BY <1>9, <2>2, <2>3 DEF ReleaseLock, TypeOK
  <1>10. ASSUME NEW r \in Requests, QueryLock(r)
         PROVE  TypeOK'
    <2>1. req[r].project \in Projects
      BY <1>10 DEF QueryLock, CallsOfOperation, InFlight, StoreCalls
    <2>2. dmap[req[r].project] \in Lock \cup {NoLock}
      BY <2>1 DEF TypeOK
    <2>3. pc' \in [Requests -> PCs] /\ reply' \in [Requests -> Reply \cup {NoReply}]
      BY <1>10, <2>2, DecideType DEF QueryLock
    <2> QED BY <1>10, <2>3 DEF QueryLock, TypeOK, store
  <1>11. ASSUME NEW r \in Requests, StoreCallFails(r)
         PROVE  TypeOK'
    <2>1. pc' \in [Requests -> PCs] /\ reply' \in [Requests -> Reply \cup {NoReply}]
      BY <1>11, DecideType DEF StoreCallFails
    <2> QED BY <1>11, <2>1 DEF StoreCallFails, TypeOK, store
  <1>12. ASSUME NEW r \in Requests, StoreCallFailsApplied(r)
         PROVE  TypeOK'
    <2>1. req[r].project \in Projects
      BY <1>12 DEF StoreCallFailsApplied, CallsOfOperation, InFlight, StoreCalls
    <2>2. pc' \in [Requests -> PCs] /\ reply' \in [Requests -> Reply \cup {NoReply}]
      BY <1>12, DecideType DEF StoreCallFailsApplied
    <2>3. pc[r] = "put" => NewLock(r) \in Lock
      BY DEF CallsOfOperation, LockCalls, NewLock, Lock
    <2>4. /\ dmap' \in [Projects -> Lock \cup {NoLock}]
          /\ seen' \in [Requests -> SUBSET (Lock \cup {NoLock})]
          /\ granted' \in [Projects -> SUBSET Branches]
          /\ overtaken' \in [Projects -> BOOLEAN]
      BY <1>12, <2>1, <2>3, StoreType DEF StoreCallFailsApplied
    <2> QED BY <1>12, <2>2, <2>4 DEF StoreCallFailsApplied, TypeOK
  <1>13. ASSUME NEW r \in Requests, Respond(r)
         PROVE  TypeOK'
    <2>1. pc' \in [Requests -> PCs] /\ reply' \in [Requests -> Reply \cup {NoReply}]
      BY <1>13, GotoType DEF Respond, PCs
    <2> QED BY <1>13, <2>1 DEF Respond, TypeOK, store
  <1>14. CASE Restart
    BY <1>14 DEF Restart, TypeOK, PCs
  <1>15. CASE UNCHANGED vars
    BY <1>15 DEF vars, TypeOK
  <1> QED
    BY <1>1, <1>2, <1>3, <1>4, <1>5, <1>6, <1>7, <1>8, <1>9, <1>10, <1>11, <1>12, <1>13,
       <1>14, <1>15 DEF Next, Arrive, Handle, AllHandled

-----------------------------------------------------------------------------
(* The invariant is inductive. *)

\* The requests that do not move keep what holds of them: a write adds its
\* value to their history, and nothing else of theirs changes.
LEMMA OthersKeep ==
    ASSUME IInv, NEW q \in Requests,
           pc'[q] = pc[q], req'[q] = req[q], reply'[q] = reply[q], faulted'[q] = faulted[q],
           \/ dmap' = dmap /\ seen'[q] = seen[q]
           \/ \E p \in Projects, v \in Lock \cup {NoLock}, told \in SUBSET Branches : Store(p, v, told)
    PROVE  RequestInv(q)'
  <1>1. /\ seen[q] \subseteq seen'[q]
        /\ InFlight(q) => dmap'[req[q].project] \in seen'[q]
    <2>1. InFlight(q) => dmap[req[q].project] \in seen[q] /\ req[q].project \in Projects
      BY DEF IInv, RequestInv, SeenIsCurrent, CallsOfOperation
    <2>2. CASE dmap' = dmap /\ seen'[q] = seen[q]
      BY <2>1, <2>2
    <2>3. CASE \E p \in Projects, v \in Lock \cup {NoLock}, told \in SUBSET Branches : Store(p, v, told)
      BY <2>1, <2>3 DEF IInv, TypeOK, Store
    <2> QED BY <2>2, <2>3
  <1>2. RequestInv(q)
    BY DEF IInv
  <1>3. CallsOfOperation(q)' /\ SeenIsCurrent(q)' /\ SawFree(q)' /\ SawRival(q)'
    BY <1>1, <1>2 DEF RequestInv, CallsOfOperation, SeenIsCurrent, SawFree, SawRival, InFlight
  <1>4. (pc[q] \in {"reply", "done"} /\ ~Unrouted(q) => JustifiedAnswer(q))'
    BY <1>1, <1>2 DEF RequestInv, JustifiedAnswer, Unrouted
  <1>5. ExplainedError(q)'
    BY <1>1, <1>2 DEF RequestInv, ExplainedError
  <1> QED BY <1>3, <1>4, <1>5 DEF RequestInv

\* A step that leaves the store alone, and takes no request out of "reply" or
\* "done", keeps the two invariants of the store.
LEMMA StoreKeeps ==
    ASSUME IInv, UNCHANGED store,
           \A q \in Requests : pc[q] \in {"reply", "done"} => pc'[q] \in {"reply", "done"}
    PROVE  CreatorDecided' /\ SoleHolderUnlessOvertaken'
  <1>1. \A p \in Projects : dmap[p] # NoLock => dmap[p].createdBy \in Requests
    BY DEF IInv, TypeOK, Lock
  <1>2. CreatorDecided'
    BY <1>1 DEF IInv, CreatorDecided, store
  <1>3. SoleHolderUnlessOvertaken'
    BY DEF IInv, SoleHolderUnlessOvertaken, store
  <1> QED BY <1>2, <1>3

\* A Put of r's own lock, announced to r's branch at most, keeps them too.
LEMMA PutKeeps ==
    ASSUME IInv, NEW r \in Requests, NEW told \in SUBSET {req[r].branch},
           pc[r] = "put", Store(req[r].project, NewLock(r), told),
           pc' = [pc EXCEPT ![r] = "reply"]
    PROVE  CreatorDecided' /\ SoleHolderUnlessOvertaken'
  <1> DEFINE p0 == req[r].project
  <1>1. p0 \in Projects /\ NewLock(r) \in Lock /\ req[r].branch \in Branches
    BY DEF IInv, RequestInv, CallsOfOperation, InFlight, StoreCalls, LockCalls, NewLock, Lock
  <1>2. NewLock(r).createdBy = r /\ NewLock(r).branch = req[r].branch /\ NewLock(r) # NoLock
    BY <1>1, NoLockAssumption DEF NewLock
  <1>3. /\ dmap'[p0] = NewLock(r)
        /\ \A p \in Projects \ {p0} : dmap'[p] = dmap[p]
    BY <1>1 DEF IInv, TypeOK, Store
  <1>4. CreatorDecided'
    <2>1. \A p \in Projects : dmap[p] # NoLock => dmap[p].createdBy \in Requests
      BY DEF IInv, TypeOK, Lock
    <2>2. pc'[r] = "reply" /\ \A q \in Requests \ {r} : pc'[q] = pc[q]
      BY DEF IInv, TypeOK
    <2> QED BY <1>2, <1>3, <2>1, <2>2 DEF IInv, CreatorDecided
  <1>5. SoleHolderUnlessOvertaken'
    <2>1. \A p \in Projects \ {p0} : granted'[p] = granted[p] /\ overtaken'[p] = overtaken[p]
      BY <1>1 DEF IInv, TypeOK, Store
    <2>2. granted'[p0] = granted[p0] \cup told
      BY <1>1, <1>2 DEF IInv, TypeOK, Store
    <2>3. ~overtaken'[p0] => /\ ~overtaken[p0]
                             /\ dmap[p0] # NoLock => dmap[p0].branch = req[r].branch
      BY <1>1, <1>2 DEF IInv, TypeOK, Store
    <2>4. ~overtaken'[p0] => \A b \in granted'[p0] : b = req[r].branch
      BY <1>1, <2>2, <2>3 DEF IInv, SoleHolderUnlessOvertaken
    <2>5. ASSUME NEW p \in Projects, ~overtaken'[p], NEW b \in granted'[p]
          PROVE  dmap'[p] # NoLock /\ dmap'[p].branch = b
      <3>1. CASE p = p0
        BY <1>2, <1>3, <2>4, <2>5, <3>1
      <3>2. CASE p # p0
        BY <1>3, <2>1, <2>5, <3>2 DEF IInv, SoleHolderUnlessOvertaken
      <3> QED BY <3>1, <3>2
    <2> QED BY <2>5 DEF SoleHolderUnlessOvertaken
  <1> QED BY <1>4, <1>5

\* A Delete keeps them.
LEMMA DeleteKeeps ==
    ASSUME IInv, NEW r \in Requests, NEW p0 \in Projects,
           pc[r] = "delete", Store(p0, NoLock, {}), pc' = [pc EXCEPT ![r] = "reply"]
    PROVE  CreatorDecided' /\ SoleHolderUnlessOvertaken'
  <1>1. /\ dmap'[p0] = NoLock /\ granted'[p0] = {}
        /\ \A p \in Projects \ {p0} :
              dmap'[p] = dmap[p] /\ granted'[p] = granted[p] /\ overtaken'[p] = overtaken[p]
    BY DEF IInv, TypeOK, Store
  <1>2. \A p \in Projects : dmap[p] # NoLock => dmap[p].createdBy \in Requests
    BY DEF IInv, TypeOK, Lock
  <1>3. pc'[r] = "reply" /\ \A q \in Requests \ {r} : pc'[q] = pc[q]
    BY DEF IInv, TypeOK
  <1>4. CreatorDecided'
    BY <1>1, <1>2, <1>3 DEF IInv, CreatorDecided
  <1>5. SoleHolderUnlessOvertaken'
    BY <1>1 DEF IInv, SoleHolderUnlessOvertaken
  <1> QED BY <1>4, <1>5

\* AcquireLock's answer from a lock it found keeps everything.
LEMMA AnswerKeeps ==
    ASSUME IInv, NEW r \in Requests, pc[r] \in {"existing", "reread"},
           dmap[req[r].project] # NoLock, AnswerFromExisting(r, dmap[req[r].project]),
           UNCHANGED <<req, faulted>>
    PROVE  /\ \A q \in Requests : RequestInv(q)'
           /\ CreatorDecided' /\ SoleHolderUnlessOvertaken'
  <1> DEFINE p0 == req[r].project
             code == IF dmap[p0].branch = req[r].branch THEN 200 ELSE 409
  <1>1. /\ p0 \in Projects /\ dmap[p0] \in Lock /\ req[r].op = "lock"
        /\ dmap[p0] \in seen[r] \ {NoLock}
    BY DEF IInv, TypeOK, RequestInv, CallsOfOperation, SeenIsCurrent, InFlight, StoreCalls, LockCalls
  <1>2. Decide(r, code, dmap[p0]) /\ dmap' = dmap /\ seen' = seen /\ overtaken' = overtaken
    BY DEF AnswerFromExisting, Succeed, store
  <1>3. /\ pc'[r] = "reply" /\ reply'[r] = Answer(code, dmap[p0])
        /\ \A q \in Requests \ {r} : pc'[q] = pc[q] /\ reply'[q] = reply[q]
    BY <1>2 DEF IInv, TypeOK, Decide
  <1>4. RequestInv(r)'
    <2>1. JustifiedAnswer(r)'
      BY <1>1, <1>2, <1>3 DEF JustifiedAnswer, Answer
    <2>2. ExplainedError(r)'
      BY <1>3 DEF ExplainedError, Answer
    <2> QED BY <1>3, <2>1, <2>2
            DEF RequestInv, CallsOfOperation, SeenIsCurrent, SawFree, SawRival, InFlight,
                StoreCalls, LockCalls
  <1>5. ASSUME NEW q \in Requests \ {r}
        PROVE  RequestInv(q)'
    BY <1>2, <1>3, OthersKeep
  <1>6. CreatorDecided'
    <2>1. \A p \in Projects : dmap[p] # NoLock => dmap[p].createdBy \in Requests
      BY DEF IInv, TypeOK, Lock
    <2> QED BY <1>2, <1>3, <2>1 DEF IInv, CreatorDecided
  <1>7. SoleHolderUnlessOvertaken'
    <2>1. \A p \in Projects : \A b \in granted'[p] :
             b \in granted[p] \/ (p = p0 /\ b = req[r].branch /\ dmap[p0].branch = b)
      BY <1>1 DEF IInv, TypeOK, AnswerFromExisting, Succeed, store
    <2> QED BY <1>2, <2>1 DEF IInv, SoleHolderUnlessOvertaken
  <1> QED BY <1>4, <1>5, <1>6, <1>7

\* Every request but the mover r keeps its pc, its answer, its fault mark.
LEMMA DecideEffect ==
    ASSUME TypeOK, NEW r \in Requests, NEW code, NEW lock, Decide(r, code, lock)
    PROVE  /\ pc'[r] = "reply" /\ reply'[r] = Answer(code, lock)
           /\ pc' = [pc EXCEPT ![r] = "reply"]
           /\ \A q \in Requests \ {r} : pc'[q] = pc[q] /\ reply'[q] = reply[q]
  BY DEF TypeOK, Decide

LEMMA GotoEffect ==
    ASSUME TypeOK, NEW r \in Requests, NEW point, Goto(r, point)
    PROVE  /\ pc'[r] = point /\ reply' = reply
           /\ \A q \in Requests \ {r} : pc'[q] = pc[q]
  BY DEF TypeOK, Goto

\* Each step keeps the invariant of every request and of the store.
LEMMA InvStep == IInv /\ [Next]_vars => IInv'
  <1> SUFFICES ASSUME IInv, [Next]_vars
               PROVE  IInv'
    OBVIOUS
  <1> USE NamesAssumption, NoLockAssumption
  <1> DEFINE Rest == (\A q \in Requests : RequestInv(q)') /\ CreatorDecided' /\ SoleHolderUnlessOvertaken'
  <1>0. TypeOK /\ TypeOK'
    BY TypeStep DEF IInv, RequestInv
  <1>1. ASSUME NEW r \in Requests, Accept(r)
        PROVE  Rest
    <2>1. PICK q \in Request :
             /\ Valid(q)
             /\ req' = [req EXCEPT ![r] = q]
             /\ Goto(r, FirstCall[q.op])
             /\ seen' = [seen EXCEPT ![r] = {dmap[q.project]}]
      BY <1>1 DEF Accept
    <2>2. /\ req'[r] = q /\ seen'[r] = {dmap[q.project]}
          /\ \A o \in Requests \ {r} : req'[o] = req[o] /\ seen'[o] = seen[o]
      BY <1>0, <2>1 DEF TypeOK
    <2>3. /\ pc'[r] = FirstCall[q.op] /\ reply' = reply
          /\ \A o \in Requests \ {r} : pc'[o] = pc[o]
      BY <1>0, <2>1, GotoEffect
    <2>4. RequestInv(r)'
      <3>1. CallsOfOperation(r)'
        BY <2>1, <2>2, <2>3, ValidRequest DEF CallsOfOperation, InFlight, StoreCalls, LockCalls
      <3>2. SeenIsCurrent(r)'
        BY <1>1, <2>2 DEF SeenIsCurrent, Accept, store
      <3> QED BY <2>1, <2>3, <3>1, <3>2, ValidRequest
              DEF RequestInv, SawFree, SawRival, ExplainedError
    <2>5. ASSUME NEW o \in Requests \ {r}
          PROVE  RequestInv(o)'
      BY <1>1, <2>2, <2>3, OthersKeep DEF Accept, store
    <2>6. CreatorDecided' /\ SoleHolderUnlessOvertaken'
      BY <1>1, <2>3, StoreKeeps DEF Accept
    <2> QED BY <2>4, <2>5, <2>6
  <1>2. ASSUME NEW r \in Requests, Reject(r)
        PROVE  Rest
    <2>1. /\ \A o \in Requests \ {r} : req'[o] = req[o]
          /\ dmap' = dmap /\ seen' = seen /\ faulted' = faulted
      BY <1>0, <1>2 DEF Reject, TypeOK, store
    <2>2. /\ pc'[r] = "reply" /\ reply'[r] = Answer(400, NoLock)
          /\ \A o \in Requests \ {r} : pc'[o] = pc[o] /\ reply'[o] = reply[o]
      BY <1>0, <1>2, DecideEffect DEF Reject
    <2>3. RequestInv(r)'
      BY <2>2 DEF RequestInv, CallsOfOperation, SeenIsCurrent, SawFree, SawRival,
                  JustifiedAnswer, ExplainedError, Answer, InFlight, StoreCalls, LockCalls
    <2>4. ASSUME NEW o \in Requests \ {r}
          PROVE  RequestInv(o)'
      BY <2>1, <2>2, OthersKeep
    <2>5. CreatorDecided' /\ SoleHolderUnlessOvertaken'
      BY <1>2, <2>2, StoreKeeps DEF Reject
    <2> QED BY <2>3, <2>4, <2>5
  <1>3. ASSUME NEW r \in Requests, RouteMiss(r)
        PROVE  Rest
    <2>1. /\ \A o \in Requests \ {r} :
                /\ req'[o] = req[o] /\ seen'[o] = seen[o]
                /\ pc'[o] = pc[o] /\ reply'[o] = reply[o]
          /\ dmap' = dmap /\ faulted' = faulted
          /\ pc'[r] = "reply" /\ reply'[r] = Answer(404, NoLock)
      BY <1>0, <1>3, DecideEffect DEF RouteMiss, TypeOK, store
    <2>2. RequestInv(r)'
      <3>1. Unrouted(r)'
        BY <1>0, <1>3, <2>1 DEF RouteMiss, TypeOK, Unrouted, Answer
      <3> QED BY <2>1, <3>1 DEF RequestInv, CallsOfOperation, SeenIsCurrent, SawFree, SawRival,
                  ExplainedError, Answer, InFlight, StoreCalls, LockCalls
    <2>3. ASSUME NEW o \in Requests \ {r}
          PROVE  RequestInv(o)'
      BY <2>1, OthersKeep
    <2>4. CreatorDecided' /\ SoleHolderUnlessOvertaken'
      BY <1>3, <2>1, StoreKeeps DEF RouteMiss
    <2> QED BY <2>2, <2>3, <2>4
  <1>4. ASSUME NEW r \in Requests, RejectEscaped(r)
        PROVE  Rest
    <2>1. /\ \A o \in Requests \ {r} : req'[o] = req[o] /\ seen'[o] = seen[o]
          /\ dmap' = dmap /\ faulted' = faulted
      BY <1>0, <1>4 DEF RejectEscaped, TypeOK, store
    <2>2. /\ pc'[r] = "reply" /\ reply'[r] = Answer(400, NoLock)
          /\ \A o \in Requests \ {r} : pc'[o] = pc[o] /\ reply'[o] = reply[o]
      BY <1>0, <1>4, DecideEffect DEF RejectEscaped
    <2>3. RequestInv(r)'
      BY <2>2 DEF RequestInv, CallsOfOperation, SeenIsCurrent, SawFree, SawRival,
                  JustifiedAnswer, ExplainedError, Answer, InFlight, StoreCalls, LockCalls
    <2>4. ASSUME NEW o \in Requests \ {r}
          PROVE  RequestInv(o)'
      BY <2>1, <2>2, OthersKeep
    <2>5. CreatorDecided' /\ SoleHolderUnlessOvertaken'
      BY <1>4, <2>2, StoreKeeps DEF RejectEscaped
    <2> QED BY <2>3, <2>4, <2>5
  <1>5. ASSUME NEW r \in Requests, GetExistingLock(r)
        PROVE  Rest
    <2>1. CASE dmap[req[r].project] = NoLock
      <3>1. /\ pc'[r] = "check" /\ reply' = reply
            /\ \A o \in Requests \ {r} : pc'[o] = pc[o]
        BY <1>0, <1>5, <2>1, GotoEffect DEF GetExistingLock
      <3>2. dmap' = dmap /\ seen' = seen /\ req' = req /\ faulted' = faulted
        BY <1>5, <2>1 DEF GetExistingLock, store
      <3>3. RequestInv(r)'
        BY <1>5, <2>1, <3>1, <3>2
           DEF GetExistingLock, IInv, RequestInv, CallsOfOperation, SeenIsCurrent, SawFree, SawRival,
               ExplainedError, InFlight, StoreCalls, LockCalls
      <3>4. ASSUME NEW o \in Requests \ {r}
            PROVE  RequestInv(o)'
        BY <3>1, <3>2, OthersKeep
      <3>5. CreatorDecided' /\ SoleHolderUnlessOvertaken'
        BY <1>5, <2>1, <3>1, StoreKeeps DEF GetExistingLock
      <3> QED BY <3>3, <3>4, <3>5
    <2>2. CASE dmap[req[r].project] # NoLock
      BY <1>5, <2>2, AnswerKeeps DEF GetExistingLock
    <2> QED BY <2>1, <2>2
  <1>6. ASSUME NEW r \in Requests, PutIfAbsentCheck(r)
        PROVE  Rest
    <2>1. /\ pc'[r] = IF dmap[req[r].project] = NoLock THEN "put" ELSE "reread"
          /\ reply' = reply
          /\ \A o \in Requests \ {r} : pc'[o] = pc[o]
      BY <1>0, <1>6, GotoEffect DEF PutIfAbsentCheck
    <2>2. dmap' = dmap /\ seen' = seen /\ req' = req /\ faulted' = faulted
      BY <1>6 DEF PutIfAbsentCheck, store
    <2>3. RequestInv(r)'
      <3>1. RequestInv(r) /\ pc[r] = "check" /\ req[r].project \in Projects
        BY <1>6 DEF IInv, PutIfAbsentCheck, RequestInv, CallsOfOperation, InFlight, StoreCalls
      <3>2. dmap[req[r].project] # NoLock => dmap[req[r].project].createdBy # r
        BY <3>1 DEF IInv, CreatorDecided
      <3>3. SawRival(r)'
        BY <2>1, <2>2, <3>1, <3>2 DEF RequestInv, SawRival, SeenIsCurrent, InFlight, StoreCalls
      <3> QED BY <2>1, <2>2, <3>1, <3>3
              DEF RequestInv, CallsOfOperation, SeenIsCurrent, SawFree,
                  ExplainedError, InFlight, StoreCalls, LockCalls
    <2>4. ASSUME NEW o \in Requests \ {r}
          PROVE  RequestInv(o)'
      BY <2>1, <2>2, OthersKeep
    <2>5. CreatorDecided' /\ SoleHolderUnlessOvertaken'
      BY <1>6, <2>1, StoreKeeps DEF PutIfAbsentCheck
    <2> QED BY <2>3, <2>4, <2>5
  <1>7. ASSUME NEW r \in Requests, PutIfAbsentStore(r)
        PROVE  Rest
    <2>1. /\ req[r].project \in Projects /\ req[r].branch \in Branches /\ req[r].op = "lock"
          /\ NewLock(r) \in Lock
      BY <1>7 DEF PutIfAbsentStore, IInv, RequestInv, CallsOfOperation, InFlight, StoreCalls,
                  LockCalls, NewLock, Lock
    <2>2. /\ pc'[r] = "reply" /\ reply'[r] = Answer(200, NewLock(r))
          /\ pc' = [pc EXCEPT ![r] = "reply"]
          /\ \A o \in Requests \ {r} : pc'[o] = pc[o] /\ reply'[o] = reply[o]
      BY <1>0, <1>7, DecideEffect DEF PutIfAbsentStore
    <2>3. RequestInv(r)'
      <3>1. NewLock(r) \in seen'[r] /\ req' = req
        BY <1>0, <1>7 DEF PutIfAbsentStore, Store, TypeOK, InFlight, StoreCalls
      <3>2. JustifiedAnswer(r)'
        BY <2>1, <2>2, <3>1 DEF JustifiedAnswer, Answer, NewLock
      <3> QED BY <2>2, <3>2 DEF RequestInv, CallsOfOperation, SeenIsCurrent, SawFree, SawRival,
                  ExplainedError, Answer, InFlight, StoreCalls, LockCalls
    <2>4. ASSUME NEW o \in Requests \ {r}
          PROVE  RequestInv(o)'
      BY <1>7, <2>1, <2>2, OthersKeep DEF PutIfAbsentStore
    <2>5. CreatorDecided' /\ SoleHolderUnlessOvertaken'
      BY <1>7, <2>2, PutKeeps DEF PutIfAbsentStore
    <2> QED BY <2>3, <2>4, <2>5
  <1>8. ASSUME NEW r \in Requests, RereadLock(r)
        PROVE  Rest
    <2>1. CASE dmap[req[r].project] = NoLock
      <3>1. /\ pc'[r] = "reply" /\ reply'[r] = Answer(500, NoLock)
            /\ \A o \in Requests \ {r} : pc'[o] = pc[o] /\ reply'[o] = reply[o]
        BY <1>0, <1>8, <2>1, DecideEffect DEF RereadLock
      <3>2. dmap' = dmap /\ seen' = seen /\ req' = req /\ faulted' = faulted
        BY <1>8, <2>1 DEF RereadLock, store
      <3>3. RequestInv(r)'
        BY <1>8, <3>1, <3>2
           DEF RereadLock, IInv, RequestInv, CallsOfOperation, SeenIsCurrent, SawFree, SawRival,
               JustifiedAnswer, ExplainedError, Answer, InFlight, StoreCalls, LockCalls
      <3>4. ASSUME NEW o \in Requests \ {r}
            PROVE  RequestInv(o)'
        BY <3>1, <3>2, OthersKeep
      <3>5. CreatorDecided' /\ SoleHolderUnlessOvertaken'
        BY <1>8, <2>1, <3>1, StoreKeeps DEF RereadLock
      <3> QED BY <3>3, <3>4, <3>5
    <2>2. CASE dmap[req[r].project] # NoLock
      BY <1>8, <2>2, AnswerKeeps DEF RereadLock
    <2> QED BY <2>1, <2>2
  <1>9. ASSUME NEW r \in Requests, ReleaseLock(r)
        PROVE  Rest
    <2>1. req[r].project \in Projects /\ req[r].op = "unlock" /\ pc[r] = "delete"
      BY <1>9 DEF ReleaseLock, IInv, RequestInv, CallsOfOperation, InFlight, StoreCalls
    <2>2. /\ pc'[r] = "reply" /\ reply'[r] = Answer(200, NoLock)
          /\ pc' = [pc EXCEPT ![r] = "reply"]
          /\ \A o \in Requests \ {r} : pc'[o] = pc[o] /\ reply'[o] = reply[o]
      BY <1>0, <1>9, DecideEffect DEF ReleaseLock
    <2>3. RequestInv(r)'
      <3>1. NoLock \in seen'[r] /\ req' = req
        BY <1>0, <1>9 DEF ReleaseLock, Store, TypeOK, InFlight, StoreCalls
      <3>2. JustifiedAnswer(r)'
        BY <2>1, <2>2, <3>1 DEF JustifiedAnswer, Answer
      <3> QED BY <2>2, <3>2 DEF RequestInv, CallsOfOperation, SeenIsCurrent, SawFree, SawRival,
                  ExplainedError, Answer, InFlight, StoreCalls, LockCalls
    <2>4. ASSUME NEW o \in Requests \ {r}
          PROVE  RequestInv(o)'
      BY <1>9, <2>1, <2>2, OthersKeep DEF ReleaseLock
    <2>5. CreatorDecided' /\ SoleHolderUnlessOvertaken'
      BY <1>9, <2>1, <2>2, DeleteKeeps DEF ReleaseLock
    <2> QED BY <2>3, <2>4, <2>5
  <1>10. ASSUME NEW r \in Requests, QueryLock(r)
         PROVE  Rest
    <2>1. /\ req[r].project \in Projects /\ req[r].op = "get"
          /\ dmap[req[r].project] \in seen[r]
      BY <1>10 DEF QueryLock, IInv, RequestInv, CallsOfOperation, SeenIsCurrent, InFlight, StoreCalls
    <2>2. /\ pc'[r] = "reply"
          /\ reply'[r] = Answer(IF dmap[req[r].project] = NoLock THEN 404 ELSE 200, dmap[req[r].project])
          /\ \A o \in Requests \ {r} : pc'[o] = pc[o] /\ reply'[o] = reply[o]
      BY <1>0, <1>10, DecideEffect DEF QueryLock
    <2>3. dmap' = dmap /\ seen' = seen /\ req' = req /\ faulted' = faulted
      BY <1>10 DEF QueryLock, store
    <2>4. RequestInv(r)'
      <3>1. JustifiedAnswer(r)'
        BY <2>1, <2>2, <2>3 DEF JustifiedAnswer, Answer
      <3>2. ExplainedError(r)'
        BY <2>2 DEF ExplainedError, Answer
      <3> QED BY <2>2, <3>1, <3>2 DEF RequestInv, CallsOfOperation, SeenIsCurrent, SawFree, SawRival,
                  InFlight, StoreCalls, LockCalls
    <2>5. ASSUME NEW o \in Requests \ {r}
          PROVE  RequestInv(o)'
      BY <2>2, <2>3, OthersKeep
    <2>6. CreatorDecided' /\ SoleHolderUnlessOvertaken'
      BY <1>10, <2>2, StoreKeeps DEF QueryLock
    <2> QED BY <2>4, <2>5, <2>6
  <1>11. ASSUME NEW r \in Requests, StoreCallFails(r)
         PROVE  Rest
    <2>1. /\ pc'[r] = "reply" /\ reply'[r] = Answer(500, NoLock)
          /\ \A o \in Requests \ {r} : pc'[o] = pc[o] /\ reply'[o] = reply[o]
      BY <1>0, <1>11, DecideEffect DEF StoreCallFails
    <2>2. /\ dmap' = dmap /\ seen' = seen /\ req' = req
          /\ faulted'[r] = TRUE /\ \A o \in Requests \ {r} : faulted'[o] = faulted[o]
      BY <1>0, <1>11 DEF StoreCallFails, store, TypeOK
    <2>3. RequestInv(r)'
      BY <2>1, <2>2 DEF RequestInv, CallsOfOperation, SeenIsCurrent, SawFree, SawRival,
                  JustifiedAnswer, ExplainedError, Answer, InFlight, StoreCalls, LockCalls
    <2>4. ASSUME NEW o \in Requests \ {r}
          PROVE  RequestInv(o)'
      BY <2>1, <2>2, OthersKeep
    <2>5. CreatorDecided' /\ SoleHolderUnlessOvertaken'
      BY <1>11, <2>1, StoreKeeps DEF StoreCallFails
    <2> QED BY <2>3, <2>4, <2>5
  <1>12. ASSUME NEW r \in Requests, StoreCallFailsApplied(r)
         PROVE  Rest
    <2>1. /\ pc'[r] = "reply" /\ reply'[r] = Answer(500, NoLock)
          /\ pc' = [pc EXCEPT ![r] = "reply"]
          /\ \A o \in Requests \ {r} : pc'[o] = pc[o] /\ reply'[o] = reply[o]
      BY <1>0, <1>12, DecideEffect DEF StoreCallFailsApplied
    <2>2. /\ req' = req
          /\ faulted'[r] = TRUE /\ \A o \in Requests \ {r} : faulted'[o] = faulted[o]
      BY <1>0, <1>12 DEF StoreCallFailsApplied, TypeOK
    <2>3. /\ req[r].project \in Projects
          /\ pc[r] = "put" => NewLock(r) \in Lock
      BY <1>12 DEF StoreCallFailsApplied, IInv, RequestInv, CallsOfOperation, InFlight, StoreCalls,
                   LockCalls, NewLock, Lock
    <2>4. RequestInv(r)'
      BY <2>1, <2>2 DEF RequestInv, CallsOfOperation, SeenIsCurrent, SawFree, SawRival,
                  JustifiedAnswer, ExplainedError, Answer, InFlight, StoreCalls, LockCalls
    <2>5. ASSUME NEW o \in Requests \ {r}
          PROVE  RequestInv(o)'
      BY <1>12, <2>1, <2>2, <2>3, OthersKeep DEF StoreCallFailsApplied
    <2>6. CreatorDecided' /\ SoleHolderUnlessOvertaken'
      BY <1>12, <2>1, <2>3, PutKeeps, DeleteKeeps DEF StoreCallFailsApplied
    <2> QED BY <2>4, <2>5, <2>6
  <1>13. ASSUME NEW r \in Requests, Respond(r)
         PROVE  Rest
    <2>1. /\ pc'[r] = "done" /\ reply' = reply /\ pc[r] = "reply"
          /\ \A o \in Requests \ {r} : pc'[o] = pc[o]
      BY <1>0, <1>13, GotoEffect DEF Respond
    <2>2. dmap' = dmap /\ seen' = seen /\ req' = req /\ faulted' = faulted
      BY <1>13 DEF Respond, store
    <2>3. RequestInv(r)'
      BY <2>1, <2>2
         DEF IInv, RequestInv, CallsOfOperation, SeenIsCurrent, SawFree, SawRival,
             JustifiedAnswer, Unrouted, ExplainedError, InFlight, StoreCalls, LockCalls
    <2>4. ASSUME NEW o \in Requests \ {r}
          PROVE  RequestInv(o)'
      BY <2>1, <2>2, OthersKeep
    <2>5. CreatorDecided' /\ SoleHolderUnlessOvertaken'
      BY <1>13, <2>1, StoreKeeps DEF Respond
    <2> QED BY <2>3, <2>4, <2>5
  <1>14. ASSUME Restart
         PROVE  Rest
    <2>1. ASSUME NEW q \in Requests
          PROVE  RequestInv(q)'
      <3>1. /\ pc'[q] = IF pc[q] \in {"idle", "done"} THEN pc[q] ELSE "lost"
            /\ req' = req /\ reply' = reply /\ seen' = seen /\ faulted' = faulted
        BY <1>14 DEF Restart
      <3> QED BY <3>1 DEF IInv, RequestInv, CallsOfOperation, SeenIsCurrent, SawFree, SawRival,
                  JustifiedAnswer, Unrouted, ExplainedError, InFlight, StoreCalls, LockCalls
    <2>2. CreatorDecided' /\ SoleHolderUnlessOvertaken'
      BY <1>14 DEF Restart, CreatorDecided, SoleHolderUnlessOvertaken
    <2> QED BY <2>1, <2>2
  <1>15. ASSUME UNCHANGED vars
         PROVE  Rest
    <2>1. ASSUME NEW q \in Requests
          PROVE  RequestInv(q)'
      BY <1>15, OthersKeep DEF vars
    <2>2. CreatorDecided' /\ SoleHolderUnlessOvertaken'
      BY <1>15, StoreKeeps DEF vars, store
    <2> QED BY <2>1, <2>2
  <1>16. Rest
    BY <1>1, <1>2, <1>3, <1>4, <1>5, <1>6, <1>7, <1>8, <1>9, <1>10, <1>11, <1>12, <1>13,
       <1>14, <1>15 DEF Next, Arrive, Handle, AllHandled
  <1> QED BY <1>0, <1>16 DEF IInv

LEMMA InvInit == Init => IInv
  <1> SUFFICES ASSUME Init
               PROVE  IInv
    OBVIOUS
  <1>1. TypeOK
    BY RestartsAssumption DEF Init, TypeOK, PCs
  <1>2. ASSUME NEW r \in Requests
        PROVE  RequestInv(r)
    BY DEF Init, RequestInv, CallsOfOperation, SeenIsCurrent, SawFree, SawRival, ExplainedError,
           InFlight, StoreCalls, LockCalls
  <1>3. CreatorDecided /\ SoleHolderUnlessOvertaken
    BY DEF Init, CreatorDecided, SoleHolderUnlessOvertaken
  <1> QED BY <1>1, <1>2, <1>3 DEF IInv

THEOREM Invariance == Spec => []IInv
  <1>1. Init => IInv
    BY InvInit
  <1>2. IInv /\ [Next]_vars => IInv'
    BY InvStep
  <1> QED BY <1>1, <1>2, PTL DEF Spec

-----------------------------------------------------------------------------
(* What follows for every number of requests, projects, branches and       *)
(* restarts, with store errors anywhere.                                   *)

\* The variables keep their types (the handlers of lock.go and the calls they make).
THEOREM TypeCorrect == Spec => []TypeOK
  <1>1. IInv => TypeOK
    BY DEF IInv
  <1> QED BY <1>1, Invariance, PTL

\* Every answer of HandleLock, HandleUnlock and HandleGetLock was true at some moment
\* while its request ran.
THEOREM AnswersAreJustified == Spec => []AnswersJustified
  <1>1. IInv => AnswersJustified
    BY DEF IInv, RequestInv, AnswersJustified
  <1> QED BY <1>1, Invariance, PTL

\* Without a store error, a 500 means that the lock was released between PutIfAbsent
\* and the GetLock after it (storage.go:126-132).
THEOREM ErrorsAreExplained == Spec => []ErrorsExplained
  <1>1. IInv => ErrorsExplained
    BY DEF IInv, RequestInv, ErrorsExplained
  <1> QED BY <1>1, Invariance, PTL

\* Two branches are granted one project only after a Put of PutIfAbsent replaced the
\* lock of one by the lock of the other (olric.go:335-356).
THEOREM HolderIsSole == Spec => []SoleHolderUnlessOvertaken
  <1>1. IInv => SoleHolderUnlessOvertaken
    BY DEF IInv
  <1> QED BY <1>1, Invariance, PTL

\* A held lock is replaced only by a request that saw the project free while it
\* ran: the race window of PutIfAbsent (olric.go:328) is the lifetime of one
\* request, and a lock set before the request arrived is never lost to it.
ReplacedOnlyInRaceWindow ==
    [][\A p \in Projects :
         (dmap[p] # NoLock /\ dmap'[p] \notin {dmap[p], NoLock}) =>
             NoLock \in seen[dmap'[p].createdBy]]_vars

\* It is kept, for any number of requests, projects and restarts (PutIfAbsent,
\* olric.go:335-356).
THEOREM ReplacementsAreRaces == Spec => ReplacedOnlyInRaceWindow
  <1> DEFINE A == \A p \in Projects :
                    (dmap[p] # NoLock /\ dmap'[p] \notin {dmap[p], NoLock}) =>
                        NoLock \in seen[dmap'[p].createdBy]
  <1>1. IInv /\ [Next]_vars => [A]_vars
    <2> SUFFICES ASSUME IInv, Next, NEW p \in Projects,
                        dmap[p] # NoLock, dmap'[p] \notin {dmap[p], NoLock}
                 PROVE  NoLock \in seen[dmap'[p].createdBy]
      OBVIOUS
    <2>1. PICK r \in Requests : pc[r] = "put" /\ req[r].project = p /\ dmap'[p] = NewLock(r)
      <3>1. \/ \E r \in Requests :
                  PutIfAbsentStore(r) \/ StoreCallFailsApplied(r) \/ ReleaseLock(r)
            \/ Restart
            \/ UNCHANGED dmap
        <4>1. ASSUME NEW r \in Requests, Arrive(r) \/ Respond(r)
              PROVE  UNCHANGED dmap
          BY <4>1 DEF Arrive, Accept, Reject, RouteMiss, RejectEscaped, Respond, store
        <4>2. ASSUME NEW r \in Requests, GetExistingLock(r) \/ RereadLock(r)
              PROVE  UNCHANGED dmap
          BY <4>2 DEF GetExistingLock, RereadLock, AnswerFromExisting, Succeed, store
        <4>3. ASSUME NEW r \in Requests,
                     PutIfAbsentCheck(r) \/ QueryLock(r) \/ StoreCallFails(r)
              PROVE  UNCHANGED dmap
          BY <4>3 DEF PutIfAbsentCheck, QueryLock, StoreCallFails, store
        <4>4. ASSUME AllHandled
              PROVE  UNCHANGED dmap
          BY <4>4 DEF AllHandled, vars
        <4> QED BY <4>1, <4>2, <4>3, <4>4 DEF Next, Handle
      <3>2. CASE Restart
        BY <3>2 DEF Restart
      <3>3. CASE UNCHANGED dmap
        BY <3>3
      <3>4. ASSUME NEW r \in Requests,
                   PutIfAbsentStore(r) \/ StoreCallFailsApplied(r) \/ ReleaseLock(r)
            PROVE  pc[r] = "put" /\ req[r].project = p /\ dmap'[p] = NewLock(r)
        <4>1. \/ pc[r] = "put" /\ dmap' = [dmap EXCEPT ![req[r].project] = NewLock(r)]
              \/ dmap' = [dmap EXCEPT ![req[r].project] = NoLock]
          BY <3>4 DEF PutIfAbsentStore, StoreCallFailsApplied, ReleaseLock, Store
        <4>2. p \in DOMAIN dmap
          BY DEF IInv, TypeOK
        <4> QED BY <4>1, <4>2
      <3> QED BY <3>1, <3>2, <3>3, <3>4
    <2>2. dmap'[p].createdBy = r
      BY <2>1 DEF NewLock
    <2> QED BY <2>1, <2>2 DEF IInv, RequestInv, SawFree
  <1>2. Spec => [][A]_vars
    BY <1>1, Invariance, PTL DEF Spec
  <1> QED BY <1>2 DEF ReplacedOnlyInRaceWindow

-----------------------------------------------------------------------------
(* Who is granted a lock. *)

\* Why another lock request for q's project need not succeed: q did, or may have
\* freed the project, or its store calls are not to be trusted.
Excuse(q) ==
    \/ pc[q] \in {"reply", "done"} /\ req[q].op = "lock" /\ reply[q].code = 200
    \/ pc[q] # "idle" /\ (faulted[q] \/ req[q].op = "unlock")
    \/ pc[q] = "lost"

Excused(p) == \E q \in Requests : req[q].project = p /\ Excuse(q)

\* Request r met a lock of its project, or its handler is done with it.
Lost(r) ==
    /\ req[r].op = "lock"
    /\ pc[r] = "reread" \/ (pc[r] \in {"reply", "done"} /\ reply[r].code # 400)

WinnerInv ==
    /\ \A p \in Projects : dmap[p] # NoLock => Excused(p)
    /\ \A r \in Requests : Lost(r) => Excused(req[r].project)

\* What a handler's step does to its request and leaves of the others.
LEMMA HandleEffect ==
    ASSUME IInv, NEW r \in Requests, Handle(r)
    PROVE  /\ req' = req
           /\ \A q \in Requests \ {r} :
                 pc'[q] = pc[q] /\ reply'[q] = reply[q] /\ faulted'[q] = faulted[q]
           /\ faulted[r] => faulted'[r]
           /\ pc[r] \notin {"idle", "done", "lost"} /\ pc'[r] \notin {"idle", "lost"}
           /\ pc[r] = "reply" => Respond(r) /\ pc'[r] = "done" /\ reply' = reply
           /\ pc'[r] = "done" => pc[r] = "reply" /\ reply' = reply
  <1> USE DEF IInv, TypeOK, Answer, StoreCalls
  <1>1. CASE GetExistingLock(r) \/ RereadLock(r)
    BY <1>1 DEF GetExistingLock, RereadLock, AnswerFromExisting, Decide, Goto, Respond
  <1>2. CASE PutIfAbsentCheck(r) \/ PutIfAbsentStore(r) \/ ReleaseLock(r) \/ QueryLock(r)
    BY <1>2 DEF PutIfAbsentCheck, PutIfAbsentStore, ReleaseLock, QueryLock, Decide, Goto, Respond
  <1>3. CASE StoreCallFails(r) \/ StoreCallFailsApplied(r)
    BY <1>3 DEF StoreCallFails, StoreCallFailsApplied, Decide, InFlight, StoreCalls, Respond
  <1>4. CASE Respond(r)
    BY <1>4 DEF Respond, Goto
  <1> QED BY <1>1, <1>2, <1>3, <1>4 DEF Handle

\* What an arriving request starts with.
LEMMA ArriveEffect ==
    ASSUME IInv, NEW r \in Requests, Arrive(r)
    PROVE  /\ UNCHANGED <<dmap, faulted>>
           /\ \A q \in Requests \ {r} :
                 pc'[q] = pc[q] /\ reply'[q] = reply[q] /\ req'[q] = req[q]
           /\ pc[r] = "idle" /\ pc'[r] \notin {"reread", "done"}
           /\ pc'[r] = "reply" => reply'[r].code = 400 \/ req'[r].op = "get"
  <1>1. CASE Accept(r)
    <2>1. PICK q \in Request :
             /\ Valid(q)
             /\ req' = [req EXCEPT ![r] = q] /\ Goto(r, FirstCall[q.op])
      BY <1>1 DEF Accept
    <2>2. /\ pc'[r] = FirstCall[q.op] /\ reply' = reply /\ req'[r] = q
          /\ \A o \in Requests \ {r} : pc'[o] = pc[o] /\ req'[o] = req[o]
      BY <2>1, GotoEffect DEF IInv, TypeOK
    <2>3. pc'[r] \in {"existing", "delete", "query"}
      BY <2>1, <2>2, ValidRequest
    <2> QED BY <1>1, <2>1, <2>2, <2>3 DEF Accept, store
  <1>2. CASE Reject(r)
    <2>1. PICK q \in Request : req' = [req EXCEPT ![r] = q]
      BY <1>2 DEF Reject
    <2>2. req'[r] = q /\ \A o \in Requests \ {r} : req'[o] = req[o]
      BY <2>1 DEF IInv, TypeOK
    <2>3. TypeOK /\ Decide(r, 400, NoLock)
      BY <1>2 DEF IInv, Reject
    <2>4. /\ pc'[r] = "reply" /\ reply'[r].code = 400
          /\ \A o \in Requests \ {r} : pc'[o] = pc[o] /\ reply'[o] = reply[o]
      BY <2>3 DEF Decide, Answer, TypeOK
    <2> QED BY <1>2, <2>2, <2>4 DEF Reject, store
  <1>3. CASE RouteMiss(r)
    BY <1>3 DEF RouteMiss, Decide, IInv, TypeOK, store
  <1>4. CASE RejectEscaped(r)
    <2>1. PICK p \in SlashedProjects :
             req' = [req EXCEPT ![r] = [op |-> "get", project |-> p, branch |-> NoBranch]]
      BY <1>4 DEF RejectEscaped
    <2>2. req'[r].op = "get" /\ \A o \in Requests \ {r} : req'[o] = req[o]
      BY <2>1 DEF IInv, TypeOK
    <2>3. TypeOK /\ Decide(r, 400, NoLock)
      BY <1>4 DEF IInv, RejectEscaped
    <2>4. /\ pc'[r] = "reply" /\ reply'[r].code = 400
          /\ \A o \in Requests \ {r} : pc'[o] = pc[o] /\ reply'[o] = reply[o]
      BY <2>3 DEF Decide, Answer, TypeOK
    <2> QED BY <1>4, <2>2, <2>4 DEF RejectEscaped, store
  <1> QED BY <1>1, <1>2, <1>3, <1>4 DEF Arrive

\* A request that excuses others goes on doing so.
LEMMA ExcuseLasts ==
    ASSUME IInv, [Next]_vars
    PROVE  /\ \A q \in Requests : Excuse(q) => Excuse(q)' /\ req'[q] = req[q]
           /\ \A p : Excused(p) => Excused(p)'
  <1>1. ASSUME NEW q \in Requests, Excuse(q)
        PROVE  Excuse(q)' /\ req'[q] = req[q]
    <2>1. ASSUME NEW r \in Requests, Arrive(r)
          PROVE  Excuse(q)' /\ req'[q] = req[q]
      <3>1. q # r
        BY <1>1, <2>1, ArriveEffect DEF Excuse
      <3> QED BY <1>1, <2>1, <3>1, ArriveEffect DEF Excuse
    <2>2. ASSUME NEW r \in Requests, Handle(r)
          PROVE  Excuse(q)' /\ req'[q] = req[q]
      <3>1. CASE q # r
        BY <1>1, <2>2, <3>1, HandleEffect DEF Excuse
      <3>2. CASE q = r
        BY <1>1, <2>2, <3>2, HandleEffect DEF Excuse
      <3> QED BY <3>1, <3>2
    <2>3. CASE Restart
      BY <1>1, <2>3 DEF Restart, Excuse, IInv, TypeOK
    <2>4. CASE UNCHANGED vars
      BY <1>1, <2>4 DEF vars, Excuse
    <2> QED BY <2>1, <2>2, <2>3, <2>4 DEF Next, AllHandled
  <1>2. ASSUME NEW p, Excused(p)
        PROVE  Excused(p)'
    BY <1>1, <1>2 DEF Excused
  <1> QED BY <1>1, <1>2

\* A project that gets a lock gets it from a request whose answer excuses the rest.
LEMMA LockedIsExcused ==
    ASSUME IInv, WinnerInv, [Next]_vars, NEW p \in Projects, dmap'[p] # NoLock
    PROVE  Excused(p)'
  <1>1. CASE dmap[p] # NoLock
    BY <1>1, ExcuseLasts DEF WinnerInv
  <1>2. CASE dmap[p] = NoLock
    <2>1. PICK m \in Requests :
             /\ pc[m] = "put" /\ (PutIfAbsentStore(m) \/ StoreCallFailsApplied(m))
             /\ req[m].project = p
      <3>1. ASSUME NEW m \in Requests, Arrive(m)
            PROVE  dmap' = dmap
        BY <3>1, ArriveEffect
      <3>2. ASSUME NEW m \in Requests, Handle(m)
            PROVE  \/ dmap' = dmap
                   \/ PutIfAbsentStore(m)
                   \/ pc[m] = "put" /\ StoreCallFailsApplied(m)
                   \/ pc[m] = "delete" /\ Store(req[m].project, NoLock, {})
        BY <3>2 DEF Handle, GetExistingLock, RereadLock, AnswerFromExisting, Succeed, PutIfAbsentCheck,
             ReleaseLock, QueryLock, StoreCallFails, StoreCallFailsApplied, Respond, store
      <3>3. ASSUME NEW m \in Requests, pc[m] = "delete", Store(req[m].project, NoLock, {})
            PROVE  FALSE
        BY <1>2, <3>3 DEF Store, IInv, TypeOK
      <3>4. ASSUME NEW m \in Requests, pc[m] = "put", PutIfAbsentStore(m) \/ StoreCallFailsApplied(m)
            PROVE  req[m].project = p
        BY <1>2, <3>4 DEF PutIfAbsentStore, StoreCallFailsApplied, Store, IInv, TypeOK
      <3>5. ~Restart /\ dmap' # dmap
        BY <1>2 DEF Restart
      <3>6. \A m \in Requests : PutIfAbsentStore(m) => pc[m] = "put"
        BY DEF PutIfAbsentStore
      <3> QED BY <3>1, <3>2, <3>3, <3>4, <3>5, <3>6 DEF Next, AllHandled, vars
    <2>2. req[m].op = "lock"
      BY <2>1 DEF IInv, RequestInv, CallsOfOperation, InFlight, StoreCalls, LockCalls
    <2>3. Excuse(m)' /\ req'[m] = req[m]
      BY <2>1, <2>2 DEF PutIfAbsentStore, StoreCallFailsApplied, Decide, Answer, Excuse, IInv, TypeOK
    <2> QED BY <2>1, <2>3 DEF Excused
  <1> QED BY <1>1, <1>2

\* A request that newly met a lock, or got its answer, has an excuse for it.
LEMMA LostIsExcused ==
    ASSUME IInv, WinnerInv, [Next]_vars, NEW r \in Requests, Lost(r)'
    PROVE  Excused(req[r].project)'
  <1>0. TypeOK
    BY DEF IInv
  <1>1. CASE Lost(r) /\ req'[r] = req[r]
    BY <1>1, ExcuseLasts DEF WinnerInv
  <1>2. ASSUME NEW m \in Requests, Arrive(m)
        PROVE  Lost(r) /\ req'[r] = req[r]
    BY <1>2, ArriveEffect DEF Lost
  <1>3. ASSUME NEW m \in Requests, m # r, Handle(m)
        PROVE  Lost(r) /\ req'[r] = req[r]
    BY <1>3, HandleEffect DEF Lost
  <1>4. ASSUME Restart
        PROVE  Lost(r) /\ req'[r] = req[r]
    BY <1>0, <1>4 DEF Restart, Lost, TypeOK
  <1>5. ASSUME UNCHANGED vars
        PROVE  Lost(r) /\ req'[r] = req[r]
    BY <1>5 DEF vars, Lost
  <1>6. ASSUME Handle(r)
        PROVE  Excused(req[r].project)'
    <2>0. req' = req /\ req[r].op = "lock"
      BY <1>6, HandleEffect DEF Lost
    <2>1. CASE pc[r] \in {"existing", "check"} /\ dmap[req[r].project] # NoLock
      <3>1. req[r].project \in Projects
        BY <2>1 DEF IInv, RequestInv, CallsOfOperation, InFlight, StoreCalls, LockCalls
      <3> QED BY <2>0, <2>1, <3>1, ExcuseLasts DEF WinnerInv
    <2>2. CASE pc[r] = "existing" /\ dmap[req[r].project] = NoLock /\ GetExistingLock(r)
      BY <1>0, <2>2, GotoEffect DEF GetExistingLock, Lost
    <2>3. CASE pc[r] = "check" /\ dmap[req[r].project] = NoLock /\ PutIfAbsentCheck(r)
      BY <1>0, <2>3, GotoEffect DEF PutIfAbsentCheck, Lost
    <2>4. CASE PutIfAbsentStore(r)
      <3>1. Excuse(r)'
        BY <1>0, <2>0, <2>4 DEF PutIfAbsentStore, Decide, Answer, Excuse, TypeOK
      <3> QED BY <3>1 DEF Excused
    <2>5. CASE StoreCallFails(r) \/ StoreCallFailsApplied(r)
      <3>1. Excuse(r)'
        BY <1>0, <2>5 DEF StoreCallFails, StoreCallFailsApplied, Decide, Excuse, TypeOK
      <3> QED BY <3>1 DEF Excused
    <2>6. CASE RereadLock(r) \/ Respond(r)
      <3>1. Lost(r)
        BY <1>6, <2>0, <2>6, HandleEffect DEF RereadLock, Respond, Lost
      <3> QED BY <1>1, <2>0, <3>1
    <2>7. CASE ReleaseLock(r) \/ QueryLock(r)
      BY <2>0, <2>7 DEF ReleaseLock, QueryLock, IInv, RequestInv,
           CallsOfOperation, InFlight, StoreCalls, LockCalls
    <2> QED BY <1>6, <2>1, <2>2, <2>3, <2>4, <2>5, <2>6, <2>7 DEF Handle, GetExistingLock, PutIfAbsentCheck
  <1> QED BY <1>1, <1>2, <1>3, <1>4, <1>5, <1>6 DEF Next, AllHandled

\* The excuses are there from the start and last.
LEMMA WinnerInvariance == Spec => []WinnerInv
  <1>1. Init => WinnerInv
    BY DEF Init, WinnerInv, Lost
  <1>2. WinnerInv /\ IInv /\ [Next]_vars => WinnerInv'
    <2> SUFFICES ASSUME WinnerInv, IInv, [Next]_vars
                 PROVE  WinnerInv'
      OBVIOUS
    <2> QED BY LockedIsExcused, LostIsExcused DEF WinnerInv
  <1> QED BY <1>1, <1>2, Invariance, PTL DEF Spec

\* Of the requests that race for a free project one succeeds ("one deployment wins,
\* others retry", storage.go:63), unless the store failed one of them, an unlock came
\* between or the process died.
THEOREM SomeoneIsGranted == Spec => []SomeoneWins
  <1>1. WinnerInv => SomeoneWins
    <2> SUFFICES ASSUME WinnerInv, NEW p \in Projects,
                        NEW l \in Requests, req[l].project = p, req[l].op = "lock", reply[l].code # 400,
                        \A r \in Requests : req[r].project = p =>
                            Settled(r) /\ ~faulted[r] /\ req[r].op # "unlock" /\ pc[r] # "lost"
                 PROVE  \E r \in Requests : /\ req[r].project = p /\ req[r].op = "lock"
                                            /\ reply[r].code = 200
      BY DEF SomeoneWins
    <2>1. Excused(p)
      BY DEF WinnerInv, Lost, Settled
    <2> QED BY <2>1 DEF Excused, Excuse
  <1> QED BY <1>1, WinnerInvariance, PTL

-----------------------------------------------------------------------------
(* Progress, but for the fairness of the scheduler. *)

\* How many steps of its handler a request has left at most.
StepsLeft(point) ==
    [idle |-> 5, existing |-> 4, check |-> 3, put |-> 2, reread |-> 2, delete |-> 2, query |-> 2,
     reply |-> 1, done |-> 0, lost |-> 0][point]

\* Whatever other requests do, each step of a handler brings its answer nearer: it has
\* three store calls to make at most, no step of another request sends it back, and a
\* lost race is not tried again (AcquireLock, storage.go:63-150).
THEOREM HandlersAdvance ==
    Spec => [][\A r \in Requests : pc[r] # "idle" =>
                 /\ Handle(r) => StepsLeft(pc'[r]) < StepsLeft(pc[r])
                 /\ ~Handle(r) => pc'[r] \in {pc[r], "lost"}]_vars
  <1>1. IInv /\ [Next]_vars =>
          [\A r \in Requests : pc[r] # "idle" =>
              /\ Handle(r) => StepsLeft(pc'[r]) < StepsLeft(pc[r])
              /\ ~Handle(r) => pc'[r] \in {pc[r], "lost"}]_vars
    <2> SUFFICES ASSUME IInv, Next, NEW r \in Requests, pc[r] # "idle"
                 PROVE  /\ Handle(r) => StepsLeft(pc'[r]) < StepsLeft(pc[r])
                        /\ ~Handle(r) => pc'[r] \in {pc[r], "lost"}
      BY Zenon
    <2>0. TypeOK
      BY DEF IInv
    <2>1. Handle(r) => StepsLeft(pc'[r]) < StepsLeft(pc[r])
      <3>1. CASE GetExistingLock(r) \/ RereadLock(r)
        BY <2>0, <3>1 DEF GetExistingLock, RereadLock, AnswerFromExisting, Decide, Goto, StepsLeft, TypeOK
      <3>2. CASE PutIfAbsentCheck(r) \/ PutIfAbsentStore(r) \/ ReleaseLock(r) \/ QueryLock(r)
        BY <2>0, <3>2 DEF PutIfAbsentCheck, PutIfAbsentStore, ReleaseLock, QueryLock, Decide, Goto,
                          StepsLeft, TypeOK
      <3>3. CASE StoreCallFails(r) \/ StoreCallFailsApplied(r)
        BY <2>0, <3>3 DEF StoreCallFails, StoreCallFailsApplied, Decide, InFlight, StoreCalls,
                          StepsLeft, TypeOK
      <3>4. CASE Respond(r)
        BY <2>0, <3>4 DEF Respond, Goto, StepsLeft, TypeOK
      <3> QED BY <3>1, <3>2, <3>3, <3>4 DEF Handle
    <2>2. ASSUME ~Handle(r)
          PROVE  pc'[r] \in {pc[r], "lost"}
      <3>1. ASSUME NEW q \in Requests, Handle(q)
            PROVE  pc'[r] = pc[r]
        BY <2>2, <3>1, HandleEffect
      <3>2. ASSUME NEW q \in Requests, Arrive(q)
            PROVE  pc'[r] = pc[r]
        BY <3>2, ArriveEffect
      <3>3. CASE Restart
        BY <2>0, <3>3 DEF Restart, TypeOK
      <3>4. CASE AllHandled
        BY <3>4 DEF AllHandled, vars
      <3> QED BY <3>1, <3>2, <3>3, <3>4 DEF Next
    <2> QED BY <2>1, <2>2
  <1> QED BY <1>1, Invariance, PTL DEF Spec
=============================================================================
