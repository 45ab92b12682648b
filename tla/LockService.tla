----------------------------- MODULE LockService -----------------------------
(***************************************************************************)
(* The lock API of one node: the handlers of POST /lock, POST /unlock and  *)
(* GET /lock/{project} (internal/handlers/lock.go), the OlricLockManager   *)
(* they call (internal/storage/storage.go) and the calls the manager makes *)
(* of the store (internal/store/olric.go).                                 *)
(*                                                                         *)
(* net/http runs a goroutine per request, and nothing but the store orders *)
(* them, so every call of the store's DMap is an action of its own: what a *)
(* request read in one call may be stale at the next.  PutIfAbsent is two  *)
(* such calls, a Get and a Put (olric.go:335-350).                         *)
(*                                                                         *)
(* The owner of every lock is the constant "placeholder-owner"             *)
(* (lock.go:94,149), so the owner comparisons of AcquireLock always hold   *)
(* and the owner is left out.  CreatedAt is represented by the request     *)
(* that created the lock.  Locks are stored without a TTL (storage.go:121).*)
(***************************************************************************)
EXTENDS Naturals

CONSTANTS
    Requests,         \* the HTTP requests clients send, each handled once
    Projects,         \* valid project names
    Branches,         \* valid branch names
    SlashedProjects,  \* the valid project names that contain a "/"
    BadName,          \* any name validateName refuses, or an undecodable body
    NoBranch,         \* the branch of a GET request, which carries none
    NoLock,           \* the DMap has no entry: Olric's "key not found"
    MaxRestarts       \* bound on the number of restarts of the process

Lock    == [branch : Branches, createdBy : Requests]
Request ==
    [op : {"lock", "unlock"}, project : Projects \cup {BadName}, branch : Branches \cup {BadName}]
      \cup [op : {"get"}, project : Projects \cup {BadName}, branch : {NoBranch}]
NoRequest == [op |-> "none", project |-> BadName, branch |-> NoBranch]

\* The HTTP answer: its code and the lock in its body, if any.
Reply    == [code : {200, 400, 404, 409, 500}, lock : Lock \cup {NoLock}]
NoReply  == [code |-> 0, lock |-> NoLock]

ASSUME NamesAssumption ==
    /\ SlashedProjects \subseteq Projects
    /\ BadName \notin Projects \cup Branches
    /\ NoBranch \notin Branches \cup {BadName}
ASSUME NoLockAssumption == NoLock \notin Lock
ASSUME RestartsAssumption == MaxRestarts \in Nat

VARIABLES
    dmap,        \* dmap[p]: the lock stored under key p, or NoLock
    req,         \* req[r]: the request r, chosen when it arrives
    pc,          \* pc[r]: the store call r makes next, see PCs
    reply,       \* reply[r]: the answer decided for r
    restarts,    \* how often the process was restarted
    (* history variables: no step reads them *)
    seen,        \* seen[r]: the values dmap had for r's project while r ran
    granted,     \* granted[p]: branches whose request succeeded since p was free
    overtaken,   \* overtaken[p]: since p was free, a Put replaced the lock of
                 \* another branch
    faulted      \* faulted[r]: a store call of r returned an error

store   == <<dmap, granted, overtaken>>
vars    == <<dmap, req, pc, reply, restarts, seen, granted, overtaken, faulted>>

(* The points between two store calls of a request:                        *)
(*   existing  AcquireLock: GetLock, is there a lock already               *)
(*   check     PutIfAbsent: DMap.Get, does the key exist                   *)
(*   put       PutIfAbsent: DMap.Put                                       *)
(*   reread    AcquireLock: GetLock after a lost race                      *)
(*   delete    ReleaseLock: DMap.Delete                                    *)
(*   query     GetLock for HandleGetLock                                   *)
StoreCalls == {"existing", "check", "put", "reread", "delete", "query"}
PCs == {"idle", "reply", "done", "lost"} \cup StoreCalls

InFlight(r) == pc[r] \in StoreCalls

TypeOK ==
    /\ dmap  \in [Projects -> Lock \cup {NoLock}]
    /\ req   \in [Requests -> Request \cup {NoRequest}]
    /\ pc    \in [Requests -> PCs]
    /\ reply \in [Requests -> Reply \cup {NoReply}]
    /\ restarts \in 0..MaxRestarts
    /\ seen    \in [Requests -> SUBSET (Lock \cup {NoLock})]
    /\ granted \in [Projects -> SUBSET Branches]
    /\ overtaken \in [Projects -> BOOLEAN]
    /\ faulted   \in [Requests -> BOOLEAN]

Init ==
    /\ dmap  = [p \in Projects |-> NoLock]
    /\ req   = [r \in Requests |-> NoRequest]
    /\ pc    = [r \in Requests |-> "idle"]
    /\ reply = [r \in Requests |-> NoReply]
    /\ restarts = 0
    /\ seen    = [r \in Requests |-> {}]
    /\ granted = [p \in Projects |-> {}]
    /\ overtaken = [p \in Projects |-> FALSE]
    /\ faulted   = [r \in Requests |-> FALSE]

-----------------------------------------------------------------------------
(* Steps shared by the handlers. *)

Answer(code, lock) == [code |-> code, lock |-> lock]

\* r's handler knows its answer and has only to send it.
Decide(r, code, lock) ==
    /\ pc'    = [pc EXCEPT ![r] = "reply"]
    /\ reply' = [reply EXCEPT ![r] = Answer(code, lock)]

Goto(r, point) ==
    /\ pc' = [pc EXCEPT ![r] = point]
    /\ UNCHANGED reply

\* The DMap entry of project p becomes v; b is the branch told that it
\* succeeded, if any.  The history follows the write.
Store(p, v, told) ==
    /\ dmap' = [dmap EXCEPT ![p] = v]
    /\ seen' = [q \in Requests |-> IF InFlight(q) /\ req[q].project = p
                                   THEN seen[q] \cup {v} ELSE seen[q]]
    /\ granted' = [granted EXCEPT ![p] = IF v = NoLock THEN {} ELSE @ \cup told]
    /\ overtaken' = [overtaken EXCEPT ![p] =
           v # NoLock /\ (@ \/ (dmap[p] # NoLock /\ dmap[p].branch # v.branch))]

\* r succeeded without a write.
Succeed(r) ==
    /\ granted' = [granted EXCEPT ![req[r].project] = @ \cup {req[r].branch}]
    /\ UNCHANGED <<dmap, seen, overtaken>>

NewLock(r) == [branch |-> req[r].branch, createdBy |-> r]

\* Mutation: the branch of the lock found is not compared.
AnswerFromAnyExisting(r, existing) == Decide(r, 200, existing) /\ Succeed(r)

\* AcquireLock on finding a lock, before PutIfAbsent or after losing its race:
\* success for the branch that holds it, a conflict for any other.
AnswerFromExisting(r, existing) ==
    IF existing.branch = req[r].branch
    THEN Decide(r, 200, existing) /\ Succeed(r)
    ELSE Decide(r, 409, existing) /\ UNCHANGED <<store, seen>>

-----------------------------------------------------------------------------
(* Arrival: decoding, routing and validation, up to the first store call. *)

FirstCall == [lock |-> "existing", unlock |-> "delete", get |-> "query"]

\* validateName on what the handler reads of the request.
Valid(q) == q.project \in Projects /\ q.branch # BadName

\* A request reaches its handler and passes validation.  chi routes
\* GET /lock/{project} only for names of one path segment.
Accept(r) ==
    /\ pc[r] = "idle"
    /\ \E q \in Request :
         /\ Valid(q)
         /\ q.op = "get" => q.project \notin SlashedProjects
         /\ req' = [req EXCEPT ![r] = q]
         /\ Goto(r, FirstCall[q.op])
         /\ seen' = [seen EXCEPT ![r] = {dmap[q.project]}]
    /\ UNCHANGED <<store, restarts, faulted>>

\* Mutation: a refused name is answered with 422.
RejectUnprocessable(r) ==
    /\ pc[r] = "idle"
    /\ \E q \in Request : ~Valid(q) /\ req' = [req EXCEPT ![r] = q]
    /\ Decide(r, 422, NoLock)
    /\ UNCHANGED <<store, seen, restarts, faulted>>

\* A body that does not decode, or a name validateName refuses: 400.
Reject(r) ==
    /\ pc[r] = "idle"
    /\ \E q \in Request : ~Valid(q) /\ req' = [req EXCEPT ![r] = q]
    /\ Decide(r, 400, NoLock)
    /\ UNCHANGED <<store, seen, restarts, faulted>>

\* GET /lock/a/b matches no route: chi itself answers 404, and no handler runs.
RouteMiss(r) ==
    /\ pc[r] = "idle"
    /\ \E p \in SlashedProjects :
         /\ req'  = [req EXCEPT ![r] = [op |-> "get", project |-> p, branch |-> NoBranch]]
         /\ seen' = [seen EXCEPT ![r] = {dmap[p]}]
    /\ Decide(r, 404, NoLock)
    /\ UNCHANGED <<store, restarts, faulted>>

\* GET /lock/a%2Fb is routed, but the parameter keeps its escape, which
\* validateName refuses.
RejectEscaped(r) ==
    /\ pc[r] = "idle"
    /\ \E p \in SlashedProjects :
         /\ req'  = [req EXCEPT ![r] = [op |-> "get", project |-> p, branch |-> NoBranch]]
         /\ seen' = [seen EXCEPT ![r] = {dmap[p]}]
    /\ Decide(r, 400, NoLock)
    /\ UNCHANGED <<store, restarts, faulted>>

-----------------------------------------------------------------------------
(* POST /lock: AcquireLock and, inside it, PutIfAbsent. *)

\* Mutation: "not found" is returned like any other error of GetLock.
GetExistingLockOrFail(r) ==
    /\ pc[r] = "existing"
    /\ LET existing == dmap[req[r].project] IN
         IF existing = NoLock
         THEN Decide(r, 500, NoLock) /\ UNCHANGED <<store, seen>>
         ELSE AnswerFromExisting(r, existing)
    /\ UNCHANGED <<req, restarts, faulted>>

\* Mutation: the branch's own lock is refreshed with a plain Put.
GetExistingLockOrRefresh(r) ==
    /\ pc[r] = "existing"
    /\ LET existing == dmap[req[r].project] IN
         IF existing = NoLock
         THEN Goto(r, "check") /\ UNCHANGED <<store, seen>>
         ELSE IF existing.branch = req[r].branch
         THEN Goto(r, "put") /\ UNCHANGED <<store, seen>>
         ELSE AnswerFromExisting(r, existing)
    /\ UNCHANGED <<req, restarts, faulted>>

\* Mutation: AcquireLock stores its lock without looking for another.
GetNoExistingLock(r) ==
    /\ pc[r] = "existing"
    /\ Goto(r, "put")
    /\ UNCHANGED <<store, seen, req, restarts, faulted>>

\* GetLock: answer from the lock found, or go on to create one.
GetExistingLock(r) ==
    /\ pc[r] = "existing"
    /\ LET existing == dmap[req[r].project] IN
         IF existing = NoLock
         THEN Goto(r, "check") /\ UNCHANGED <<store, seen>>
         ELSE AnswerFromExisting(r, existing)
    /\ UNCHANGED <<req, restarts, faulted>>

\* Mutation: the result of the existence check is inverted.
PutIfAbsentCheckInverted(r) ==
    /\ pc[r] = "check"
    /\ Goto(r, IF dmap[req[r].project] = NoLock THEN "reread" ELSE "put")
    /\ UNCHANGED <<store, seen, req, restarts, faulted>>

\* PutIfAbsent's Get: a key that exists now lost the race, and is read again.
PutIfAbsentCheck(r) ==
    /\ pc[r] = "check"
    /\ Goto(r, IF dmap[req[r].project] = NoLock THEN "put" ELSE "reread")
    /\ UNCHANGED <<store, seen, req, restarts, faulted>>

\* PutIfAbsent's Put: unconditional, whatever the key holds by now.
PutIfAbsentStore(r) ==
    /\ pc[r] = "put"
    /\ Store(req[r].project, NewLock(r), {req[r].branch})
    /\ Decide(r, 200, NewLock(r))
    /\ UNCHANGED <<req, restarts, faulted>>

\* Mutation: after a lost race PutIfAbsent is tried again until it wins.
RereadLockAndRetry(r) ==
    /\ pc[r] = "reread"
    /\ Goto(r, "check")
    /\ UNCHANGED <<store, seen, req, restarts, faulted>>

\* Mutation: a lost race is taken for one with the same branch.
RereadLockAsOwn(r) ==
    /\ pc[r] = "reread"
    /\ LET existing == dmap[req[r].project] IN
         IF existing = NoLock
         THEN Decide(r, 500, NoLock) /\ UNCHANGED <<store, seen>>
         ELSE Decide(r, 200, existing) /\ Succeed(r)
    /\ UNCHANGED <<req, restarts, faulted>>

\* GetLock after the race was lost.  A lock released meanwhile is an error
\* here ("failed to get lock after race"), not a reason to try again.
RereadLock(r) ==
    /\ pc[r] = "reread"
    /\ LET existing == dmap[req[r].project] IN
         IF existing = NoLock
         THEN Decide(r, 500, NoLock) /\ UNCHANGED <<store, seen>>
         ELSE AnswerFromExisting(r, existing)
    /\ UNCHANGED <<req, restarts, faulted>>

-----------------------------------------------------------------------------
(* POST /unlock and GET /lock/{project}. *)

\* ReleaseLock: one Delete, whichever branch asks and whether or not the key
\* exists.
ReleaseLock(r) ==
    /\ pc[r] = "delete"
    /\ Store(req[r].project, NoLock, {})
    /\ Decide(r, 200, NoLock)
    /\ UNCHANGED <<req, restarts, faulted>>

QueryLock(r) ==
    /\ pc[r] = "query"
    /\ LET found == dmap[req[r].project] IN
         Decide(r, IF found = NoLock THEN 404 ELSE 200, found)
    /\ UNCHANGED <<store, seen, req, restarts, faulted>>

-----------------------------------------------------------------------------
(* Failures. *)

\* A store call returns an error other than "key not found": the handler
\* answers 500, from wherever it is.
StoreCallFails(r) ==
    /\ InFlight(r)
    /\ faulted' = [faulted EXCEPT ![r] = TRUE]
    /\ Decide(r, 500, NoLock)
    /\ UNCHANGED <<store, seen, req, restarts>>

\* A Put or Delete returns an error, a timeout or a cancelled context say,
\* after it took effect.
StoreCallFailsApplied(r) ==
    /\ \/ pc[r] = "put"    /\ Store(req[r].project, NewLock(r), {})
       \/ pc[r] = "delete" /\ Store(req[r].project, NoLock, {})
    /\ faulted' = [faulted EXCEPT ![r] = TRUE]
    /\ Decide(r, 500, NoLock)
    /\ UNCHANGED <<req, restarts>>

\* The process of a single node ends and starts again: the in-memory DMap
\* starts empty, and requests that were running are never answered.
Restart ==
    /\ restarts < MaxRestarts
    /\ restarts' = restarts + 1
    /\ dmap'  = [p \in Projects |-> NoLock]
    /\ granted' = [p \in Projects |-> {}]
    /\ overtaken' = [p \in Projects |-> FALSE]
    /\ pc' = [r \in Requests |-> IF pc[r] \in {"idle", "done"} THEN pc[r] ELSE "lost"]
    /\ UNCHANGED <<req, reply, seen, faulted>>

-----------------------------------------------------------------------------
(* The answer goes out. *)

Respond(r) ==
    /\ pc[r] = "reply"
    /\ Goto(r, "done")
    /\ UNCHANGED <<store, seen, req, restarts, faulted>>

\* What is left when every request was handled.
AllHandled ==
    /\ \A r \in Requests : pc[r] \in {"done", "lost"}
    /\ UNCHANGED vars

Arrive(r) == Accept(r) \/ Reject(r) \/ RouteMiss(r) \/ RejectEscaped(r)

\* What the goroutine of request r does once the request arrived.
Handle(r) ==
    \/ GetExistingLock(r) \/ PutIfAbsentCheck(r) \/ PutIfAbsentStore(r) \/ RereadLock(r)
    \/ ReleaseLock(r) \/ QueryLock(r)
    \/ StoreCallFails(r) \/ StoreCallFailsApplied(r)
    \/ Respond(r)

Next ==
    \/ \E r \in Requests : Arrive(r) \/ Handle(r)
    \/ Restart
    \/ AllHandled

Spec == Init /\ [][Next]_vars

\* The Go scheduler runs every goroutine, and a store call of an embedded node
\* returns, with a result or with an error.
FairSpec == Spec /\ \A r \in Requests : WF_vars(Handle(r))

\* The environment in which PutIfAbsent is atomic, as a lock per key around it
\* would make it: no two requests of one project are between its Get and its Put.
OnePutAtATime ==
    \A r, s \in Requests :
        (pc[r] = "put" /\ pc[s] = "put" /\ req[r].project = req[s].project) => r = s

\* PutIfAbsent's Get alone brings a request there.
SerialNext ==
    \/ \E r \in Requests :
         \/ Arrive(r)
         \/ PutIfAbsentCheck(r) /\ OnePutAtATime'
         \/ GetExistingLock(r) \/ PutIfAbsentStore(r) \/ RereadLock(r)
         \/ ReleaseLock(r) \/ QueryLock(r)
         \/ StoreCallFails(r) \/ StoreCallFailsApplied(r)
         \/ Respond(r)
    \/ Restart
    \/ AllHandled

SerialSpec == Init /\ [][SerialNext]_vars

-----------------------------------------------------------------------------
(* Properties. *)

Settled(r) == pc[r] \in {"done", "lost"}

\* chi answered, and no handler ran.
Unrouted(r) == reply[r].code = 404 /\ req[r].project \in SlashedProjects

\* Every answer of a handler was true at some moment while the request ran, though
\* the store was read and written in separate calls: a lock reported as held
\* or as conflicting was in the DMap, under the caller's branch or another's
\* (AcquireLock, storage.go:87-104 and 126-149), "unlocked" means that the
\* project was free (HandleUnlock, HandleGetLock).
JustifiedAnswer(r) ==
    LET a == reply[r]
        q == req[r] IN
    /\ a.code = 200 /\ q.op = "lock" => a.lock \in seen[r] \ {NoLock} /\ a.lock.branch = q.branch
    /\ a.code = 409 => q.op = "lock" /\ a.lock \in seen[r] \ {NoLock} /\ a.lock.branch # q.branch
    /\ a.code = 200 /\ q.op = "get" => a.lock \in seen[r] \ {NoLock}
    /\ a.code = 404 \/ (a.code = 200 /\ q.op = "unlock") => NoLock \in seen[r]

AnswersJustified ==
    \A r \in Requests : pc[r] \in {"reply", "done"} /\ ~Unrouted(r) => JustifiedAnswer(r)

\* With a store that returns no errors, a 500 goes only to a lock request whose
\* project was locked and released again under it, so that AcquireLock's second
\* GetLock found nothing (storage.go:129-132).
ExplainedError(r) ==
    (pc[r] \in {"reply", "done"} /\ reply[r].code = 500 /\ ~faulted[r]) =>
        /\ req[r].op = "lock"
        /\ NoLock \in seen[r]
        /\ \E l \in seen[r] \ {NoLock} : l.createdBy # r

ErrorsExplained == \A r \in Requests : ExplainedError(r)

\* The double grant has one cause: unless a Put replaced the lock of another
\* branch, every branch whose request succeeded is the branch in the DMap
\* (PutIfAbsent, olric.go:335-356, and the idempotent success of AcquireLock).
SoleHolderUnlessOvertaken ==
    \A p \in Projects :
        ~overtaken[p] =>
            \A b \in granted[p] : dmap[p] # NoLock /\ dmap[p].branch = b

\* "one deployment wins, others retry" (storage.go:63): when every lock request
\* for a project was answered, none of them met a store error and nothing else
\* freed the project, one of them succeeded.
SomeoneWins ==
    \A p \in Projects :
        LET rs == {r \in Requests : req[r].project = p}
            locks == {r \in rs : req[r].op = "lock" /\ reply[r].code # 400} IN
        (locks # {} /\ \A r \in rs : Settled(r) /\ ~faulted[r] /\ req[r].op # "unlock" /\ pc[r] # "lost")
            => \E r \in locks : reply[r].code = 200

\* A branch told that it locked the project is the branch that holds it: the
\* promise of PutIfAbsent, "atomically stores a value only if the key does not
\* exist ... can be used for distributed locking" (store.go:44-46).
SingleWinner ==
    \A p \in Projects : \A b \in granted[p] : dmap[p] # NoLock /\ dmap[p].branch = b

\* Every request that arrived is answered, or lost with the process: no store call
\* sequence of a handler loops, retries or waits for another request.
EveryRequestAnswered == \A r \in Requests : pc[r] # "idle" ~> Settled(r)

-----------------------------------------------------------------------------
(* The promises to clients. *)

Free == NoBranch

holder == [p \in Projects |-> IF dmap[p] = NoLock THEN Free ELSE dmap[p].branch]

\* The requests between PutIfAbsent's Get, which found no lock, and its Put.
Attempt(r) == [attempt |-> r, project |-> req[r].project, branch |-> req[r].branch]
racing == {Attempt(r) : r \in {q \in Requests : pc[q] = "put"}}

Racing == INSTANCE RacingLock WITH winners <- granted, Attempts <- Requests

\* Whatever requests overlap, fail or die with the process, the service
\* implements RacingLock: PutIfAbsent's window is the only way to lose a lock.
RacingPromiseKept == Racing!Spec

\* A lock for which no Put is under way stays until it is released
\* (PutIfAbsent, olric.go:326-357).
SettledLockStays == Racing!SettledLockStays

Promise == INSTANCE DeploymentLock WITH winners <- granted

\* If PutIfAbsent's window is never shared, the service implements
\* DeploymentLock, unlocks, queries, failures and restarts included.
PromiseKept == Promise!Spec
=============================================================================
