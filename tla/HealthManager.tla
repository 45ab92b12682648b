---------------------------- MODULE HealthManager ----------------------------
(***************************************************************************)
(* The health manager behind the startup and readiness probes:             *)
(* internal/health/manager.go and checker.go, and the statuses the store's *)
(* checkers return (internal/store/health.go).                             *)
(*                                                                         *)
(* Every probe request is a goroutine.  A startup probe runs one more per  *)
(* checker, that sends its result over a channel, and one that closes the  *)
(* channel (CheckAll).  They share one cache: a check looks there first,   *)
(* and stores what it found when it had to look itself.  Nothing ties the  *)
(* lookup, the check and the store together, so checks of the same name    *)
(* overlap and a late one overwrites the result of a newer one.            *)
(*                                                                         *)
(* Time is counted in ticks.  A check gets HealthCheckTimeout; that its    *)
(* result is cached at most CheckTimeout ticks after it was read is the    *)
(* one assumption on scheduling, in the guard of Tick.  It is not made of  *)
(* the storage check that failed to read: StorageHealth shows why.         *)
(***************************************************************************)
EXTENDS Naturals, Sequences, FiniteSets

CONSTANTS
    StartupProbes,    \* requests of /healthz/startup
    ReadinessProbes,  \* requests of /healthz/ready
    Checkers,         \* the names of the registered checkers
    CacheDuration,    \* HealthCheckCacheDuration, in ticks; 0 disables the cache
    CheckTimeout,     \* HealthCheckTimeout, in ticks
    MaxTime           \* bound on the clock

ASSUME ProbesAssumption == StartupProbes \cap ReadinessProbes = {}
ASSUME CheckersAssumption ==
    /\ {"servers", "readiness"} \subseteq Checkers
    /\ Checkers \subseteq {"servers", "readiness", "olric-connection", "olric-cluster", "olric-storage"}
ASSUME TimeAssumption == CacheDuration \in Nat /\ CheckTimeout \in Nat /\ MaxTime \in Nat

Probes   == StartupProbes \cup ReadinessProbes
StoreCheckers == Checkers \ {"servers", "readiness"}
Status   == {"ok", "starting", "not-ready", "error"}
Time     == 0..MaxTime

VARIABLES
    now,             \* the clock
    main,            \* how far the process got: see SetServersRunning
    serversRunning,  \* ServerChecker.serversRunning
    readiness,       \* ReadinessChecker: serversRunning and shuttingDown
    external,        \* external[c]: what the store's checker c would find
    cache,           \* Manager.cache
    stage,           \* stage[p][c]: where probe p is with checker c
    result,          \* result[p][c]: the CheckResult p got of c
    resultChan,      \* resultChan[p]: the checks whose results nobody received yet
    closed,          \* the probes whose resultChan is closed
    response,        \* response[p]: the response under construction
    answered,        \* the probes that were answered
    (* history variables: no step reads them *)
    askedAt,         \* askedAt[p]: when probe p came in
    shutdownAt       \* when SetShuttingDown was called

vars == <<now, main, serversRunning, readiness, external, cache, stage, result, resultChan,
          closed, response, answered, askedAt, shutdownAt>>
flags  == <<main, serversRunning, readiness, external, shutdownAt>>
channel == <<resultChan, closed>>
probes == <<stage, result, channel, response, answered, askedAt>>

\* readAt, when the checker looked, and lookedAt, when the cache was asked, are
\* history; a result that is cached keeps its readAt.
Result  == [status : Status \cup {"none"}, readAt : Time, lookedAt : Time]
Entry   == [status : Status, readAt : Time, expiresAt : Nat]
NoEntry == [status |-> "none", readAt |-> 0, expiresAt |-> 0]
NoResult == [status |-> "none", readAt |-> 0, lookedAt |-> 0]  \* nothing found yet

(* Where the goroutine of a check is:                                      *)
(*   lookup    runCheck: getCachedResult                                   *)
(*   check     runCheck: checker.Check                                     *)
(*   cache     runCheck: cacheResult                                       *)
(*   found     runCheck has returned                                       *)
(*   returned  the result was sent, and wg.Done called                     *)
Stages == {"idle", "lookup", "check", "cache", "found", "returned"}

TypeOK ==
    /\ now \in Time
    /\ main \in {"starting", "marking", "up", "down"}
    /\ serversRunning \in BOOLEAN
    /\ readiness \in [serversRunning : BOOLEAN, shuttingDown : BOOLEAN]
    /\ external \in [StoreCheckers -> Status]
    /\ cache  \in [Checkers -> Entry \cup {NoEntry}]
    /\ stage  \in [Probes -> [Checkers -> Stages]]
    /\ result \in [Probes -> [Checkers -> Result]]
    /\ resultChan \in [Probes -> Seq(Checkers)]
    /\ closed \subseteq Probes
    /\ response \in [Probes -> [status : Status, allOK : BOOLEAN]]
    /\ answered \subseteq Probes
    /\ askedAt \in [Probes -> Time]
    /\ shutdownAt \in Time

Init ==
    /\ now = 0
    /\ main = "starting"
    /\ serversRunning = FALSE
    /\ readiness = [serversRunning |-> FALSE, shuttingDown |-> FALSE]
    /\ external = [c \in StoreCheckers |-> "ok"]
    /\ cache  = [c \in Checkers |-> NoEntry]
    /\ stage  = [p \in Probes |-> [c \in Checkers |-> "idle"]]
    /\ result = [p \in Probes |-> [c \in Checkers |-> NoResult]]
    /\ resultChan = [p \in Probes |-> <<>>]
    /\ closed = {}
    /\ response = [p \in Probes |-> [status |-> "ok", allOK |-> TRUE]]
    /\ answered = {}
    /\ askedAt = [p \in Probes |-> 0]
    /\ shutdownAt = 0

-----------------------------------------------------------------------------
(* What the checkers look at, and who changes it. *)

\* The statuses a checker of the store can return.
StoreStatuses(c) ==
    IF c = "olric-cluster" THEN {"ok", "not-ready", "error"} ELSE {"ok", "error"}

\* Mutation: a service that shuts down is ready as long as its servers run.
RunningStatus(c) ==
    CASE c = "servers"   -> IF serversRunning THEN "ok" ELSE "starting"
      [] c = "readiness" -> IF readiness.serversRunning THEN "ok" ELSE "not-ready"
      [] OTHER           -> external[c]

\* Mutation: a service that shuts down has a status of its own.
StoppingStatus(c) ==
    CASE c = "servers"   -> IF serversRunning THEN "ok" ELSE "starting"
      [] c = "readiness" -> IF readiness.shuttingDown THEN "stopping"
                            ELSE IF readiness.serversRunning THEN "ok" ELSE "not-ready"
      [] OTHER           -> external[c]

\* What Check of checker c finds now.
LiveStatus(c) ==
    CASE c = "servers"   -> IF serversRunning THEN "ok" ELSE "starting"
      [] c = "readiness" -> IF readiness.shuttingDown \/ ~readiness.serversRunning
                            THEN "not-ready" ELSE "ok"
      [] OTHER           -> external[c]

\* Mutation: the readiness checker is told before the server checker.
SetReadinessRunningFirst ==
    /\ main = "starting" /\ main' = "marking"
    /\ readiness' = [readiness EXCEPT !.serversRunning = TRUE]
    /\ UNCHANGED <<now, serversRunning, external, cache, shutdownAt, probes>>

\* Manager.SetServersRunning tells the server checker first and the readiness
\* checker next, each under its own lock.
SetServersRunning ==
    /\ main = "starting" /\ main' = "marking"
    /\ serversRunning' = TRUE
    /\ UNCHANGED <<now, readiness, external, cache, shutdownAt, probes>>

SetReadinessRunning ==
    /\ main = "marking" /\ main' = "up"
    /\ readiness' = [readiness EXCEPT !.serversRunning = TRUE]
    /\ UNCHANGED <<now, serversRunning, external, cache, shutdownAt, probes>>

SetShuttingDown ==
    /\ main = "up" /\ main' = "down"
    /\ readiness' = [readiness EXCEPT !.shuttingDown = TRUE]
    /\ shutdownAt' = now
    /\ UNCHANGED <<now, serversRunning, external, cache, probes>>

\* The store, or its cluster, fails or recovers.
StoreChanges(c) ==
    /\ \E s \in StoreStatuses(c) \ {external[c]} : external' = [external EXCEPT ![c] = s]
    /\ UNCHANGED <<now, main, serversRunning, readiness, shutdownAt, cache, probes>>

\* A storage check that failed may be cleaning up without the context of its check
\* (store/health.go:183-197).
Unbounded(c, s) == c = "olric-storage" /\ s = "error"

\* No other check takes longer than CheckTimeout from reading to caching.
Tick ==
    /\ now < MaxTime
    /\ \A p \in Probes, c \in Checkers :
           stage[p][c] = "cache" =>
               Unbounded(c, result[p][c].status) \/ now < result[p][c].readAt + CheckTimeout
    /\ now' = now + 1
    /\ UNCHANGED <<flags, cache, probes>>

-----------------------------------------------------------------------------
(* A probe. *)

\* A startup probe runs every checker, a readiness probe the readiness checker.
ChecksOf(p) == IF p \in StartupProbes THEN Checkers ELSE {"readiness"}

Begin(p) ==
    /\ \A c \in Checkers : stage[p][c] = "idle"
    /\ stage' = [stage EXCEPT ![p] = [c \in Checkers |-> IF c \in ChecksOf(p) THEN "lookup" ELSE "idle"]]
    /\ askedAt' = [askedAt EXCEPT ![p] = now]
    /\ UNCHANGED <<now, flags, cache, result, channel, response, answered>>

Found(p, c, status, readAt) ==
    /\ result' = [result EXCEPT ![p][c] = [status |-> status, readAt |-> readAt, lookedAt |-> now]]
    /\ stage' = [stage EXCEPT ![p][c] = "found"]

Missed(p, c) ==
    /\ result' = [result EXCEPT ![p][c].lookedAt = now]
    /\ stage' = [stage EXCEPT ![p][c] = "check"]

\* Mutation: an entry is still used in the instant it expires.
LookupAtExpiry(p, c) ==
    /\ stage[p][c] = "lookup"
    /\ IF now <= cache[c].expiresAt /\ cache[c] # NoEntry
       THEN Found(p, c, cache[c].status, cache[c].readAt) ELSE Missed(p, c)
    /\ UNCHANGED <<now, flags, cache, channel, response, answered, askedAt>>

\* getCachedResult: an entry is good until, not including, its expiry.
Lookup(p, c) ==
    /\ stage[p][c] = "lookup"
    /\ IF now < cache[c].expiresAt
       THEN Found(p, c, cache[c].status, cache[c].readAt) ELSE Missed(p, c)
    /\ UNCHANGED <<now, flags, cache, channel, response, answered, askedAt>>

\* checker.Check, on a miss.
Check(p, c) ==
    /\ stage[p][c] = "check"
    /\ result' = [result EXCEPT ![p][c] = [@ EXCEPT !.status = LiveStatus(c), !.readAt = now]]
    /\ stage' = [stage EXCEPT ![p][c] = "cache"]
    /\ UNCHANGED <<now, flags, cache, channel, response, answered, askedAt>>

\* cacheResult: whatever is cached by now is overwritten, and the new entry lives from
\* now, not from when it was read.
CacheResult(p, c) ==
    /\ stage[p][c] = "cache"
    /\ cache' = [cache EXCEPT ![c] =
           [status    |-> result[p][c].status,
            readAt    |-> result[p][c].readAt,
            expiresAt |-> now + CacheDuration]]
    /\ stage' = [stage EXCEPT ![p][c] = "found"]
    /\ UNCHANGED <<now, flags, result, channel, response, answered, askedAt>>

-----------------------------------------------------------------------------
(* CheckAll and GetStartupStatus, for a startup probe. *)

\* The goroutine of a check sends its result, waiting for room in the channel, and
\* returns, which calls wg.Done.
Send(p, c) ==
    /\ p \in StartupProbes /\ stage[p][c] = "found"
    /\ Len(resultChan[p]) < Cardinality(Checkers)
    /\ resultChan' = [resultChan EXCEPT ![p] = Append(@, c)]
    /\ stage' = [stage EXCEPT ![p][c] = "returned"]
    /\ UNCHANGED <<now, flags, cache, result, closed, response, answered, askedAt>>

\* Mutation: wg.Wait and close come after the loop that receives.
CloseAfterLoop(p) ==
    /\ p \in StartupProbes \cap answered /\ p \notin closed
    /\ \A c \in Checkers : stage[p][c] = "returned"
    /\ closed' = closed \cup {p}
    /\ UNCHANGED <<now, flags, cache, stage, result, resultChan, response, answered, askedAt>>

\* wg.Wait and close, in a goroutine of their own.
Close(p) ==
    /\ p \in StartupProbes /\ p \notin closed
    /\ \A c \in Checkers : stage[p][c] = "returned"
    /\ closed' = closed \cup {p}
    /\ UNCHANGED <<now, flags, cache, stage, result, resultChan, response, answered, askedAt>>

\* Mutation: an error leaves the status of the response alone.
WithResultUnlessError(r, s) ==
    [status |-> IF s = "starting" THEN s ELSE r.status,
     allOK  |-> r.allOK /\ s = "ok"]

\* GetStartupStatus with one more result: "starting" and "error" become the
\* status of the response, the later one of them last; "not-ready" does not.
WithResult(r, s) ==
    [status |-> IF s \in {"starting", "error"} THEN s ELSE r.status,
     allOK  |-> r.allOK /\ s = "ok"]

\* CheckAll appends the results in the order they come in, and GetStartupStatus goes
\* through them in that order.
Receive(p) ==
    /\ resultChan[p] # <<>>
    /\ resultChan' = [resultChan EXCEPT ![p] = Tail(@)]
    /\ response' = [response EXCEPT ![p] = WithResult(@, result[p][Head(resultChan[p])].status)]
    /\ UNCHANGED <<now, flags, cache, stage, result, closed, answered, askedAt>>

\* The channel is closed and empty: 200 if the status is "ok", 503 otherwise.
AnswerStartup(p) ==
    /\ p \in StartupProbes \ answered
    /\ p \in closed /\ resultChan[p] = <<>>
    /\ answered' = answered \cup {p}
    /\ response' = [response EXCEPT ![p].status = IF response[p].allOK THEN "ok" ELSE @]
    /\ UNCHANGED <<now, flags, cache, stage, result, channel, askedAt>>

\* GetReadinessStatus calls runCheck itself, and answers with its result.
AnswerReadiness(p) ==
    /\ p \in ReadinessProbes \ answered
    /\ stage[p]["readiness"] = "found"
    /\ answered' = answered \cup {p}
    /\ LET s == result[p]["readiness"].status IN
         response' = [response EXCEPT ![p] = [status |-> s, allOK |-> s = "ok"]]
    /\ UNCHANGED <<now, flags, cache, stage, result, channel, askedAt>>

ProbeStep(p) ==
    \/ \E c \in Checkers : Lookup(p, c) \/ Check(p, c) \/ CacheResult(p, c) \/ Send(p, c)
    \/ Close(p) \/ Receive(p) \/ AnswerStartup(p) \/ AnswerReadiness(p)

Next ==
    \/ SetServersRunning \/ SetReadinessRunning \/ SetShuttingDown
    \/ \E c \in StoreCheckers : StoreChanges(c)
    \/ Tick
    \/ \E p \in Probes : Begin(p) \/ ProbeStep(p)

Spec == Init /\ [][Next]_vars

\* The goroutines of a probe are scheduled, and its checks return: those of the
\* store within the timeout of their context, the others at once.
FairSpec == Spec /\ \A p \in Probes : WF_vars(ProbeStep(p))

-----------------------------------------------------------------------------
(* Properties. *)

\* A result is never used once it is older than the cache duration and the time
\* its check could take, however late checks overwrite the entries of newer ones
\* (getCachedResult and cacheResult, manager.go:123-145); only the error of the storage
\* check can be as old as its clean-up is slow.
ResultsAreFresh ==
    \A p \in Probes, c \in Checkers :
        stage[p][c] \in {"found", "returned"} =>
            \/ Unbounded(c, result[p][c].status)
            \/ result[p][c].lookedAt <= result[p][c].readAt
            \/ result[p][c].lookedAt < result[p][c].readAt + CacheDuration + CheckTimeout

\* A load balancer stops sending requests soon after the shutdown began: no probe
\* that came in later than the cache duration and one check after SetShuttingDown
\* is told that the service is ready (manager.go:63-67,189-209).
NotReadySoonAfterShutdown ==
    \A p \in ReadinessProbes \cap answered :
        (readiness.shuttingDown /\ response[p].status = "ok") =>
            \/ askedAt[p] <= shutdownAt
            \/ askedAt[p] < shutdownAt + CacheDuration + CheckTimeout

\* No probe is told that the service is ready, or that it started, before the
\* servers run (SetServersRunning, manager.go:53-60, through the cache).
ReadyOnlyWhenRunning ==
    \A p \in answered : response[p].status = "ok" => serversRunning

\* A startup probe that met a check still starting or failed is not answered with
\* "ok", in whatever order the results arrive (GetStartupStatus, manager.go:157-174).
StartupSeesFailures ==
    \A p \in StartupProbes \cap answered :
        (\E c \in Checkers : result[p][c].status \in {"starting", "error"}) => response[p].status # "ok"

\* Every probe is answered: the checks wait for no other one, those who send, who closes
\* and who receives for each other in no cycle (CheckAll, manager.go:70-98).
EveryProbeAnswered ==
    \A p \in Probes : (\E c \in Checkers : stage[p][c] # "idle") ~> p \in answered
=============================================================================
