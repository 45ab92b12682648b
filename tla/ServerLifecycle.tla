--------------------------- MODULE ServerLifecycle ---------------------------
(***************************************************************************)
(* From main to exit: runServer (cmd/service/main.go), New, Start and      *)
(* Shutdown (internal/server/server.go), the collector of the store's      *)
(* metrics (internal/store/metrics.go) and the requests that are in flight *)
(* meanwhile.                                                              *)
(*                                                                         *)
(* The goroutines are main, one per HTTP server, one per request, the      *)
(* collector, and, during the shutdown, one per part that is closed.  The  *)
(* deadline of the shutdown is an action of its own: it can pass at any    *)
(* moment after the shutdown began.  What a request asks of the store is   *)
(* LockService's subject; here it makes one call, that a closed store      *)
(* fails.  It comes on a connection of its own: what a client sends on one *)
(* it kept alive, after the listener closed, is left out.                  *)
(***************************************************************************)
EXTENDS FiniteSets, Naturals

CONSTANT Requests  \* the requests of the clients, probes and scrapers

Servers == {"api", "probe", "metrics"}
Parts   == Servers \cup {"store"}

VARIABLES
    main,        \* where runServer is
    exit,        \* how the process ended, or "none"
    health,      \* health.Manager's flags
    server,      \* server[s]: what the goroutine of HTTP server s does
    startErrors, \* the servers with an error in Start's errChan
    store,       \* the embedded Olric node
    collector,   \* OlricMetricsCollector.run
    ctx,         \* the context of Shutdown
    closer,      \* closer[p]: how far the shutdown of part p is
    errors,      \* the parts with an error in Shutdown's errChan
    request      \* request[r]: the server it went to, and how far it is

vars == <<main, exit, health, server, startErrors, store, collector, ctx, closer, errors, request>>

MainStates == {"new", "created", "starting", "started", "waiting", "signalled",
               "stopping", "closing", "last", "exited"}
InFlight   == {"active", "stored", "failed"}
Stages     == InFlight \cup {"unsent", "answered", "refused"}

TypeOK ==
    /\ main \in MainStates
    /\ exit \in {"none", "ok", "error", "killed"}
    /\ health \in [serversRunning : BOOLEAN, shuttingDown : BOOLEAN]
    /\ server \in [Servers -> {"idle", "listening", "failed", "closed"}]
    /\ startErrors \subseteq Servers
    /\ store \in {"none", "open", "closing", "closed"}
    /\ collector \in {"none", "collecting", "waiting", "stopped"}
    /\ ctx \in {"none", "live", "expired"}
    /\ closer \in [Parts -> {"none", "running", "draining", "done"}]
    /\ errors \subseteq Parts
    /\ request \in [Requests -> [server : Servers, stage : Stages]]

Init ==
    /\ main = "new"
    /\ exit = "none"
    /\ health = [serversRunning |-> FALSE, shuttingDown |-> FALSE]
    /\ server = [s \in Servers |-> "idle"]
    /\ startErrors = {}
    /\ store = "none"
    /\ collector = "none"
    /\ ctx = "none"
    /\ closer = [p \in Parts |-> "none"]
    /\ errors = {}
    /\ request = [r \in Requests |-> [server |-> "api", stage |-> "unsent"]]

Running == main # "exited"
Open(s) == {r \in Requests : request[r].server = s /\ request[r].stage \in InFlight}

\* The process ends: no goroutine takes another step.
Exit(how) == main' = "exited" /\ exit' = how

-----------------------------------------------------------------------------
(* Startup. *)

\* New opens the store and starts its collector, or fails with the store.
New ==
    /\ main = "new" /\ main' = "created"
    /\ store' = "open"
    /\ collector' = "collecting"
    /\ UNCHANGED <<exit, health, server, startErrors, ctx, closer, errors, request>>

NewFails ==
    /\ main = "new"
    /\ Exit("error")
    /\ UNCHANGED <<health, server, startErrors, store, collector, ctx, closer, errors, request>>

\* Start spawns the goroutines of the servers and sleeps.
Start ==
    /\ main = "created" /\ main' = "starting"
    /\ UNCHANGED <<exit, health, server, startErrors, store, collector, ctx, closer, errors, request>>

Spawned == Running /\ main \notin {"new", "created"}

Listen(s) ==
    /\ Spawned /\ server[s] = "idle"
    /\ server' = [server EXCEPT ![s] = "listening"]
    /\ UNCHANGED <<main, exit, health, startErrors, store, collector, ctx, closer, errors, request>>

\* ListenAndServe returns an error, at once or after it served.
ServerFails(s) ==
    /\ Spawned /\ server[s] \in {"idle", "listening"}
    /\ server' = [server EXCEPT ![s] = "failed"]
    /\ startErrors' = startErrors \cup {s}
    /\ UNCHANGED <<main, exit, health, store, collector, ctx, closer, errors, request>>

\* The sleep is over.  An error that is there by now ends the process, without a
\* Shutdown; otherwise the servers count as running, listening or not, and an
\* error that comes later stays in errChan.
StartReturns ==
    /\ main = "starting"
    /\ IF startErrors # {}
       THEN Exit("error") /\ UNCHANGED health
       ELSE /\ main' = "started"
            /\ health' = [health EXCEPT !.serversRunning = TRUE]
            /\ UNCHANGED exit
    /\ UNCHANGED <<server, startErrors, store, collector, ctx, closer, errors, request>>

\* signal.Notify
Notify ==
    /\ main = "started" /\ main' = "waiting"
    /\ UNCHANGED <<exit, health, server, startErrors, store, collector, ctx, closer, errors, request>>

\* SIGTERM or SIGINT: before signal.Notify it ends the process, the first one
\* after it is received; sigChan keeps a second one and nobody reads it.
Signal ==
    /\ IF main = "waiting"
       THEN main' = "signalled" /\ UNCHANGED exit
       ELSE main \in {"new", "created", "starting", "started"} /\ Exit("killed")
    /\ UNCHANGED <<health, server, startErrors, store, collector, ctx, closer, errors, request>>

-----------------------------------------------------------------------------
(* Shutdown. *)

\* Mutation: readiness is left alone.
ShutdownUnannounced ==
    /\ main = "signalled" /\ main' = "stopping"
    /\ ctx' = "live"
    /\ UNCHANGED <<exit, health, server, startErrors, store, collector, closer, errors, request>>

\* The deadline starts; readiness goes first, then the collector is told to stop.
Shutdown ==
    /\ main = "signalled" /\ main' = "stopping"
    /\ ctx' = "live"
    /\ health' = [health EXCEPT !.shuttingDown = TRUE]
    /\ UNCHANGED <<exit, server, startErrors, store, collector, closer, errors, request>>

\* Mutation: Stop does not wait for the collector.
CloseWithoutCollector ==
    /\ main = "stopping" /\ main' = "closing"
    /\ closer' = [p \in Parts |-> IF p = "probe" THEN "none" ELSE "running"]
    /\ UNCHANGED <<exit, health, server, startErrors, store, collector, ctx, errors, request>>

\* The collector is done, however long that took: ctx does not bound the wait.
\* Three goroutines close the API server, the metrics server and the store.
CloseThree ==
    /\ main = "stopping" /\ main' = "closing"
    /\ collector = "stopped"
    /\ closer' = [p \in Parts |-> IF p = "probe" THEN "none" ELSE "running"]
    /\ UNCHANGED <<exit, health, server, startErrors, store, collector, ctx, errors, request>>

\* Mutation: the probe server does not wait for the store.
CloseProbeEarly ==
    /\ main = "closing" /\ main' = "last"
    /\ \A s \in Servers \ {"probe"} : closer[s] = "done"
    /\ closer' = [closer EXCEPT !["probe"] = "running"]
    /\ UNCHANGED <<exit, health, server, startErrors, store, collector, ctx, errors, request>>

\* wg.Wait, and the probe server is closed last.
CloseProbe ==
    /\ main = "closing" /\ main' = "last"
    /\ \A p \in Parts \ {"probe"} : closer[p] = "done"
    /\ closer' = [closer EXCEPT !["probe"] = "running"]
    /\ UNCHANGED <<exit, health, server, startErrors, store, collector, ctx, errors, request>>

\* http.Server.Shutdown closes the listener; a server that does not listen yet
\* never will.
CloseListener(s) ==
    /\ Running /\ closer[s] = "running"
    /\ closer' = [closer EXCEPT ![s] = "draining"]
    /\ server' = [server EXCEPT ![s] = IF @ = "failed" THEN @ ELSE "closed"]
    /\ UNCHANGED <<main, exit, health, startErrors, store, collector, ctx, errors, request>>

\* Mutation: Shutdown forgets to return the error of its context.
DrainForgetful(s) ==
    /\ Running /\ closer[s] = "draining"
    /\ Open(s) = {} \/ ctx = "expired"
    /\ closer' = [closer EXCEPT ![s] = "done"]
    /\ UNCHANGED <<main, exit, health, server, startErrors, store, collector, ctx, errors, request>>

\* Mutation: Shutdown waits for the requests whatever the deadline.
DrainForever(s) ==
    /\ Running /\ closer[s] = "draining"
    /\ Open(s) = {}
    /\ closer' = [closer EXCEPT ![s] = "done"]
    /\ UNCHANGED <<main, exit, health, server, startErrors, store, collector, ctx, errors, request>>

\* It returns when no request is open, with an error if the deadline is first.
Drain(s) ==
    /\ Running /\ closer[s] = "draining"
    /\ \/ Open(s) = {} /\ UNCHANGED errors
       \/ Open(s) # {} /\ ctx = "expired" /\ errors' = errors \cup {s}
    /\ closer' = [closer EXCEPT ![s] = "done"]
    /\ UNCHANGED <<main, exit, health, server, startErrors, store, collector, ctx, request>>

\* OlricStore.Close.  Olric stops its parts one by one and may fail half way.
CloseStore ==
    /\ Running /\ closer["store"] = "running"
    /\ closer' = [closer EXCEPT !["store"] = "draining"]
    /\ store' = "closing"
    /\ UNCHANGED <<main, exit, health, server, startErrors, collector, ctx, errors, request>>

StoreCloses ==
    /\ Running /\ closer["store"] = "draining"
    /\ closer' = [closer EXCEPT !["store"] = "done"]
    /\ \/ store' = "closed" /\ UNCHANGED errors
       \/ errors' = errors \cup {"store"} /\ UNCHANGED store
    /\ UNCHANGED <<main, exit, health, server, startErrors, collector, ctx, request>>

Deadline ==
    /\ Running /\ ctx = "live"
    /\ ctx' = "expired"
    /\ UNCHANGED <<main, exit, health, server, startErrors, store, collector, closer, errors, request>>

\* Mutation: a missed deadline has an exit status of its own.
ReturnTimeout ==
    /\ main = "last" /\ closer["probe"] = "done"
    /\ Exit(IF errors = {} THEN "ok" ELSE IF ctx = "expired" THEN "timeout" ELSE "error")
    /\ UNCHANGED <<health, server, startErrors, store, collector, ctx, closer, errors, request>>

\* Shutdown returns the first error, and with it main the exit status.
Return ==
    /\ main = "last" /\ closer["probe"] = "done"
    /\ Exit(IF errors = {} THEN "ok" ELSE "error")
    /\ UNCHANGED <<health, server, startErrors, store, collector, ctx, closer, errors, request>>

-----------------------------------------------------------------------------
(* The collector: it collects once, then on every tick until stopChan closes. *)

StopRequested == main \in {"stopping", "closing", "last"}

CollectorTick ==
    /\ Running /\ collector = "waiting"
    /\ collector' = "collecting"
    /\ UNCHANGED <<main, exit, health, server, startErrors, store, ctx, closer, errors, request>>

Collected ==
    /\ Running /\ collector = "collecting"
    /\ collector' = "waiting"
    /\ UNCHANGED <<main, exit, health, server, startErrors, store, ctx, closer, errors, request>>

CollectorStops ==
    /\ Running /\ collector = "waiting" /\ StopRequested
    /\ collector' = "stopped"
    /\ UNCHANGED <<main, exit, health, server, startErrors, store, ctx, closer, errors, request>>

-----------------------------------------------------------------------------
(* A request. *)

Arrive(r, s) ==
    /\ Running /\ server[s] = "listening"
    /\ request[r].stage = "unsent"
    /\ request' = [request EXCEPT ![r] = [server |-> s, stage |-> "active"]]
    /\ UNCHANGED <<main, exit, health, server, startErrors, store, collector, ctx, closer, errors>>

\* A request of the API calls the store, that fails it once it is closed and may
\* while it closes.
CallStore(r) ==
    /\ Running /\ request[r].server = "api" /\ request[r].stage = "active"
    /\ \/ store # "closed" /\ request' = [request EXCEPT ![r].stage = "stored"]
       \/ store # "open" /\ request' = [request EXCEPT ![r].stage = "failed"]
    /\ UNCHANGED <<main, exit, health, server, startErrors, store, collector, ctx, closer, errors>>

Respond(r) ==
    /\ Running
    /\ request[r].stage \in
           IF request[r].server = "api" THEN {"stored", "failed"} ELSE {"active"}
    /\ request' = [request EXCEPT ![r].stage = IF @ = "failed" THEN "refused" ELSE "answered"]
    /\ UNCHANGED <<main, exit, health, server, startErrors, store, collector, ctx, closer, errors>>

MainStep == New \/ NewFails \/ Start \/ StartReturns \/ Notify \/ Shutdown \/ CloseThree \/ CloseProbe \/ Return

CloserStep(p) ==
    \/ p \in Servers /\ (CloseListener(p) \/ Drain(p))
    \/ p = "store" /\ (CloseStore \/ StoreCloses)

Next ==
    \/ MainStep \/ Signal \/ Deadline
    \/ \E s \in Servers : Listen(s) \/ ServerFails(s)
    \/ \E p \in Parts : CloserStep(p)
    \/ CollectorTick \/ Collected \/ CollectorStops
    \/ \E r \in Requests : CallStore(r) \/ Respond(r) \/ \E s \in Servers : Arrive(r, s)

Spec == Init /\ [][Next]_vars

\* Goroutines are scheduled, the deadline passes, a collection ends within its ten
\* seconds, and Olric's Shutdown returns.  The collector's select takes one of its
\* ready cases at random: it does not prefer the ticker for ever.  Nothing is
\* assumed of the requests: their handlers may hang.
FairSpec ==
    /\ Spec
    /\ WF_vars(MainStep)
    /\ WF_vars(Deadline)
    /\ \A p \in Parts : WF_vars(CloserStep(p))
    /\ WF_vars(Collected) /\ SF_vars(CollectorStops)

-----------------------------------------------------------------------------
(* Properties. *)

\* The collector never reads a store that is being closed: it has stopped when the
\* three goroutines of Shutdown start (server.go:273-276, metrics.go:183-186).
CollectorUsesOpenStore == Running /\ collector = "collecting" => store = "open"

\* As long as the readiness checker says ready nothing is being closed: the load
\* balancer hears of the shutdown first (server.go:267-268).
ReadyUntilShutdown ==
    health.serversRunning /\ ~health.shuttingDown =>
        /\ store = "open" /\ collector # "stopped"
        /\ \A s \in Servers : server[s] # "closed"

\* A process that ends with status 0 left nothing behind: its servers accept no
\* connection, the store left the cluster, the collector stopped, and every request
\* that was accepted has its answer (Shutdown, server.go:264-335).
CleanExit ==
    exit = "ok" =>
        /\ store = "closed" /\ collector = "stopped"
        /\ \A s \in Servers : server[s] \in {"closed", "failed"} /\ Open(s) = {}

\* Once the signal is received the process ends, even when handlers hang and when
\* a close fails (runServer, main.go:163-180).
SignalEndsProcess == main = "signalled" ~> main = "exited"

\* "Connection Draining: Complete in-flight requests before shutdown": no request
\* that was accepted finds the store closed (server.go:281-313 closes the API
\* server "first" and the store "third").
RequestsKeepTheStore == \A r \in Requests : request[r].stage \notin {"failed", "refused"}

\* What Kubernetes can tell: the two flags of the readiness probe, and the process.
phase == IF ~Running THEN "gone"
         ELSE IF health.shuttingDown THEN "stopping"
         ELSE IF health.serversRunning THEN "serving" ELSE "starting"

ClosedParts == {p \in Parts : closer[p] \in {"draining", "done"}}
DoneParts   == {p \in Parts : closer[p] = "done"}
pending     == [p \in Parts |-> Open(p)]

Graceful == INSTANCE GracefulShutdown WITH
    Probe <- "probe", closed <- ClosedParts, done <- DoneParts, failed <- errors, outcome <- exit

\* However startup, signals, closing goroutines, the deadline and requests interleave,
\* the process goes through the phases of GracefulShutdown and closes its parts
\* only as that module allows (Start and Shutdown, server.go:187-335).
ShutdownIsGraceful == Graceful!Spec
=============================================================================
