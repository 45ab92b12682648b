-------------------------- MODULE GracefulShutdown --------------------------
(***************************************************************************)
(* What the process promises Kubernetes and the clients of its servers,    *)
(* whatever its goroutines do: readiness changes before anything closes,   *)
(* a part that closed stays closed and takes no new connection, the probe  *)
(* server is the last, and the exit status tells whether a request was     *)
(* left behind.  ServerLifecycle keeps it.  It does not promise that the   *)
(* store outlives the requests.  A request is one connection.              *)
(***************************************************************************)
CONSTANTS
    Requests,   \* the requests of clients, probes and scrapers
    Parts,      \* the servers and the store
    Probe       \* the part that answers the probes

VARIABLES
    phase,      \* what readiness tells: "starting", "serving", "stopping", or "gone"
    closed,     \* the parts that take no new connection
    done,       \* the parts whose close returned
    failed,     \* those whose close returned an error
    pending,    \* pending[p]: the requests part p accepted and did not answer
    outcome     \* "none", and in the end "ok", "error" or "killed"

vars == <<phase, closed, done, failed, pending, outcome>>

Init ==
    /\ phase   = "starting"
    /\ closed  = {} /\ done = {} /\ failed = {}
    /\ pending = [p \in Parts |-> {}]
    /\ outcome = "none"

Serve ==
    /\ phase = "starting" /\ phase' = "serving"
    /\ UNCHANGED <<closed, done, failed, pending, outcome>>

\* From here on the load balancer sends no new requests.
Announce ==
    /\ phase = "serving" /\ phase' = "stopping"
    /\ UNCHANGED <<closed, done, failed, pending, outcome>>

Accept(r, p) ==
    /\ phase # "gone"
    /\ p \notin closed
    /\ \A q \in Parts : r \notin pending[q]
    /\ pending' = [pending EXCEPT ![p] = @ \cup {r}]
    /\ UNCHANGED <<phase, closed, done, failed, outcome>>

Answer(r, p) ==
    /\ phase # "gone"
    /\ r \in pending[p]
    /\ pending' = [pending EXCEPT ![p] = @ \ {r}]
    /\ UNCHANGED <<phase, closed, done, failed, outcome>>

Close(p) ==
    /\ phase = "stopping"
    /\ p \notin closed
    /\ p = Probe => Parts \ {Probe} \subseteq done
    /\ closed' = closed \cup {p}
    /\ UNCHANGED <<phase, done, failed, pending, outcome>>

\* A close returns without an error only when every request has its answer.
Finish(p) ==
    /\ phase = "stopping"
    /\ p \in closed \ done
    /\ done' = done \cup {p}
    /\ \/ pending[p] = {} /\ UNCHANGED failed
       \/ failed' = failed \cup {p}
    /\ UNCHANGED <<phase, closed, pending, outcome>>

Leave ==
    /\ phase = "stopping" /\ phase' = "gone"
    /\ done = Parts
    /\ outcome' = IF failed = {} THEN "ok" ELSE "error"
    /\ UNCHANGED <<closed, done, failed, pending>>

\* Before the shutdown was announced a signal nobody handles yet can end the
\* process, and before it served an error.
Abort ==
    /\ phase' = "gone"
    /\ \/ phase = "starting" /\ outcome' = "error"
       \/ phase \in {"starting", "serving"} /\ outcome' = "killed"
    /\ UNCHANGED <<closed, done, failed, pending>>

Next ==
    \/ Serve \/ Announce \/ Leave \/ Abort
    \/ \E p \in Parts : Close(p) \/ Finish(p) \/ \E r \in Requests : Accept(r, p) \/ Answer(r, p)

Spec == Init /\ [][Next]_vars

-----------------------------------------------------------------------------
(* What that is worth. *)

\* The load balancer is told before anything closes, and from then on no signal ends
\* the process (server.go:267-268, main.go:163-180).
AnnouncedFirst == closed # {} => phase \in {"stopping", "gone"} /\ outcome # "killed"

\* "Shutdown probe server last" (server.go:318-321).
ProbeLast == Probe \in closed => Parts \ {Probe} \subseteq done

\* "Complete in-flight requests before shutdown": status 0 means that every part closed
\* and that every accepted request has its answer (server.go:325-335).
NothingLost == outcome = "ok" => done = Parts /\ \A p \in Parts : pending[p] = {}

Promise == AnnouncedFirst /\ ProbeLast /\ NothingLost
=============================================================================
