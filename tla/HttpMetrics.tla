----------------------------- MODULE HttpMetrics -----------------------------
(***************************************************************************)
(* The metrics of HTTP requests (internal/middleware/metrics.go): what     *)
(* MetricsMiddleware records of the requests to the API server, and        *)
(* HealthCheckMetricsMiddleware of the probes of one health check.         *)
(*                                                                         *)
(* setupAPIRouter (server.go:150-164) puts MetricsMiddleware around chi's  *)
(* Recoverer and both around the routing, so that MetricsMiddleware runs   *)
(* before the request has a route.  The probe router has no Recoverer: a   *)
(* panic ends the probe's connection and nothing is recorded.              *)
(***************************************************************************)
EXTENDS Integers, FiniteSets

CONSTANTS
    Requests,  \* requests to the API server
    Paths,     \* the paths of requests
    Patterns,  \* the patterns of routes
    RouteOf,   \* RouteOf[p]: the pattern of the route of path p
    Answers,   \* the status codes of the handlers, chi's NotFound among them
    Probes,    \* requests to one probe route
    NoProbe

ASSUME RoutesAssumption == RouteOf \in [Paths -> Patterns] /\ "" \notin Patterns
ASSUME AnswersAssumption == Answers \subseteq Nat /\ 0 \notin Answers
ASSUME ProbesAssumption == NoProbe \notin Probes
ASSUME FiniteAssumption == IsFiniteSet(Requests)

OK     == 200
Error  == 500
Codes  == Answers \cup {OK, Error}
Labels == Paths \cup Patterns
Stages == {"idle", "routing", "handler", "body", "recording", "leaving", "done"}
ProbeStages == {"idle", "handler", "ok", "error", "total", "done", "aborted"}

VARIABLES
    url,       \* url[r]: r.URL.Path
    pattern,   \* pattern[r]: the route pattern in chi's context, "" before the routing
    label,     \* label[r]: routePattern of MetricsMiddleware
    stage,     \* stage[r]: where request r is
    code,      \* code[r]: statusCode of the responseWriter
    wire,      \* wire[r]: the status the client was sent, 0 before that
    late,      \* requests that panicked after they had sent a status; history
    inFlight,  \* HTTPRequestsInFlight, by label
    total,     \* HTTPRequestsTotal, by label and status
    probe,     \* probe[p]: where probe p is, the metric it sets next
    result,    \* result[p]: the status of probe p
    okGauge, errorGauge,  \* HealthCheckStatus "ok" and "error"
    success,   \* the probe whose time HealthCheckLastSuccessTimestamp is
    last,      \* the probe that was recorded last; history
    mixed      \* probes that were recorded while another one was; history

apiVars   == <<url, pattern, label, stage, code, wire, late, inFlight, total>>
probeVars == <<probe, result, okGauge, errorGauge, success, last, mixed>>
vars      == <<apiVars, probeVars>>

TypeOK ==
    /\ url \in [Requests -> Paths \cup {""}]
    /\ pattern \in [Requests -> Patterns \cup {""}]
    /\ label \in [Requests -> Labels \cup {""}]
    /\ stage \in [Requests -> Stages]
    /\ code \in [Requests -> Codes]
    /\ wire \in [Requests -> Codes \cup {0}]
    /\ late \subseteq Requests
    /\ inFlight \in [Labels -> Nat]
    /\ total \in [Labels \X Codes -> Nat]
    /\ probe \in [Probes -> ProbeStages]
    /\ result \in [Probes -> Codes]
    /\ okGauge \in {0, 1} /\ errorGauge \in {0, 1}
    /\ success \in Probes \cup {NoProbe} /\ last \in Probes \cup {NoProbe}
    /\ mixed \subseteq Probes

Init ==
    /\ url = [r \in Requests |-> ""]
    /\ pattern = [r \in Requests |-> ""]
    /\ label = [r \in Requests |-> ""]
    /\ stage = [r \in Requests |-> "idle"]
    /\ code = [r \in Requests |-> OK]
    /\ wire = [r \in Requests |-> 0]
    /\ late = {}
    /\ inFlight = [l \in Labels |-> 0]
    /\ total = [lc \in Labels \X Codes |-> 0]
    /\ probe = [p \in Probes |-> "idle"]
    /\ result = [p \in Probes |-> OK]
    /\ okGauge = 0 /\ errorGauge = 0
    /\ success = NoProbe /\ last = NoProbe
    /\ mixed = {}

Goto(r, s) == stage' = [stage EXCEPT ![r] = s]

-----------------------------------------------------------------------------
(* MetricsMiddleware. *)

\* The pattern of the route, or the path while there is none.
getRoutePattern(path, route) == IF route # "" THEN route ELSE path

\* The label is chosen and the request counted in.  The deferred Dec has its label by now.
Enter(r) ==
    /\ stage[r] = "idle"
    /\ \E p \in Paths : LET l == getRoutePattern(p, pattern[r]) IN
          /\ url' = [url EXCEPT ![r] = p]
          /\ label' = [label EXCEPT ![r] = l]
          /\ inFlight' = [inFlight EXCEPT ![l] = @ + 1]
    /\ Goto(r, "routing")
    /\ UNCHANGED <<pattern, code, wire, late, total>>

\* chi finds the route.
Route(r) ==
    /\ stage[r] = "routing"
    /\ pattern' = [pattern EXCEPT ![r] = RouteOf[url[r]]]
    /\ Goto(r, "handler")
    /\ UNCHANGED <<url, label, code, wire, late, inFlight, total>>

\* WriteHeader of the responseWriter.  net/http ignores a second status, and the
\* responseWriter captures it.
WriteHeader(r, c) ==
    /\ code' = [code EXCEPT ![r] = c]
    /\ wire' = [wire EXCEPT ![r] = IF @ = 0 THEN c ELSE @]

\* The handler sends its status, before the body (respondJSON).
Respond(r) ==
    /\ stage[r] = "handler"
    /\ \E c \in Answers : WriteHeader(r, c)
    /\ Goto(r, "body")
    /\ UNCHANGED <<url, pattern, label, late, inFlight, total>>

Return(r) ==
    /\ stage[r] = "body"
    /\ Goto(r, "recording")
    /\ UNCHANGED <<url, pattern, label, code, wire, late, inFlight, total>>

\* Mutation: Recoverer is outside MetricsMiddleware.
PanicPastMetrics(r) ==
    /\ stage[r] \in {"handler", "body"}
    /\ wire' = [wire EXCEPT ![r] = IF @ = 0 THEN Error ELSE @]
    /\ late' = IF wire[r] # 0 THEN late \cup {r} ELSE late
    /\ Goto(r, "leaving")
    /\ UNCHANGED <<url, pattern, label, code, inFlight, total>>

\* A panic of the handler ends in Recoverer, which answers 500 through the responseWriter.
Panic(r) ==
    /\ stage[r] \in {"handler", "body"}
    /\ WriteHeader(r, Error)
    /\ late' = IF wire[r] # 0 THEN late \cup {r} ELSE late
    /\ Goto(r, "recording")
    /\ UNCHANGED <<url, pattern, label, inFlight, total>>

Count(r) ==
    /\ stage[r] = "recording"
    /\ total' = [total EXCEPT ![<<label[r], code[r]>>] = @ + 1]
    /\ Goto(r, "leaving")
    /\ UNCHANGED <<url, pattern, label, code, wire, late, inFlight>>

\* Mutation: the deferred call looks the label up when it runs.
LeaveByRoute(r) ==
    /\ stage[r] = "leaving"
    /\ inFlight' = [inFlight EXCEPT ![getRoutePattern(url[r], pattern[r])] = @ - 1]
    /\ Goto(r, "done")
    /\ UNCHANGED <<url, pattern, label, code, wire, late, total>>

\* The deferred Dec.
Leave(r) ==
    /\ stage[r] = "leaving"
    /\ inFlight' = [inFlight EXCEPT ![label[r]] = @ - 1]
    /\ Goto(r, "done")
    /\ UNCHANGED <<url, pattern, label, code, wire, late, total>>

-----------------------------------------------------------------------------
(* HealthCheckMetricsMiddleware. *)

Recording == {p \in Probes : probe[p] \in {"ok", "error", "total"}}
ProbeTo(p, s) == probe' = [probe EXCEPT ![p] = s]

BeginProbe(p) ==
    /\ probe[p] = "idle"
    /\ ProbeTo(p, "handler")
    /\ UNCHANGED <<result, okGauge, errorGauge, success, last, mixed>>

\* The handler has answered and the recording begins, or the handler panicked.
AnswerProbe(p) ==
    /\ probe[p] = "handler"
    /\ \/ /\ \E c \in Answers : result' = [result EXCEPT ![p] = c]
          /\ ProbeTo(p, "ok")
          /\ mixed' = IF Recording = {} THEN mixed ELSE mixed \cup Recording \cup {p}
       \/ ProbeTo(p, "aborted") /\ UNCHANGED <<result, mixed>>
    /\ UNCHANGED <<okGauge, errorGauge, success, last>>

SetOk(p) ==
    /\ probe[p] = "ok"
    /\ okGauge' = IF result[p] = OK THEN 1 ELSE 0
    /\ ProbeTo(p, "error")
    /\ UNCHANGED <<result, errorGauge, success, last, mixed>>

\* Mutation: the other gauge is only ever raised.
RaiseError(p) ==
    /\ probe[p] = "error"
    /\ errorGauge' = IF result[p] = OK THEN errorGauge ELSE 1
    /\ ProbeTo(p, "total")
    /\ UNCHANGED <<result, okGauge, success, last, mixed>>

SetError(p) ==
    /\ probe[p] = "error"
    /\ errorGauge' = IF result[p] = OK THEN 0 ELSE 1
    /\ ProbeTo(p, "total")
    /\ UNCHANGED <<result, okGauge, success, last, mixed>>

\* The time of a success is kept.  A failure is counted, which no step depends on.
Record(p) ==
    /\ probe[p] = "total"
    /\ success' = IF result[p] = OK THEN p ELSE success
    /\ last' = p
    /\ ProbeTo(p, "done")
    /\ UNCHANGED <<result, okGauge, errorGauge, mixed>>

-----------------------------------------------------------------------------

Api(r)   == Enter(r) \/ Route(r) \/ Respond(r) \/ Return(r) \/ Panic(r) \/ Count(r) \/ Leave(r)
Probe(p) == BeginProbe(p) \/ AnswerProbe(p) \/ SetOk(p) \/ SetError(p) \/ Record(p)

Next == \/ \E r \in Requests : Api(r) /\ UNCHANGED probeVars
        \/ \E p \in Probes : Probe(p) /\ UNCHANGED apiVars

Spec == Init /\ [][Next]_vars

-----------------------------------------------------------------------------
(* Properties. *)

Inside(l)     == {r \in Requests : stage[r] \notin {"idle", "done"} /\ label[r] = l}
Recorded(r)   == IF r \in late THEN Error ELSE wire[r]
Counted(l, c) == {r \in Requests : stage[r] \in {"leaving", "done"} /\ label[r] = l /\ Recorded(r) = c}

\* The gauge is the number of requests inside MetricsMiddleware, label by label, though
\* the request gets a route between Inc and Dec: what goes up comes down (metrics.go:53-54).
InFlightExact == \A l \in Labels : inFlight[l] = Cardinality(Inside(l))

\* Every request that left its handler, also by a panic, is counted once, and with the
\* status its client was sent; after a panic that came too late to send 500 the counter
\* has the 500 (metrics.go:70-73, server.go:153).
AnsweredIsCounted ==
    \A l \in Labels, c \in Codes : total[<<l, c>>] = Cardinality(Counted(l, c))

\* While nobody records, the gauges tell the probe that was recorded last, unless
\* another one was recorded at the same time: then they may contradict each other until
\* the next probe (metrics.go:146-153).
GaugesTellLastProbe ==
    Recording = {} /\ last # NoProbe /\ last \notin mixed =>
        /\ okGauge = (IF result[last] = OK THEN 1 ELSE 0)
        /\ errorGauge = 1 - okGauge
        /\ okGauge = 1 => success = last
=============================================================================
