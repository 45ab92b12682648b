-------------------------- MODULE HttpMetricsProofs --------------------------
(***************************************************************************)
(* The invariants of HttpMetrics for any number of requests, paths and     *)
(* probes.                                                                 *)
(*                                                                         *)
(* A counter is the size of a set of requests, and every step adds one     *)
(* request to one such set, takes one from it or leaves it as it is        *)
(* (Plus, Minus).  StageInv says what a request has been sent and what was *)
(* captured at each stage, ProbeInv what the gauges say while one probe is *)
(* recorded by itself.                                                     *)
(***************************************************************************)
EXTENDS HttpMetrics, FiniteSetTheorems, TLAPS

StageInv ==
    \A r \in Requests :
        /\ stage[r] = "idle" => pattern[r] = ""
        /\ stage[r] # "idle" => label[r] \in Labels /\ url[r] \in Paths
        /\ stage[r] \in {"idle", "routing", "handler"} => wire[r] = 0 /\ r \notin late
        /\ stage[r] = "body" => wire[r] \in Codes /\ r \notin late /\ code[r] = wire[r]
        /\ stage[r] \in {"recording", "leaving", "done"} => code[r] = Recorded(r)

Gauge(p) == IF result[p] = OK THEN 1 ELSE 0

ProbeInv ==
    \A p \in Probes \ mixed :
        /\ p \in Recording => Recording = {p}
        /\ probe[p] \in {"error", "total"} => okGauge = Gauge(p)
        /\ probe[p] = "total" => errorGauge = 1 - okGauge

ApiInv   == StageInv /\ InFlightExact /\ AnsweredIsCounted
HealthInv == ProbeInv /\ GaugesTellLastProbe
IInv     == TypeOK /\ ApiInv /\ HealthInv

-----------------------------------------------------------------------------
(* Sizes of sets. *)

\* One more element counts one more.
LEMMA Plus ==
    ASSUME NEW S, IsFiniteSet(S), NEW A \in SUBSET S, NEW x \in S, x \notin A
    PROVE  /\ Cardinality(A) \in Nat
           /\ Cardinality(A \cup {x}) = Cardinality(A) + 1
  <1>1. IsFiniteSet(A)
    BY FS_Subset
  <1> QED BY <1>1, FS_AddElement, FS_CardinalityType

\* One element less counts one less.
LEMMA Minus ==
    ASSUME NEW S, IsFiniteSet(S), NEW A \in SUBSET S, NEW x \in A
    PROVE  /\ Cardinality(A) \in Nat /\ Cardinality(A) - 1 \in Nat
           /\ Cardinality(A \ {x}) = Cardinality(A) - 1
  <1>1. IsFiniteSet(A) /\ IsFiniteSet(A \ {x})
    BY FS_Subset
  <1>2. Cardinality(A) \in Nat /\ Cardinality(A \ {x}) \in Nat
    BY <1>1, FS_CardinalityType
  <1>3. Cardinality(A \ {x}) = Cardinality(A) - 1
    BY <1>1, FS_RemoveElement
  <1> QED BY <1>2, <1>3

LEMMA CodeTypes == OK \in Codes /\ Error \in Codes /\ 0 \notin Codes /\ Codes \subseteq Nat
  BY AnswersAssumption DEF OK, Error, Codes

LEMMA InitInv == Init => IInv
  <1> SUFFICES ASSUME Init
               PROVE  IInv
    OBVIOUS
  <1>1. TypeOK
    BY CodeTypes DEF Init, TypeOK, Stages, ProbeStages
  <1>2. StageInv
    BY DEF Init, StageInv
  <1>3. InFlightExact
    <2>1. \A l \in Labels : Inside(l) = {}
      BY DEF Init, Inside
    <2> QED BY <2>1, FS_EmptySet DEF Init, InFlightExact
  <1>4. AnsweredIsCounted
    <2>1. \A l \in Labels, c \in Codes : Counted(l, c) = {}
      BY DEF Init, Counted
    <2> QED BY <2>1, FS_EmptySet DEF Init, AnsweredIsCounted
  <1>5. ProbeInv /\ GaugesTellLastProbe
    BY DEF Init, ProbeInv, GaugesTellLastProbe, Recording
  <1> QED BY <1>1, <1>2, <1>3, <1>4, <1>5 DEF IInv, ApiInv, HealthInv

-----------------------------------------------------------------------------
(* Steps of requests: StageInv, then the two counters. *)

LEMMA StagesKept ==
    ASSUME IInv, NEW r \in Requests, Api(r)
    PROVE  StageInv'
  <1> USE DEF IInv, ApiInv
  <1>1. \A q \in Requests \ {r} : /\ stage'[q] = stage[q] /\ pattern'[q] = pattern[q]
                                  /\ label'[q] = label[q] /\ url'[q] = url[q]
                                  /\ wire'[q] = wire[q] /\ code'[q] = code[q]
                                  /\ q \in late' <=> q \in late
    BY DEF Api, Enter, Route, Respond, Return, Panic, Count, Leave, Goto, WriteHeader, TypeOK
  <1>2. \A q \in Requests \ {r} : Recorded(q)' = Recorded(q)
    BY <1>1 DEF Recorded
  <1> DEFINE Good(q) ==
        /\ stage'[q] = "idle" => pattern'[q] = ""
        /\ stage'[q] # "idle" => label'[q] \in Labels /\ url'[q] \in Paths
        /\ stage'[q] \in {"idle", "routing", "handler"} => wire'[q] = 0 /\ q \notin late'
        /\ stage'[q] = "body" => wire'[q] \in Codes /\ q \notin late' /\ code'[q] = wire'[q]
        /\ stage'[q] \in {"recording", "leaving", "done"} => code'[q] = Recorded(q)'
  <1>3. \A q \in Requests \ {r} : Good(q)
    BY <1>1, <1>2 DEF StageInv
  <1>4. Good(r)
    <2>1. CASE Enter(r)
      <3>1. PICK p \in Paths : /\ url' = [url EXCEPT ![r] = p]
                               /\ label' = [label EXCEPT ![r] = getRoutePattern(p, pattern[r])]
        BY <2>1 DEF Enter
      <3>2. stage[r] = "idle" /\ stage'[r] = "routing" /\ wire' = wire /\ late' = late
        BY <2>1 DEF Enter, Goto, TypeOK
      <3>3. url'[r] = p /\ label'[r] = p
        BY <3>1, <3>2 DEF TypeOK, getRoutePattern, StageInv
      <3> QED BY <3>2, <3>3 DEF StageInv, Labels
    <2>2. CASE Route(r)
      BY <2>2 DEF Route, Goto, TypeOK, StageInv
    <2>3. CASE Respond(r)
      BY <2>3 DEF Respond, WriteHeader, Goto, TypeOK, StageInv, Codes
    <2>4. CASE Return(r)
      BY <2>4, CodeTypes DEF Return, Goto, TypeOK, StageInv, Recorded
    <2>5. CASE Panic(r)
      <3>1. /\ stage[r] \in {"handler", "body"} /\ stage'[r] = "recording" /\ code'[r] = Error
            /\ wire'[r] = (IF wire[r] = 0 THEN Error ELSE wire[r])
            /\ late' = IF wire[r] # 0 THEN late \cup {r} ELSE late
            /\ label' = label /\ url' = url
        BY <2>5 DEF Panic, WriteHeader, Goto, TypeOK
      <3>2. Recorded(r)' = Error
        BY <3>1 DEF Recorded, StageInv
      <3> QED BY <3>1, <3>2 DEF StageInv
    <2>6. CASE Count(r)
      BY <2>6 DEF Count, Goto, TypeOK, StageInv, Recorded
    <2>7. CASE Leave(r)
      BY <2>7 DEF Leave, Goto, TypeOK, StageInv, Recorded
    <2> QED BY <2>1, <2>2, <2>3, <2>4, <2>5, <2>6, <2>7 DEF Api
  <1>5. \A q \in Requests : Good(q)
    BY <1>3, <1>4
  <1> QED BY <1>5 DEF StageInv

\* The gauge moves in Enter and Leave, with the label r has while it is inside.
LEMMA InFlightKept ==
    ASSUME IInv, NEW r \in Requests, Api(r)
    PROVE  InFlightExact' /\ inFlight' \in [Labels -> Nat]
  <1> USE DEF IInv, ApiInv
  <1>0. \A l \in Labels : Inside(l) \in SUBSET Requests
    BY DEF Inside
  <1>1. CASE Enter(r)
    <2>1. PICK k \in Labels : /\ stage[r] = "idle" /\ stage' = [stage EXCEPT ![r] = "routing"]
                              /\ label' = [label EXCEPT ![r] = k]
                              /\ inFlight' = [inFlight EXCEPT ![k] = @ + 1]
      BY <1>1 DEF Enter, Goto, getRoutePattern, StageInv, Labels
    <2>2. r \notin Inside(k) /\ Inside(k)' = Inside(k) \cup {r}
      BY <2>1 DEF Inside, TypeOK
    <2>3. \A l \in Labels \ {k} : Inside(l)' = Inside(l)
      BY <2>1 DEF Inside, TypeOK
    <2>4. Cardinality(Inside(k)) \in Nat /\ Cardinality(Inside(k)') = Cardinality(Inside(k)) + 1
      BY <1>0, <2>2, Plus, FiniteAssumption
    <2>5. inFlight \in [Labels -> Nat]
      BY DEF TypeOK
    <2>6. /\ inFlight'[k] = inFlight[k] + 1
          /\ \A l \in Labels \ {k} : inFlight'[l] = inFlight[l]
      BY <2>1, <2>5
    <2>7. inFlight' \in [Labels -> Nat]
      BY <2>1, <2>5
    <2> QED BY <2>3, <2>4, <2>6, <2>7 DEF InFlightExact
  <1>2. CASE Leave(r)
    <2>1. PICK k \in Labels : /\ k = label[r] /\ label' = label
                              /\ stage[r] = "leaving" /\ stage' = [stage EXCEPT ![r] = "done"]
                              /\ inFlight' = [inFlight EXCEPT ![k] = @ - 1]
      BY <1>2 DEF Leave, Goto, StageInv
    <2>2. r \in Inside(k) /\ Inside(k)' = Inside(k) \ {r}
      BY <2>1 DEF Inside, TypeOK
    <2>3. \A l \in Labels \ {k} : Inside(l)' = Inside(l)
      BY <2>1 DEF Inside, TypeOK
    <2>4. /\ Cardinality(Inside(k)) - 1 \in Nat
          /\ Cardinality(Inside(k)') = Cardinality(Inside(k)) - 1
      BY <1>0, <2>2, Minus, FiniteAssumption
    <2>5. inFlight \in [Labels -> Nat] /\ inFlight[k] = Cardinality(Inside(k))
      BY DEF TypeOK, InFlightExact
    <2>6. /\ inFlight'[k] = inFlight[k] - 1
          /\ \A l \in Labels \ {k} : inFlight'[l] = inFlight[l]
      BY <2>1, <2>5
    <2>7. inFlight' \in [Labels -> Nat]
      BY <2>1, <2>4, <2>5
    <2> QED BY <2>3, <2>4, <2>5, <2>6, <2>7 DEF InFlightExact
  <1>3. CASE Route(r) \/ Respond(r) \/ Return(r) \/ Panic(r) \/ Count(r)
    <2>1. /\ label' = label /\ inFlight' = inFlight
          /\ stage[r] \notin {"idle", "done"} /\ stage'[r] \notin {"idle", "done"}
          /\ \A q \in Requests \ {r} : stage'[q] = stage[q]
      BY <1>3 DEF Route, Respond, Return, Panic, Count, Goto, TypeOK
    <2>2. \A l \in Labels : Inside(l)' = Inside(l)
      BY <2>1 DEF Inside
    <2> QED BY <2>1, <2>2 DEF InFlightExact, TypeOK
  <1> QED BY <1>1, <1>2, <1>3 DEF Api

\* The counter moves in Count, under the status that was captured.
LEMMA CountedKept ==
    ASSUME IInv, NEW r \in Requests, Api(r)
    PROVE  AnsweredIsCounted' /\ total' \in [Labels \X Codes -> Nat]
  <1> USE DEF IInv, ApiInv
  <1>0. \A l \in Labels, c \in Codes : Counted(l, c) \in SUBSET Requests
    BY DEF Counted
  <1>1. CASE Count(r)
    <2>1. PICK k \in Labels, d \in Codes :
                /\ k = label[r] /\ d = Recorded(r)
                /\ stage[r] = "recording" /\ stage' = [stage EXCEPT ![r] = "leaving"]
                /\ label' = label /\ late' = late /\ wire' = wire
                /\ total' = [total EXCEPT ![<<k, d>>] = @ + 1]
      BY <1>1 DEF Count, Goto, StageInv, TypeOK
    <2>2. r \notin Counted(k, d) /\ Counted(k, d)' = Counted(k, d) \cup {r}
      BY <2>1 DEF Counted, Recorded, TypeOK
    <2>3. \A l \in Labels, c \in Codes : <<l, c>> # <<k, d>> => Counted(l, c)' = Counted(l, c)
      BY <2>1 DEF Counted, Recorded, TypeOK
    <2>4. /\ Cardinality(Counted(k, d)) \in Nat
          /\ Cardinality(Counted(k, d)') = Cardinality(Counted(k, d)) + 1
      BY <1>0, <2>2, Plus, FiniteAssumption
    <2>5. total \in [Labels \X Codes -> Nat] /\ <<k, d>> \in Labels \X Codes
      BY DEF TypeOK
    <2>6. /\ total'[<<k, d>>] = total[<<k, d>>] + 1
          /\ \A l \in Labels, c \in Codes : <<l, c>> # <<k, d>> => total'[<<l, c>>] = total[<<l, c>>]
      BY <2>1, <2>5
    <2>7. total' \in [Labels \X Codes -> Nat]
      BY <2>1, <2>5
    <2>8. ASSUME NEW l \in Labels, NEW c \in Codes
          PROVE  total'[<<l, c>>] = Cardinality(Counted(l, c)')
      <3>1. CASE l = k /\ c = d
        <4>1. total[<<k, d>>] = Cardinality(Counted(k, d))
          BY DEF AnsweredIsCounted
        <4> QED BY <2>4, <2>6, <3>1, <4>1
      <3>2. CASE <<l, c>> # <<k, d>>
        BY <2>3, <2>6, <3>2 DEF AnsweredIsCounted
      <3> QED BY <3>1, <3>2
    <2> QED BY <2>7, <2>8 DEF AnsweredIsCounted
  <1>2. CASE ~Count(r)
    <2>1. /\ total' = total /\ stage[r] \notin {"done"}
          /\ (stage'[r] \in {"leaving", "done"} <=> stage[r] \in {"leaving", "done"})
          /\ \A q \in Requests \ {r} : /\ stage'[q] = stage[q] /\ label'[q] = label[q]
                                       /\ wire'[q] = wire[q] /\ (q \in late' <=> q \in late)
          /\ stage[r] = "leaving" => label' = label /\ wire' = wire /\ late' = late
      BY <1>2 DEF Api, Enter, Route, Respond, Return, Panic, Leave, Goto, WriteHeader, TypeOK
    <2>2. ASSUME NEW l \in Labels, NEW c \in Codes
          PROVE  Counted(l, c)' = Counted(l, c)
      <3>1. \A q \in Requests : q \in Counted(l, c)' <=> q \in Counted(l, c)
        BY <2>1 DEF Counted, Recorded
      <3> QED BY <3>1 DEF Counted
    <2> QED BY <2>1, <2>2 DEF AnsweredIsCounted, TypeOK
  <1> QED BY <1>1, <1>2

\* The requests to the API server do not notice the probes.
LEMMA ApiUnchanged == ApiInv /\ UNCHANGED apiVars => ApiInv'
  <1> SUFFICES ASSUME ApiInv, UNCHANGED apiVars
               PROVE  ApiInv'
    OBVIOUS
  <1>1. \A l : Inside(l)' = Inside(l)
    BY DEF Inside, apiVars
  <1>2. \A l, c : Counted(l, c)' = Counted(l, c)
    BY DEF Counted, Recorded, apiVars
  <1>3. StageInv'
    BY DEF ApiInv, StageInv, Recorded, apiVars
  <1> QED BY <1>1, <1>2, <1>3 DEF ApiInv, InFlightExact, AnsweredIsCounted, apiVars

\* The probes do not notice the requests.
LEMMA HealthUnchanged == HealthInv /\ UNCHANGED probeVars => HealthInv'
  BY DEF HealthInv, ProbeInv, GaugesTellLastProbe, Recording, Gauge, probeVars

LEMMA ApiKeeps ==
    ASSUME IInv, NEW r \in Requests, Api(r), UNCHANGED probeVars
    PROVE  IInv'
  <1> USE DEF IInv
  <1>1. ApiInv'
    BY StagesKept, InFlightKept, CountedKept DEF ApiInv
  <1>2. HealthInv'
    BY HealthUnchanged
  <1>3. url' \in [Requests -> Paths \cup {""}] /\ label' \in [Requests -> Labels \cup {""}]
    <2>1. CASE Enter(r)
      <3>1. PICK p \in Paths : /\ url' = [url EXCEPT ![r] = p]
                               /\ label' = [label EXCEPT ![r] = getRoutePattern(p, pattern[r])]
        BY <2>1 DEF Enter
      <3>2. getRoutePattern(p, pattern[r]) \in Labels
        BY DEF getRoutePattern, Labels, TypeOK
      <3> QED BY <3>1, <3>2 DEF TypeOK
    <2>2. CASE ~Enter(r)
      BY <2>2 DEF Api, Route, Respond, Return, Panic, Count, Leave, TypeOK
    <2> QED BY <2>1, <2>2
  <1>4. pattern' \in [Requests -> Patterns \cup {""}]
    <2>1. CASE Route(r)
      <3>1. RouteOf[url[r]] \in Patterns
        BY <2>1, RoutesAssumption DEF Route, ApiInv, StageInv
      <3> QED BY <2>1, <3>1 DEF Route, TypeOK
    <2>2. CASE ~Route(r)
      BY <2>2 DEF Api, Enter, Respond, Return, Panic, Count, Leave, TypeOK
    <2> QED BY <2>1, <2>2
  <1>6. stage' \in [Requests -> Stages] /\ late' \subseteq Requests
    BY DEF Api, Enter, Route, Respond, Return, Panic, Count, Leave, TypeOK, Goto, Stages
  <1>7. code' \in [Requests -> Codes] /\ wire' \in [Requests -> Codes \cup {0}]
    <2>1. ASSUME NEW c \in Codes, WriteHeader(r, c)
          PROVE  code' \in [Requests -> Codes] /\ wire' \in [Requests -> Codes \cup {0}]
      BY <2>1 DEF WriteHeader, TypeOK
    <2>2. CASE Respond(r)
      BY <2>1, <2>2 DEF Respond, Codes
    <2>3. CASE Panic(r)
      BY <2>1, <2>3, CodeTypes DEF Panic
    <2>4. CASE ~Respond(r) /\ ~Panic(r)
      BY <2>4 DEF Api, Enter, Route, Return, Count, Leave, TypeOK
    <2> QED BY <2>2, <2>3, <2>4
  <1>5. TypeOK'
    BY <1>3, <1>4, <1>6, <1>7, InFlightKept, CountedKept DEF TypeOK, probeVars
  <1> QED BY <1>1, <1>2, <1>5

-----------------------------------------------------------------------------
(* Steps of probes. *)

LEMMA ProbeKeeps ==
    ASSUME IInv, NEW p \in Probes, Probe(p), UNCHANGED apiVars
    PROVE  IInv'
  <1> USE DEF IInv, HealthInv
  <1>1. ApiInv'
    BY ApiUnchanged
  <1>2. TypeOK'
    <2>1. probe' \in [Probes -> ProbeStages]
      <3>1. PICK s \in ProbeStages : ProbeTo(p, s)
        BY DEF Probe, BeginProbe, AnswerProbe, SetOk, SetError, Record, ProbeStages
      <3> QED BY <3>1 DEF ProbeTo, TypeOK
    <2>2. result' \in [Probes -> Codes]
      BY DEF Probe, BeginProbe, AnswerProbe, SetOk, SetError, Record, TypeOK, Codes
    <2>3. okGauge' \in {0, 1} /\ errorGauge' \in {0, 1}
      BY DEF Probe, BeginProbe, AnswerProbe, SetOk, SetError, Record, TypeOK
    <2>4. /\ success' \in Probes \cup {NoProbe} /\ last' \in Probes \cup {NoProbe}
          /\ mixed' \subseteq Probes
      BY DEF Probe, BeginProbe, AnswerProbe, SetOk, SetError, Record, TypeOK, Recording
    <2> QED BY <2>1, <2>2, <2>3, <2>4 DEF TypeOK, apiVars
  <1>3. \A q \in Probes \ {p} : probe'[q] = probe[q] /\ result'[q] = result[q]
    BY DEF Probe, BeginProbe, AnswerProbe, SetOk, SetError, Record, ProbeTo, TypeOK
  \* Gauges change only under the probe that is recorded: nobody else is, or it is mixed.
  <1>4. ProbeInv'
    <2> SUFFICES ASSUME NEW q \in Probes, q \notin mixed'
                 PROVE  /\ q \in Recording' => Recording' = {q}
                        /\ probe'[q] \in {"error", "total"} => okGauge' = Gauge(q)'
                        /\ probe'[q] = "total" => errorGauge' = 1 - okGauge'
      BY DEF ProbeInv
    <2>0. q \notin mixed /\ mixed \subseteq mixed'
      BY DEF Probe, BeginProbe, AnswerProbe, SetOk, SetError, Record
    <2>1. CASE BeginProbe(p)
      <3>1. probe[p] = "idle" /\ probe'[p] = "handler" /\ okGauge' = okGauge /\ errorGauge' = errorGauge
            /\ result' = result
        BY <2>1 DEF BeginProbe, ProbeTo, TypeOK
      <3>2. Recording' = Recording
        BY <1>3, <3>1 DEF Recording
      <3> QED BY <1>3, <2>0, <3>1, <3>2 DEF ProbeInv, Gauge
    <2>2. CASE AnswerProbe(p) /\ probe'[p] = "ok"
      <3>1. probe[p] = "handler" /\ okGauge' = okGauge /\ errorGauge' = errorGauge
            /\ mixed' = IF Recording = {} THEN mixed ELSE mixed \cup Recording \cup {p}
        BY <2>2 DEF AnswerProbe, ProbeTo, TypeOK
      <3>2. Recording' = Recording \cup {p}
        BY <1>3, <2>2 DEF Recording
      <3>3. CASE q = p
        BY <2>2, <3>1, <3>2, <3>3
      <3>4. CASE q # p
        <4>1. q \notin Recording
          BY <3>1
        <4> QED BY <1>3, <3>2, <3>4, <4>1 DEF Recording
      <3> QED BY <3>3, <3>4
    <2>3. CASE AnswerProbe(p) /\ probe'[p] = "aborted"
      <3>1. probe[p] = "handler" /\ okGauge' = okGauge /\ errorGauge' = errorGauge /\ result' = result
        BY <2>3 DEF AnswerProbe, ProbeTo, TypeOK
      <3>2. Recording' = Recording
        BY <1>3, <2>3, <3>1 DEF Recording
      <3> QED BY <1>3, <2>0, <2>3, <3>1, <3>2 DEF ProbeInv, Gauge
    <2>4. CASE SetOk(p)
      <3>1. probe[p] = "ok" /\ probe'[p] = "error" /\ okGauge' = Gauge(p) /\ errorGauge' = errorGauge
            /\ result' = result
        BY <2>4 DEF SetOk, ProbeTo, TypeOK, Gauge
      <3>2. Recording' = Recording /\ p \in Recording
        BY <1>3, <3>1 DEF Recording
      <3>3. CASE q = p
        BY <2>0, <3>1, <3>2, <3>3 DEF ProbeInv, Gauge
      <3>4. CASE q # p
        <4>1. q \notin Recording
          BY <2>0, <3>2, <3>4 DEF ProbeInv
        <4> QED BY <1>3, <3>2, <3>4, <4>1 DEF Recording
      <3> QED BY <3>3, <3>4
    <2>5. CASE SetError(p)
      <3>0. /\ probe[p] = "error" /\ probe'[p] = "total" /\ okGauge' = okGauge /\ result' = result
            /\ errorGauge' = IF result[p] = OK THEN 0 ELSE 1
        BY <2>5 DEF SetError, ProbeTo, TypeOK
      <3>1. /\ probe[p] = "error" /\ probe'[p] = "total" /\ okGauge' = okGauge /\ result' = result
            /\ errorGauge' = 1 - Gauge(p)
        BY <3>0 DEF Gauge
      <3>2. Recording' = Recording /\ p \in Recording
        BY <1>3, <3>1 DEF Recording
      <3>3. CASE q = p
        BY <2>0, <3>1, <3>2, <3>3 DEF ProbeInv, Gauge
      <3>4. CASE q # p
        <4>1. q \notin Recording
          BY <2>0, <3>2, <3>4 DEF ProbeInv
        <4> QED BY <1>3, <3>2, <3>4, <4>1 DEF Recording
      <3> QED BY <3>3, <3>4
    <2>6. CASE Record(p)
      <3>1. probe[p] = "total" /\ probe'[p] = "done" /\ errorGauge' = errorGauge /\ okGauge' = okGauge
            /\ result' = result
        BY <2>6 DEF Record, ProbeTo, TypeOK
      <3>2. Recording' = Recording \ {p} /\ p \in Recording
        BY <1>3, <3>1 DEF Recording
      <3>3. CASE q = p
        BY <3>1, <3>2, <3>3
      <3>4. CASE q # p
        <4>1. q \notin Recording
          BY <2>0, <3>2, <3>4 DEF ProbeInv
        <4> QED BY <1>3, <3>2, <3>4, <4>1 DEF Recording
      <3> QED BY <3>3, <3>4
    <2>7. AnswerProbe(p) => probe'[p] \in {"ok", "aborted"}
      BY DEF AnswerProbe, ProbeTo, TypeOK
    <2> QED BY <2>1, <2>2, <2>3, <2>4, <2>5, <2>6, <2>7 DEF Probe
  <1>5. GaugesTellLastProbe'
    <2> SUFFICES ASSUME Recording' = {}, last' # NoProbe, last' \notin mixed'
                 PROVE  /\ okGauge' = (IF result'[last'] = OK THEN 1 ELSE 0)
                        /\ errorGauge' = 1 - okGauge'
                        /\ okGauge' = 1 => success' = last'
      BY DEF GaugesTellLastProbe
    <2>1. probe'[p] \notin {"ok", "error", "total"}
      BY DEF Recording
    <2>2. CASE Record(p)
      <3>1. /\ probe[p] = "total" /\ last' = p /\ okGauge' = okGauge /\ errorGauge' = errorGauge
            /\ result' = result /\ mixed' = mixed
            /\ (result[p] = OK => success' = p)
        BY <2>2 DEF Record
      <3>2. okGauge = Gauge(p) /\ errorGauge = 1 - okGauge
        BY <3>1 DEF ProbeInv
      <3>3. Gauge(p) = 1 => result[p] = OK
        BY DEF Gauge
      <3> QED BY <3>1, <3>2, <3>3 DEF Gauge
    <2>3. CASE ~Record(p)
      <3>1. /\ last' = last /\ mixed' = mixed /\ result' = result /\ success' = success
            /\ okGauge' = okGauge /\ errorGauge' = errorGauge
            /\ probe[p] \notin {"ok", "error", "total"}
        BY <2>1, <2>3 DEF Probe, BeginProbe, AnswerProbe, SetOk, SetError, ProbeTo, TypeOK
      <3>2. Recording = {}
        BY <1>3, <2>1, <3>1 DEF Recording
      <3> QED BY <3>1, <3>2 DEF GaugesTellLastProbe, HealthInv
    <2> QED BY <2>2, <2>3
  <1> QED BY <1>1, <1>2, <1>4, <1>5 DEF HealthInv

-----------------------------------------------------------------------------

\* The inductive invariant holds in every state.
THEOREM Invariance == Spec => []IInv
  <1>1. IInv /\ UNCHANGED vars => IInv'
    <2> SUFFICES ASSUME IInv, UNCHANGED vars
                 PROVE  IInv'
      OBVIOUS
    <2>1. TypeOK'
      BY DEF IInv, TypeOK, vars, apiVars, probeVars
    <2> QED BY <2>1, ApiUnchanged, HealthUnchanged DEF IInv, vars
  <1>2. IInv /\ [Next]_vars => IInv'
    BY <1>1, ApiKeeps, ProbeKeeps DEF Next
  <1> QED BY InitInv, <1>2, PTL DEF Spec

\* Every variable keeps its type; the gauge of requests in flight is never negative.
THEOREM TypeCorrect == Spec => []TypeOK
  <1> QED BY Invariance, PTL DEF IInv

\* Whatever route a request gets, it is counted out of the label it was counted in.
THEOREM GaugeBalances == Spec => []InFlightExact
  <1> QED BY Invariance, PTL DEF IInv, ApiInv

\* Every request that is done with its handler is in the counter once, under the status
\* its client saw unless it panicked after that.
THEOREM NothingUncounted == Spec => []AnsweredIsCounted
  <1> QED BY Invariance, PTL DEF IInv, ApiInv

\* The gauges of a health check are right whenever its last recording was undisturbed.
THEOREM GaugesSettle == Spec => []GaugesTellLastProbe
  <1> QED BY Invariance, PTL DEF IInv, HealthInv
=============================================================================
