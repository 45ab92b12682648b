------------------------- MODULE HealthManagerProofs -------------------------
(***************************************************************************)
(* The invariants of HealthManager for any number of probes, any set of    *)
(* checkers, and any cache duration and check timeout.                     *)
(*                                                                         *)
(* What a checker saw stays true of the time it looked (Seen): a running   *)
(* server stays running, and a readiness check that saw no shutdown looked *)
(* before it.  The cache and the results only ever hold what was seen      *)
(* (CacheInv, ResultInv), with bounds on its age, and a response is built  *)
(* from results alone (ResponseInv).                                       *)
(***************************************************************************)
EXTENDS HealthManager, FiniteSetTheorems, TLAPS

\* Status s may be what checker c found at time t.
Seen(c, s, t) ==
    /\ s \in Status /\ t <= now
    /\ c = "servers" => s \in {"ok", "starting"} /\ (s = "ok" => serversRunning)
    /\ (c = "readiness" /\ s = "ok") =>
           serversRunning /\ (readiness.shuttingDown => t <= shutdownAt)

FlagsInv ==
    /\ main # "starting" => serversRunning
    /\ readiness.serversRunning => serversRunning
    /\ readiness.shuttingDown => main = "down" /\ shutdownAt <= now
    /\ \A c \in StoreCheckers : external[c] \in StoreStatuses(c)

CacheInv ==
    \A c \in Checkers : cache[c] # NoEntry =>
        /\ cache[c] \in Entry /\ Seen(c, cache[c].status, cache[c].readAt)
        /\ \/ Unbounded(c, cache[c].status)
           \/ cache[c].expiresAt <= cache[c].readAt + CheckTimeout + CacheDuration

Fresh(p, c) ==
    \/ Unbounded(c, result[p][c].status)
    \/ result[p][c].lookedAt <= result[p][c].readAt
    \/ result[p][c].lookedAt < result[p][c].readAt + CacheDuration + CheckTimeout

ResultOK(p, c) ==
    /\ stage[p][c] = "lookup" => askedAt[p] <= now
    /\ stage[p][c] \in {"check", "cache", "found", "returned"} =>
           askedAt[p] <= result[p][c].lookedAt /\ result[p][c].lookedAt <= now
    /\ stage[p][c] \in {"cache", "found", "returned"} => Seen(c, result[p][c].status, result[p][c].readAt)
    /\ stage[p][c] = "cache" =>
           /\ result[p][c].lookedAt <= result[p][c].readAt
           /\ \/ Unbounded(c, result[p][c].status)
              \/ now <= result[p][c].readAt + CheckTimeout
    /\ stage[p][c] \in {"found", "returned"} => Fresh(p, c)

ResultInv == \A p \in Probes, c \in Checkers : ResultOK(p, c)

\* The result of check c was sent and is still in the channel.
InChannel(p, c) == \E i \in 1..Len(resultChan[p]) : resultChan[p][i] = c

\* The channel is closed after the last send, and a failure that was sent is still in it
\* or shows in the response.
StartupOK(p) ==
    /\ p \in closed => \A c \in Checkers : stage[p][c] = "returned"
    /\ p \in answered => p \in closed /\ resultChan[p] = <<>>
    /\ \A c \in Checkers :
           (stage[p][c] = "returned" /\ result[p][c].status \in {"starting", "error"}) =>
               InChannel(p, c) \/ (response[p].status # "ok" /\ ~response[p].allOK)

ReadinessOK(p) ==
    /\ \A c \in Checkers \ {"readiness"} : stage[p][c] = "idle"
    /\ stage[p]["readiness"] # "returned" /\ resultChan[p] = <<>> /\ p \notin closed
    /\ p \in answered =>
           /\ stage[p]["readiness"] = "found"
           /\ response[p].status = result[p]["readiness"].status

ResponseOK(p) ==
    /\ p \in StartupProbes => StartupOK(p)
    /\ p \in ReadinessProbes => ReadinessOK(p)

ResponseInv == \A p \in Probes : ResponseOK(p)

IInv == TypeOK /\ FlagsInv /\ CacheInv /\ ResultInv /\ ResponseInv

LEMMA Constants ==
    /\ "servers" \in Checkers /\ "readiness" \in Checkers
    /\ \A c \in Checkers : c \in StoreCheckers \/ c = "servers" \/ c = "readiness"
    /\ \A p \in Probes : "readiness" \in ChecksOf(p) /\ ChecksOf(p) \subseteq Checkers
    /\ \A p \in ReadinessProbes : p \notin StartupProbes
    /\ \A p \in StartupProbes : p \notin ReadinessProbes
    /\ Probes = StartupProbes \cup ReadinessProbes
    /\ \A t \in Time : t \in Nat
    /\ CacheDuration \in Nat /\ CheckTimeout \in Nat
  BY ProbesAssumption, CheckersAssumption, TimeAssumption
  DEF StoreCheckers, Probes, ChecksOf, Time

LEMMA InitInv == Init => IInv
  <1> SUFFICES ASSUME Init
               PROVE  IInv
    OBVIOUS
  <1>1. TypeOK
    <2>1. 0 \in Time
      BY TimeAssumption DEF Time
    <2>2. cache \in [Checkers -> Entry \cup {NoEntry}]
      BY DEF Init
    <2>3. stage \in [Probes -> [Checkers -> Stages]]
      BY DEF Init, Stages
    <2>4. NoResult \in Result
      BY <2>1 DEF NoResult, Result
    <2>5. result \in [Probes -> [Checkers -> Result]]
      BY <2>4 DEF Init
    <2>6. response \in [Probes -> [status : Status, allOK : BOOLEAN]]
      BY DEF Init, Status
    <2>7. resultChan \in [Probes -> Seq(Checkers)]
      BY DEF Init
    <2> QED BY <2>1, <2>2, <2>3, <2>5, <2>6, <2>7 DEF Init, TypeOK, Status
  <1>2. FlagsInv
    BY DEF Init, FlagsInv, StoreStatuses
  <1>3. CacheInv
    BY DEF Init, CacheInv
  <1>4. \A p \in Probes, c \in Checkers : stage[p][c] = "idle"
    BY DEF Init
  <1>5. ResultInv
    BY <1>4 DEF ResultInv, ResultOK
  <1>6. ResponseInv
    BY <1>4, Constants DEF ResponseInv, ResponseOK, StartupOK, ReadinessOK, Init
  <1> QED BY <1>1, <1>2, <1>3, <1>5, <1>6 DEF IInv

-----------------------------------------------------------------------------
(* What was seen stays true. *)

\* Time goes on, running servers stay running, and a shutdown that begins begins now.
LEMMA SeenLasts ==
    ASSUME IInv, [Next]_vars, NEW c \in Checkers, NEW s, NEW t \in Time, Seen(c, s, t)
    PROVE  Seen(c, s, t)'
  <1>0. now \in Nat /\ t \in Nat
    BY Constants DEF IInv, TypeOK
  <1>1. CASE SetShuttingDown
    BY <1>1 DEF SetShuttingDown, Seen, IInv, TypeOK
  <1>2. CASE Tick
    BY <1>0, <1>2 DEF Tick, flags, Seen
  <1>3. CASE SetServersRunning \/ SetReadinessRunning
    BY <1>3 DEF SetServersRunning, SetReadinessRunning, Seen, IInv, TypeOK
  <1>4. CASE UNCHANGED <<now, serversRunning, readiness, shutdownAt>>
    BY <1>4 DEF Seen
  <1>5. SetShuttingDown \/ Tick \/ SetServersRunning \/ SetReadinessRunning
        \/ UNCHANGED <<now, serversRunning, readiness, shutdownAt>>
    <2>1. \A d \in StoreCheckers : StoreChanges(d) => UNCHANGED <<now, serversRunning, readiness, shutdownAt>>
      BY DEF StoreChanges
    <2>2. \A p \in Probes : Begin(p) \/ ProbeStep(p) => UNCHANGED <<now, flags>>
      BY DEF Begin, ProbeStep, Lookup, Check, CacheResult, Send, Close, Receive, AnswerStartup, AnswerReadiness
    <2>3. UNCHANGED vars => UNCHANGED <<now, serversRunning, readiness, shutdownAt>>
      BY DEF vars
    <2> QED BY <2>1, <2>2, <2>3 DEF Next, flags
  <1> QED BY <1>1, <1>2, <1>3, <1>4, <1>5

\* What a checker finds now is seen now.
LEMMA LiveSeen ==
    ASSUME IInv, NEW c \in Checkers
    PROVE  Seen(c, LiveStatus(c), now)
  <1> USE DEF IInv
  <1>0. now \in Nat /\ now <= now
    BY Constants DEF TypeOK
  <1>1. CASE c = "servers"
    BY <1>0, <1>1 DEF Seen, LiveStatus, Status
  <1>2. CASE c = "readiness"
    BY <1>0, <1>2 DEF Seen, LiveStatus, Status, FlagsInv
  <1>3. CASE c \in StoreCheckers
    <2>1. c # "servers" /\ c # "readiness" /\ external[c] \in Status
      BY <1>3 DEF StoreCheckers, TypeOK
    <2> QED BY <1>0, <2>1 DEF Seen, LiveStatus
  <1> QED BY <1>1, <1>2, <1>3, Constants

\* So does all that is known of a result no step has changed, sent or not, unless time
\* went on.
LEMMA ResultLasts ==
    ASSUME IInv, [Next]_vars, NEW p \in Probes, NEW c \in Checkers, now' = now,
           stage'[p][c] = stage[p][c] \/ (stage[p][c] = "found" /\ stage'[p][c] = "returned"),
           result'[p][c] = result[p][c], askedAt'[p] = askedAt[p]
    PROVE  ResultOK(p, c)'
  <1>1. result[p][c].readAt \in Time
    BY DEF IInv, TypeOK, Result
  <1>2. stage[p][c] \in {"cache", "found", "returned"} => Seen(c, result[p][c].status, result[p][c].readAt)'
    <2>1. SUFFICES ASSUME stage[p][c] \in {"cache", "found", "returned"}
                   PROVE  Seen(c, result[p][c].status, result[p][c].readAt)'
      OBVIOUS
    <2>2. PICK s \in Status, t \in Time : s = result[p][c].status /\ t = result[p][c].readAt
      BY <1>1, <2>1 DEF IInv, ResultInv, ResultOK, Seen
    <2>3. Seen(c, s, t)
      BY <2>1, <2>2 DEF IInv, ResultInv, ResultOK
    <2>4. Seen(c, s, t)'
      BY <2>3, SeenLasts
    <2>5. result'[p][c].status = s /\ result'[p][c].readAt = t
      BY <2>2
    <2> QED BY <2>4, <2>5 DEF Seen
  <1>3. ResultOK(p, c)
    BY DEF IInv, ResultInv
  <1> QED BY <1>2, <1>3 DEF ResultOK, Fresh

\* And of the cache, entry by entry.
LEMMA EntryLasts ==
    ASSUME IInv, [Next]_vars, NEW c \in Checkers, cache'[c] = cache[c], cache[c] # NoEntry
    PROVE  /\ cache'[c] \in Entry /\ Seen(c, cache[c].status, cache[c].readAt)'
           /\ \/ Unbounded(c, cache'[c].status)
              \/ cache'[c].expiresAt <= cache'[c].readAt + CheckTimeout + CacheDuration
  <1>1. /\ cache[c] \in Entry /\ Seen(c, cache[c].status, cache[c].readAt)
        /\ \/ Unbounded(c, cache[c].status)
           \/ cache[c].expiresAt <= cache[c].readAt + CheckTimeout + CacheDuration
    BY DEF IInv, CacheInv
  <1>2. PICK s \in Status, t \in Time : s = cache[c].status /\ t = cache[c].readAt
    BY <1>1 DEF Entry
  <1>3. Seen(c, s, t)'
    BY <1>1, <1>2, SeenLasts
  <1>4. Seen(c, cache[c].status, cache[c].readAt)'
    BY <1>2, <1>3 DEF Seen
  <1> QED BY <1>1, <1>4

LEMMA CacheLasts ==
    ASSUME IInv, [Next]_vars, cache' = cache
    PROVE  CacheInv'
  BY EntryLasts DEF CacheInv

\* A response is about the stages and results of its own probe.
LEMMA ResponseLasts ==
    ASSUME IInv, NEW p \in Probes, stage'[p] = stage[p], result'[p] = result[p],
           response'[p] = response[p], resultChan'[p] = resultChan[p],
           p \in answered' <=> p \in answered, p \in closed' <=> p \in closed
    PROVE  ResponseOK(p)'
  BY DEF IInv, ResponseInv, ResponseOK, StartupOK, ReadinessOK, InChannel

-----------------------------------------------------------------------------
(* One lemma per kind of step. *)

\* The process and the store change their flags, or time passes.
LEMMA EnvironmentKeeps ==
    ASSUME IInv,
           \/ SetServersRunning \/ SetReadinessRunning \/ SetShuttingDown \/ Tick
           \/ \E c \in StoreCheckers : StoreChanges(c)
    PROVE  IInv'
  <1> USE DEF IInv
  <1>0. [Next]_vars
    BY DEF Next
  <1>1. UNCHANGED <<cache, stage, result, resultChan, closed, response, answered, askedAt>>
    BY DEF SetServersRunning, SetReadinessRunning, SetShuttingDown, Tick, StoreChanges, probes, channel
  <1>2. TypeOK'
    <2>1. now' \in Time
      BY TimeAssumption DEF SetServersRunning, SetReadinessRunning, SetShuttingDown, Tick, StoreChanges,
                            TypeOK, Time
    <2>2. main' \in {"starting", "marking", "up", "down"} /\ serversRunning' \in BOOLEAN
          /\ readiness' \in [serversRunning : BOOLEAN, shuttingDown : BOOLEAN] /\ shutdownAt' \in Time
      BY DEF SetServersRunning, SetReadinessRunning, SetShuttingDown, Tick, StoreChanges, TypeOK, flags
    <2>3. external' \in [StoreCheckers -> Status]
      <3>1. \A c : StoreStatuses(c) \subseteq Status
        BY DEF StoreStatuses, Status
      <3> QED BY <3>1 DEF SetServersRunning, SetReadinessRunning, SetShuttingDown, Tick, StoreChanges,
                          TypeOK, flags
    <2> QED BY <1>1, <2>1, <2>2, <2>3 DEF TypeOK
  <1>3. FlagsInv'
    <2>1. CASE Tick
      BY <2>1, Constants DEF Tick, flags, FlagsInv, TypeOK
    <2>2. CASE \E c \in StoreCheckers : StoreChanges(c)
      BY <2>2 DEF StoreChanges, FlagsInv, TypeOK, StoreStatuses
    <2>3. CASE SetShuttingDown
      BY <2>3, Constants DEF SetShuttingDown, FlagsInv, TypeOK, StoreStatuses
    <2>4. CASE SetServersRunning \/ SetReadinessRunning
      BY <2>4 DEF SetServersRunning, SetReadinessRunning, FlagsInv, TypeOK, StoreStatuses
    <2> QED BY <2>1, <2>2, <2>3, <2>4
  <1>4. CacheInv'
    BY <1>0, <1>1, CacheLasts
  <1>5. ResultInv'
    <2>1. CASE now' = now
      BY <1>0, <1>1, <2>1, ResultLasts DEF ResultInv
    <2>2. CASE Tick
      <3> SUFFICES ASSUME NEW p \in Probes, NEW c \in Checkers
                   PROVE  ResultOK(p, c)'
        BY DEF ResultInv
      <3>1. /\ now \in Nat /\ now' = now + 1 /\ askedAt[p] \in Nat
            /\ result[p][c].lookedAt \in Nat /\ result[p][c].readAt \in Time /\ result[p][c].readAt \in Nat
        BY <2>2, Constants DEF Tick, TypeOK, Result
      <3>2. Seen(c, result[p][c].status, result[p][c].readAt) => Seen(c, result[p][c].status, result[p][c].readAt)'
        BY <1>1, <2>2, <3>1 DEF Tick, flags, Seen
      <3>3. stage[p][c] = "cache" => \/ Unbounded(c, result[p][c].status)
                                     \/ now + 1 <= result[p][c].readAt + CheckTimeout
        BY <2>2, <3>1, Constants DEF Tick
      <3>4. ResultOK(p, c)
        BY DEF ResultInv
      <3> QED BY <1>1, <3>1, <3>2, <3>3, <3>4 DEF ResultOK, Fresh
    <2> QED BY <2>1, <2>2 DEF SetServersRunning, SetReadinessRunning, SetShuttingDown, StoreChanges
  <1>6. ResponseInv'
    BY <1>1, ResponseLasts DEF ResponseInv
  <1> QED BY <1>2, <1>3, <1>4, <1>5, <1>6

\* A step of a probe leaves the flags alone, and so what is said of them.
LEMMA FlagsKept ==
    ASSUME IInv, UNCHANGED <<now, flags>>
    PROVE  FlagsInv'
  BY DEF IInv, FlagsInv, flags, StoreStatuses

LEMMA BeginKeeps ==
    ASSUME IInv, NEW p \in Probes, Begin(p)
    PROVE  IInv'
  <1> USE DEF IInv
  <1>0. [Next]_vars /\ UNCHANGED <<now, flags, cache, result, resultChan, closed, response, answered>>
    BY DEF Next, Begin, channel
  <1>1. now \in Nat /\ now \in Time /\ now <= now
    BY Constants DEF TypeOK
  <1>2. \A c \in Checkers : /\ stage[p][c] = "idle"
                            /\ stage'[p][c] = IF c \in ChecksOf(p) THEN "lookup" ELSE "idle"
    BY DEF Begin, TypeOK
  <1>3. askedAt'[p] = now /\ \A q \in Probes \ {p} : stage'[q] = stage[q] /\ askedAt'[q] = askedAt[q]
    BY DEF Begin, TypeOK
  <1>4. TypeOK'
    <2>1. stage' \in [Probes -> [Checkers -> Stages]]
      BY DEF Begin, TypeOK, Stages
    <2>2. askedAt' \in [Probes -> Time]
      BY <1>1 DEF Begin, TypeOK
    <2> QED BY <1>0, <2>1, <2>2 DEF TypeOK, flags
  <1>5. CacheInv' /\ FlagsInv'
    BY <1>0, CacheLasts, FlagsKept
  <1>6. ResultInv'
    <2> SUFFICES ASSUME NEW q \in Probes, NEW c \in Checkers
                 PROVE  ResultOK(q, c)'
      BY DEF ResultInv
    <2>1. CASE q = p
      BY <1>0, <1>1, <1>2, <1>3, <2>1 DEF ResultOK
    <2>2. CASE q # p
      BY <1>0, <1>3, <2>2, ResultLasts
    <2> QED BY <2>1, <2>2
  <1>7. ResponseInv'
    <2> SUFFICES ASSUME NEW q \in Probes
                 PROVE  ResponseOK(q)'
      BY DEF ResponseInv
    <2>1. CASE q = p
      <3>1. p \notin answered /\ p \notin closed
        BY <1>2, Constants DEF ResponseInv, ResponseOK, StartupOK, ReadinessOK
      <3>2. \A c \in Checkers : stage'[p][c] # "returned"
        BY <1>2
      <3>3. p \in ReadinessProbes => \A c \in Checkers \ {"readiness"} : stage'[p][c] = "idle"
        BY <1>2, Constants DEF ChecksOf
      <3>4. p \in ReadinessProbes => resultChan[p] = <<>>
        BY DEF ResponseInv, ResponseOK, ReadinessOK
      <3> QED BY <1>0, <2>1, <3>1, <3>2, <3>3, <3>4, Constants DEF ResponseOK, StartupOK, ReadinessOK
    <2>2. CASE q # p
      BY <1>0, <1>3, <2>2, ResponseLasts
    <2> QED BY <2>1, <2>2
  <1> QED BY <1>4, <1>5, <1>6, <1>7

\* A check of a probe moves on, and the other checks stay where they are.
LEMMA OthersStay ==
    ASSUME IInv, NEW p \in Probes, NEW c \in Checkers,
           Lookup(p, c) \/ Check(p, c) \/ CacheResult(p, c)
    PROVE  /\ UNCHANGED <<now, flags, resultChan, closed, response, answered, askedAt>>
           /\ stage[p][c] \notin {"idle", "found", "returned"} /\ stage'[p][c] \notin {"idle", "returned"}
           /\ \A q \in Probes, d \in Checkers : (q # p \/ d # c) =>
                  stage'[q][d] = stage[q][d] /\ result'[q][d] = result[q][d]
           /\ \A q \in Probes \ {p} : stage'[q] = stage[q] /\ result'[q] = result[q]
           /\ stage' \in [Probes -> [Checkers -> Stages]]
           /\ result'[p][c].lookedAt \in Time
  <1> USE DEF IInv
  <1>1. UNCHANGED <<now, flags, resultChan, closed, response, answered, askedAt>>
    BY DEF Lookup, Check, CacheResult, channel
  <1>2. PICK s \in {"check", "cache", "found"} : stage' = [stage EXCEPT ![p][c] = s]
    BY DEF Lookup, Found, Missed, Check, CacheResult
  <1>3. stage[p][c] \notin {"idle", "found", "returned"} /\ stage'[p][c] \notin {"idle", "returned"}
    BY <1>2 DEF Lookup, Check, CacheResult, TypeOK
  <1>4. \A q \in Probes, d \in Checkers : (q # p \/ d # c) => stage'[q][d] = stage[q][d]
    BY <1>2 DEF TypeOK
  <1>5. \A q \in Probes \ {p} : stage'[q] = stage[q]
    BY <1>2 DEF TypeOK
  <1>6. stage' \in [Probes -> [Checkers -> Stages]]
    BY <1>2 DEF TypeOK, Stages
  <1>7. \A q \in Probes, d \in Checkers : (q # p \/ d # c) => result'[q][d] = result[q][d]
    BY DEF Lookup, Found, Missed, Check, CacheResult, TypeOK
  <1>8. \A q \in Probes \ {p} : result'[q] = result[q]
    BY DEF Lookup, Found, Missed, Check, CacheResult, TypeOK
  <1>9. result'[p][c].lookedAt \in Time
    <2>1. result[p][c] \in Result /\ now \in Time
      BY DEF TypeOK
    <2>2. CASE Lookup(p, c)
      <3>1. \/ result' = [result EXCEPT ![p][c] = [status |-> cache[c].status,
                               readAt |-> cache[c].readAt, lookedAt |-> now]]
            \/ result' = [result EXCEPT ![p][c].lookedAt = now]
        BY <2>2 DEF Lookup, Found, Missed
      <3>2. result'[p][c].lookedAt = now
        BY <2>1, <3>1 DEF TypeOK, Result
      <3> QED BY <2>1, <3>2
    <2>3. CASE Check(p, c) \/ CacheResult(p, c)
      <3>1. result'[p][c].lookedAt = result[p][c].lookedAt
        <4>1. \/ result' = [result EXCEPT ![p][c] = [@ EXCEPT !.status = LiveStatus(c), !.readAt = now]]
              \/ result' = result
          BY <2>3 DEF Check, CacheResult
        <4>2. \/ result'[p][c] = [result[p][c] EXCEPT !.status = LiveStatus(c), !.readAt = now]
              \/ result'[p][c] = result[p][c]
          BY <4>1 DEF TypeOK
        <4> QED BY <2>1, <4>2 DEF Result
      <3> QED BY <2>1, <3>1 DEF Result
    <2> QED BY <2>2, <2>3
  <1> QED BY <1>1, <1>3, <1>4, <1>5, <1>6, <1>7, <1>8, <1>9

\* It sends nothing, so that no response changes, nor what is said of it.
LEMMA MoveKeepsResponses ==
    ASSUME IInv, NEW p \in Probes, NEW c \in Checkers,
           Lookup(p, c) \/ Check(p, c) \/ CacheResult(p, c)
    PROVE  ResponseInv'
  <1> USE DEF IInv
  <1>0. /\ UNCHANGED <<resultChan, closed, response, answered>>
        /\ stage[p][c] \notin {"idle", "found", "returned"} /\ stage'[p][c] \notin {"idle", "returned"}
        /\ \A d \in Checkers \ {c} : stage'[p][d] = stage[p][d] /\ result'[p][d] = result[p][d]
    BY OthersStay
  <1>1. ResponseOK(p)
    BY DEF ResponseInv
  <1>2. ASSUME p \in StartupProbes
        PROVE  StartupOK(p)'
    <2>1. p \notin closed /\ p \notin answered
      BY <1>0, <1>1, <1>2 DEF ResponseOK, StartupOK
    <2>2. ASSUME NEW d \in Checkers, stage'[p][d] = "returned",
                 result'[p][d].status \in {"starting", "error"}
          PROVE  InChannel(p, d)' \/ (response'[p].status # "ok" /\ ~response'[p].allOK)
      <3>1. d # c
        BY <1>0, <2>2
      <3> QED BY <1>0, <1>1, <1>2, <2>2, <3>1 DEF ResponseOK, StartupOK, InChannel
    <2> QED BY <1>0, <2>1, <2>2 DEF StartupOK
  <1>3. ASSUME p \in ReadinessProbes
        PROVE  ReadinessOK(p)'
    <2>1. c = "readiness"
      BY <1>0, <1>1, <1>3 DEF ResponseOK, ReadinessOK
    <2>2. p \notin answered
      BY <1>0, <1>1, <1>3, <2>1 DEF ResponseOK, ReadinessOK
    <2> QED BY <1>0, <1>1, <1>3, <2>1, <2>2 DEF ResponseOK, ReadinessOK
  <1>4. ASSUME NEW q \in Probes \ {p}
        PROVE  ResponseOK(q)'
    BY <1>0, <1>4, OthersStay, ResponseLasts
  <1> QED BY <1>2, <1>3, <1>4 DEF ResponseInv, ResponseOK

\* A hit: what the cache had was seen, and is as fresh as its entry had to be.
LEMMA HitKeeps ==
    ASSUME IInv, NEW p \in Probes, NEW c \in Checkers, Lookup(p, c), now < cache[c].expiresAt
    PROVE  IInv'
  <1> USE DEF IInv
  <1>0. [Next]_vars /\ cache' = cache /\ stage[p][c] = "lookup"
    BY DEF Next, ProbeStep, Lookup
  <1>1. now \in Nat /\ now \in Time /\ now <= now /\ askedAt[p] <= now
    BY <1>0, Constants DEF TypeOK, ResultInv, ResultOK
  <1>2. cache[c] # NoEntry
    BY <1>1 DEF NoEntry
  <1>3. /\ cache[c] \in Entry /\ Seen(c, cache[c].status, cache[c].readAt)
        /\ \/ Unbounded(c, cache[c].status)
           \/ cache[c].expiresAt <= cache[c].readAt + CheckTimeout + CacheDuration
    BY <1>2 DEF CacheInv
  <1>4. /\ result' = [result EXCEPT ![p][c] = [status |-> cache[c].status,
                          readAt |-> cache[c].readAt, lookedAt |-> now]]
        /\ stage' = [stage EXCEPT ![p][c] = "found"]
    BY DEF Lookup, Found
  <1>5. /\ result'[p][c].status = cache[c].status /\ result'[p][c].readAt = cache[c].readAt
        /\ result'[p][c].lookedAt = now /\ stage'[p][c] = "found"
        /\ result' \in [Probes -> [Checkers -> Result]]
    BY <1>1, <1>3, <1>4 DEF TypeOK, Result, Entry
  <1>6. /\ cache[c].status \in Status /\ cache[c].readAt \in Nat /\ cache[c].expiresAt \in Nat
    BY <1>3, Constants DEF Entry
  <1>8. TypeOK'
    BY <1>0, <1>5, OthersStay DEF TypeOK, flags
  <1>9. ResultOK(p, c)'
    <2>1. Fresh(p, c)'
      BY <1>1, <1>3, <1>5, <1>6, Constants DEF Fresh
    <2>2. Seen(c, result[p][c].status, result[p][c].readAt)'
      BY <1>3, <1>5, OthersStay DEF Seen, flags
    <2> QED BY <1>1, <1>5, <2>1, <2>2, OthersStay DEF ResultOK
  <1>10. ResultInv'
    <2> SUFFICES ASSUME NEW q \in Probes, NEW d \in Checkers, q # p \/ d # c
                 PROVE  ResultOK(q, d)'
      BY <1>9 DEF ResultInv
    <2> QED BY <1>0, OthersStay, ResultLasts
  <1>11. ResponseInv'
    BY MoveKeepsResponses
  <1>12. CacheInv' /\ FlagsInv'
    BY <1>0, CacheLasts, FlagsKept, OthersStay
  <1> QED BY <1>8, <1>10, <1>11, <1>12

\* The other steps of a check: it misses the cache, it looks, it caches.
LEMMA MissKeeps ==
    ASSUME IInv, NEW p \in Probes, NEW c \in Checkers, Lookup(p, c), ~(now < cache[c].expiresAt)
    PROVE  IInv'
  <1> USE DEF IInv
  <1>0. [Next]_vars /\ cache' = cache /\ stage[p][c] = "lookup"
    BY DEF Next, ProbeStep, Lookup
  <1>1. now \in Nat /\ now \in Time /\ now <= now /\ askedAt[p] <= now
    BY <1>0, Constants DEF TypeOK, ResultInv, ResultOK
  <1>2. /\ result' = [result EXCEPT ![p][c].lookedAt = now]
        /\ stage' = [stage EXCEPT ![p][c] = "check"]
    BY DEF Lookup, Missed
  <1>3. /\ result'[p][c].lookedAt = now /\ stage'[p][c] = "check"
        /\ result' \in [Probes -> [Checkers -> Result]]
    <2>1. result[p][c] \in Result
      BY DEF TypeOK
    <2>2. [result[p][c] EXCEPT !.lookedAt = now] \in Result
      BY <1>1, <2>1 DEF Result
    <2>3. result' \in [Probes -> [Checkers -> Result]]
      BY <1>2, <2>2 DEF TypeOK
    <2>4. result'[p][c].lookedAt = now /\ stage'[p][c] = "check"
      BY <1>2, <2>1 DEF TypeOK, Result
    <2> QED BY <2>3, <2>4
  <1>4. TypeOK'
    BY <1>0, <1>3, OthersStay DEF TypeOK, flags
  <1>5. ResultOK(p, c)'
    BY <1>1, <1>3, OthersStay DEF ResultOK
  <1>6. ResultInv'
    <2> SUFFICES ASSUME NEW q \in Probes, NEW d \in Checkers, q # p \/ d # c
                 PROVE  ResultOK(q, d)'
      BY <1>5 DEF ResultInv
    <2> QED BY <1>0, OthersStay, ResultLasts
  <1>7. ResponseInv'
    BY MoveKeepsResponses
  <1>8. CacheInv' /\ FlagsInv'
    BY <1>0, CacheLasts, FlagsKept, OthersStay
  <1> QED BY <1>4, <1>6, <1>7, <1>8

LEMMA CheckKeeps ==
    ASSUME IInv, NEW p \in Probes, NEW c \in Checkers, Check(p, c)
    PROVE  IInv'
  <1> USE DEF IInv
  <1>0. [Next]_vars /\ cache' = cache /\ stage[p][c] = "check"
    BY DEF Next, ProbeStep, Check
  <1>1. /\ now \in Nat /\ now \in Time /\ now <= now /\ now <= now + CheckTimeout
        /\ askedAt[p] <= result[p][c].lookedAt /\ result[p][c].lookedAt <= now
    BY <1>0, Constants DEF TypeOK, ResultInv, ResultOK
  <1>2. PICK s : s = LiveStatus(c) /\ Seen(c, s, now)
    BY LiveSeen
  <1>3. /\ result' = [result EXCEPT ![p][c] = [@ EXCEPT !.status = s, !.readAt = now]]
        /\ stage' = [stage EXCEPT ![p][c] = "cache"]
    BY <1>2 DEF Check
  <1>4. s \in Status
    BY <1>2 DEF Seen
  <1>5. /\ result'[p][c].status = s /\ result'[p][c].readAt = now
        /\ result'[p][c].lookedAt = result[p][c].lookedAt /\ stage'[p][c] = "cache"
        /\ result' \in [Probes -> [Checkers -> Result]]
    <2>1. result[p][c] \in Result
      BY DEF TypeOK
    <2>2. [result[p][c] EXCEPT !.status = s, !.readAt = now] \in Result
      BY <1>1, <1>4, <2>1 DEF Result
    <2>3. result' \in [Probes -> [Checkers -> Result]]
      BY <1>3, <2>2 DEF TypeOK
    <2>4. /\ result'[p][c].status = s /\ result'[p][c].readAt = now
          /\ result'[p][c].lookedAt = result[p][c].lookedAt
      BY <1>3, <2>1 DEF TypeOK, Result
    <2>5. stage'[p][c] = "cache"
      BY <1>3 DEF TypeOK
    <2> QED BY <2>3, <2>4, <2>5
  <1>6. TypeOK'
    BY <1>0, <1>5, OthersStay DEF TypeOK, flags
  <1>7. ResultOK(p, c)'
    <2>1. Seen(c, result[p][c].status, result[p][c].readAt)'
      BY <1>2, <1>5, OthersStay DEF Seen, flags
    <2> QED BY <1>1, <1>5, <2>1, OthersStay DEF ResultOK
  <1>8. ResultInv'
    <2> SUFFICES ASSUME NEW q \in Probes, NEW d \in Checkers, q # p \/ d # c
                 PROVE  ResultOK(q, d)'
      BY <1>7 DEF ResultInv
    <2> QED BY <1>0, OthersStay, ResultLasts
  <1>9. ResponseInv'
    BY MoveKeepsResponses
  <1>10. CacheInv' /\ FlagsInv'
    BY <1>0, CacheLasts, FlagsKept, OthersStay
  <1> QED BY <1>6, <1>8, <1>9, <1>10

\* The entry may be as old as the check was slow, and lives a cache duration from now.
LEMMA CacheResultKeeps ==
    ASSUME IInv, NEW p \in Probes, NEW c \in Checkers, CacheResult(p, c)
    PROVE  IInv'
  <1> USE DEF IInv
  <1> DEFINE new == [status |-> result[p][c].status, readAt |-> result[p][c].readAt,
                     expiresAt |-> now + CacheDuration]
  <1>0. [Next]_vars /\ stage[p][c] = "cache" /\ result' = result
    BY DEF Next, ProbeStep, CacheResult
  <1>1. /\ cache' = [cache EXCEPT ![c] = new] /\ stage' = [stage EXCEPT ![p][c] = "found"]
    BY DEF CacheResult
  <1>2. ResultOK(p, c)
    BY DEF ResultInv
  <1>3. /\ now \in Nat /\ result[p][c].readAt \in Nat /\ result[p][c].readAt \in Time
        /\ result[p][c].lookedAt \in Nat /\ result[p][c].status \in Status
    BY <1>0, <1>2, Constants DEF TypeOK, Result, ResultOK, Seen
  <1>4. new \in Entry
    BY <1>3, Constants DEF Entry
  <1>6. TypeOK'
    <2>1. cache' \in [Checkers -> Entry \cup {NoEntry}]
      BY <1>1, <1>4 DEF TypeOK
    <2> QED BY <1>0, <2>1, OthersStay DEF TypeOK, flags
  <1>7. ResultOK(p, c)'
    <2>1. stage'[p][c] = "found"
      BY <1>1 DEF TypeOK
    <2>2. Fresh(p, c)'
      BY <1>0, <1>2 DEF Fresh, ResultOK
    <2>3. Seen(c, result[p][c].status, result[p][c].readAt)'
      BY <1>0, <1>2, OthersStay DEF Seen, flags, ResultOK
    <2> QED BY <1>0, <1>2, <2>1, <2>2, <2>3, OthersStay DEF ResultOK
  <1>8. ResultInv'
    <2> SUFFICES ASSUME NEW q \in Probes, NEW d \in Checkers, q # p \/ d # c
                 PROVE  ResultOK(q, d)'
      BY <1>7 DEF ResultInv
    <2> QED BY <1>0, OthersStay, ResultLasts
  <1>9. ResponseInv'
    BY MoveKeepsResponses
  <1>10. CacheInv'
    <2> SUFFICES ASSUME NEW d \in Checkers, cache'[d] # NoEntry
                 PROVE  /\ cache'[d] \in Entry /\ Seen(d, cache[d].status, cache[d].readAt)'
                        /\ \/ Unbounded(d, cache'[d].status)
                           \/ cache'[d].expiresAt <= cache'[d].readAt + CheckTimeout + CacheDuration
      BY DEF CacheInv, Unbounded
    <2>1. CASE d = c
      <3>1. cache'[d] = new
        BY <1>1, <2>1 DEF TypeOK
      <3>2. Seen(c, result[p][c].status, result[p][c].readAt)
        BY <1>0, <1>2 DEF ResultOK
      <3>3. Seen(d, cache[d].status, cache[d].readAt)'
        BY <2>1, <3>1, <3>2, OthersStay DEF Seen, flags
      <3>4. \/ Unbounded(c, result[p][c].status)
            \/ now + CacheDuration <= result[p][c].readAt + CheckTimeout + CacheDuration
        BY <1>0, <1>2, <1>3, Constants DEF ResultOK
      <3> QED BY <1>4, <2>1, <3>1, <3>3, <3>4
    <2>2. CASE d # c
      <3>1. cache'[d] = cache[d]
        BY <1>1, <2>2 DEF TypeOK
      <3> QED BY <1>0, <3>1, EntryLasts
    <2> QED BY <2>1, <2>2
  <1>11. FlagsInv'
    BY FlagsKept, OthersStay
  <1> QED BY <1>6, <1>8, <1>9, <1>10, <1>11

(* The steps of the channel and of the answer. *)

Delivery(p) ==
    \/ \E c \in Checkers : Send(p, c)
    \/ Close(p) \/ Receive(p) \/ AnswerStartup(p) \/ AnswerReadiness(p)

\* They are about the probe alone: results and cache are what they were.
LEMMA DeliveryKeeps ==
    ASSUME IInv, NEW p \in Probes, Delivery(p),
           resultChan' \in [Probes -> Seq(Checkers)],
           response' \in [Probes -> [status : Status, allOK : BOOLEAN]],
           ResponseOK(p)'
    PROVE  IInv'
  <1> USE DEF IInv
  <1>0. [Next]_vars
    BY DEF Next, ProbeStep, Delivery
  <1>1. UNCHANGED <<now, flags, cache, result, askedAt>>
    BY DEF Delivery, Send, Close, Receive, AnswerStartup, AnswerReadiness, channel
  <1>2. /\ \A c \in Checkers : \/ stage'[p][c] = stage[p][c]
                               \/ stage[p][c] = "found" /\ stage'[p][c] = "returned"
        /\ \A q \in Probes \ {p} : stage'[q] = stage[q]
        /\ stage' \in [Probes -> [Checkers -> Stages]]
    <2>1. CASE stage' = stage
      BY <2>1 DEF TypeOK
    <2>2. ASSUME NEW c \in Checkers, Send(p, c)
          PROVE  <1>2!:
      BY <2>2 DEF Send, TypeOK, Stages
    <2> QED BY <2>1, <2>2 DEF Delivery, Close, Receive, AnswerStartup, AnswerReadiness
  <1>3. \A q \in Probes \ {p} : /\ response'[q] = response[q] /\ resultChan'[q] = resultChan[q]
                                /\ (q \in closed' <=> q \in closed) /\ (q \in answered' <=> q \in answered)
    BY DEF Delivery, Send, Close, Receive, AnswerStartup, AnswerReadiness, channel, TypeOK
  <1>4. closed' \subseteq Probes /\ answered' \subseteq Probes
    BY DEF Delivery, Send, Close, Receive, AnswerStartup, AnswerReadiness, channel, TypeOK
  <1>5. TypeOK'
    BY <1>1, <1>2, <1>4 DEF TypeOK, flags
  <1>6. CacheInv' /\ FlagsInv'
    BY <1>0, <1>1, CacheLasts, FlagsKept
  <1>7. ResultInv'
    <2> SUFFICES ASSUME NEW q \in Probes, NEW c \in Checkers
                 PROVE  ResultOK(q, c)'
      BY DEF ResultInv
    <2>1. stage'[q][c] = stage[q][c] \/ (stage[q][c] = "found" /\ stage'[q][c] = "returned")
      BY <1>2
    <2> QED BY <1>0, <1>1, <2>1, ResultLasts
  <1>8. ResponseInv'
    <2>1. ASSUME NEW q \in Probes \ {p}
          PROVE  ResponseOK(q)'
      BY <1>1, <1>2, <1>3, <2>1, ResponseLasts
    <2> QED BY <2>1 DEF ResponseInv
  <1> QED BY <1>5, <1>6, <1>7, <1>8

\* What was in the channel stays in it, and what is sent comes to it.
LEMMA SendKeeps ==
    ASSUME IInv, NEW p \in Probes, NEW c \in Checkers, Send(p, c)
    PROVE  IInv'
  <1> USE DEF IInv
  <1>0. /\ UNCHANGED <<result, closed, response, answered>>
        /\ p \in StartupProbes /\ p \notin ReadinessProbes /\ stage[p][c] = "found"
        /\ resultChan' = [resultChan EXCEPT ![p] = Append(@, c)]
    BY Constants DEF Send
  <1>1. StartupOK(p)
    BY <1>0 DEF ResponseInv, ResponseOK
  <1>2. p \notin closed /\ p \notin answered
    BY <1>0, <1>1 DEF StartupOK
  <1>3. \A d \in Checkers \ {c} : stage'[p][d] = stage[p][d]
    BY DEF Send, TypeOK
  <1>4. resultChan[p] \in Seq(Checkers) /\ resultChan'[p] = Append(resultChan[p], c)
        /\ resultChan' \in [Probes -> Seq(Checkers)]
    BY <1>0 DEF TypeOK
  <1>5. InChannel(p, c)' /\ \A d \in Checkers : InChannel(p, d) => InChannel(p, d)'
    BY <1>4 DEF InChannel
  <1>6. StartupOK(p)'
    BY <1>0, <1>1, <1>2, <1>3, <1>5 DEF StartupOK
  <1>7. ResponseOK(p)'
    BY <1>0, <1>6 DEF ResponseOK
  <1> QED BY <1>0, <1>4, <1>7, DeliveryKeeps DEF Delivery, TypeOK

LEMMA CloseKeeps ==
    ASSUME IInv, NEW p \in Probes, Close(p)
    PROVE  IInv'
  <1> USE DEF IInv
  <1>0. /\ UNCHANGED <<stage, result, resultChan, response, answered>>
        /\ p \in StartupProbes /\ p \notin ReadinessProbes
        /\ closed' = closed \cup {p} /\ \A d \in Checkers : stage[p][d] = "returned"
    BY Constants DEF Close
  <1>1. StartupOK(p)
    BY <1>0 DEF ResponseInv, ResponseOK
  <1>2. ResponseOK(p)'
    BY <1>0, <1>1 DEF ResponseOK, StartupOK, InChannel
  <1> QED BY <1>0, <1>2, DeliveryKeeps DEF Delivery, TypeOK

\* A failure that is received shows in the response, and the later ones do not hide it.
LEMMA ReceiveKeeps ==
    ASSUME IInv, NEW p \in Probes, Receive(p)
    PROVE  IInv'
  <1> USE DEF IInv
  <1> DEFINE c == Head(resultChan[p])
             s == result[p][c].status
  <1>0. /\ UNCHANGED <<stage, result, closed, answered>> /\ resultChan[p] # <<>>
        /\ resultChan' = [resultChan EXCEPT ![p] = Tail(@)]
        /\ response' = [response EXCEPT ![p] = WithResult(@, s)]
    BY DEF Receive
  <1>1. resultChan[p] \in Seq(Checkers) /\ resultChan'[p] = Tail(resultChan[p])
        /\ resultChan' \in [Probes -> Seq(Checkers)]
    BY <1>0 DEF TypeOK
  <1>2. /\ response'[p].status = IF s \in {"starting", "error"} THEN s ELSE response[p].status
        /\ response'[p].allOK <=> (response[p].allOK /\ s = "ok")
        /\ response' \in [Probes -> [status : Status, allOK : BOOLEAN]]
    BY <1>0 DEF TypeOK, WithResult, Status
  <1>3. p \in StartupProbes /\ p \notin ReadinessProbes
    BY <1>0, Constants DEF ResponseInv, ResponseOK, ReadinessOK
  <1>4. StartupOK(p)
    BY <1>3 DEF ResponseInv, ResponseOK
  <1>5. ASSUME NEW d \in Checkers, InChannel(p, d), d # c
        PROVE  InChannel(p, d)'
    <2>1. PICK i \in 1..Len(resultChan[p]) : resultChan[p][i] = d
      BY <1>5 DEF InChannel
    <2>2. i # 1
      BY <1>0, <1>1, <1>5, <2>1
    <2>3. i - 1 \in 1..Len(resultChan'[p]) /\ resultChan'[p][i - 1] = d
      BY <1>0, <1>1, <2>1, <2>2
    <2> QED BY <2>3 DEF InChannel
  <1>6. ASSUME NEW d \in Checkers, stage[p][d] = "returned", result[p][d].status \in {"starting", "error"}
        PROVE  InChannel(p, d)' \/ (response'[p].status # "ok" /\ ~response'[p].allOK)
    <2>1. CASE d = c
      BY <1>2, <1>6, <2>1
    <2>2. CASE d # c /\ InChannel(p, d)
      BY <1>5, <2>2
    <2>3. CASE response[p].status # "ok" /\ ~response[p].allOK
      BY <1>2, <2>3
    <2> QED BY <1>4, <1>6, <2>1, <2>2, <2>3 DEF StartupOK
  <1>7. p \notin answered
    BY <1>0, <1>4 DEF StartupOK
  <1>8. ResponseOK(p)'
    BY <1>0, <1>3, <1>4, <1>6, <1>7 DEF ResponseOK, StartupOK
  <1> QED BY <1>1, <1>2, <1>8, DeliveryKeeps DEF Delivery

\* The answer of a startup probe is "ok" when every result was, and then only.
LEMMA AnswerStartupKeeps ==
    ASSUME IInv, NEW p \in Probes, AnswerStartup(p)
    PROVE  IInv'
  <1> USE DEF IInv
  <1>0. /\ UNCHANGED <<stage, result, resultChan, closed>> /\ p \in closed /\ resultChan[p] = <<>>
        /\ p \in StartupProbes /\ p \notin ReadinessProbes
        /\ response' = [response EXCEPT ![p].status = IF response[p].allOK THEN "ok" ELSE @]
    BY Constants DEF AnswerStartup, channel
  <1>1. /\ response'[p].status = IF response[p].allOK THEN "ok" ELSE response[p].status
        /\ response'[p].allOK = response[p].allOK
        /\ response' \in [Probes -> [status : Status, allOK : BOOLEAN]]
    BY <1>0 DEF TypeOK, Status
  <1>2. StartupOK(p)
    BY <1>0 DEF ResponseInv, ResponseOK
  <1>3. ResponseOK(p)'
    BY <1>0, <1>1, <1>2 DEF ResponseOK, StartupOK, InChannel
  <1> QED BY <1>0, <1>1, <1>3, DeliveryKeeps DEF Delivery, TypeOK

LEMMA AnswerReadinessKeeps ==
    ASSUME IInv, NEW p \in Probes, AnswerReadiness(p)
    PROVE  IInv'
  <1> USE DEF IInv
  <1> DEFINE s == result[p]["readiness"].status
  <1>0. /\ UNCHANGED <<stage, result, resultChan, closed>> /\ stage[p]["readiness"] = "found"
        /\ p \in ReadinessProbes /\ p \notin StartupProbes /\ "readiness" \in Checkers
        /\ response' = [response EXCEPT ![p] = [status |-> s, allOK |-> s = "ok"]]
    BY Constants DEF AnswerReadiness, channel
  <1>1. ResultOK(p, "readiness")
    BY <1>0 DEF ResultInv
  <1>2. s \in Status
    BY <1>0, <1>1 DEF ResultOK, Seen
  <1>3. response'[p].status = s /\ response' \in [Probes -> [status : Status, allOK : BOOLEAN]]
    BY <1>0, <1>2 DEF TypeOK
  <1>4. ResponseOK(p)'
    BY <1>0, <1>3 DEF ResponseOK, ReadinessOK, ResponseInv
  <1> QED BY <1>0, <1>3, <1>4, DeliveryKeeps DEF Delivery, TypeOK

-----------------------------------------------------------------------------

\* The inductive invariant holds in every state.
THEOREM Invariance == Spec => []IInv
  <1>1. ASSUME IInv, UNCHANGED vars
        PROVE  IInv'
    <2>0. [Next]_vars /\ UNCHANGED <<now, flags, cache, probes>>
      BY <1>1 DEF vars, flags, probes, channel
    <2>1. TypeOK'
      BY <1>1 DEF IInv, TypeOK, vars
    <2>2. FlagsInv' /\ CacheInv'
      BY <1>1, <2>0, FlagsKept, CacheLasts
    <2>3. ResultInv'
      BY <1>1, <2>0, ResultLasts DEF ResultInv, probes
    <2>4. ResponseInv'
      BY <1>1, <2>0, ResponseLasts DEF ResponseInv, probes, channel
    <2> QED BY <2>1, <2>2, <2>3, <2>4 DEF IInv
  <1>2. ASSUME IInv, Next
        PROVE  IInv'
    <2>1. ASSUME NEW p \in Probes, ProbeStep(p)
          PROVE  IInv'
      <3>1. ASSUME NEW c \in Checkers, Lookup(p, c)
            PROVE  IInv'
        BY <1>2, <3>1, HitKeeps, MissKeeps
      <3> QED BY <1>2, <2>1, <3>1, CheckKeeps, CacheResultKeeps, SendKeeps, CloseKeeps, ReceiveKeeps,
                 AnswerStartupKeeps, AnswerReadinessKeeps DEF ProbeStep
    <2> QED BY <1>2, <2>1, EnvironmentKeeps, BeginKeeps DEF Next
  <1>3. IInv /\ [Next]_vars => IInv'
    BY <1>1, <1>2
  <1> QED BY InitInv, <1>3, PTL DEF Spec

\* Every variable keeps its type: no result reaches the cache or a response that a
\* checker cannot return.
THEOREM TypeCorrect == Spec => []TypeOK
  <1> QED BY Invariance, PTL DEF IInv

\* Results age at most a cache duration and a check timeout before their last use.
THEOREM Freshness == Spec => []ResultsAreFresh
  <1>1. IInv => ResultsAreFresh
    BY DEF IInv, ResultInv, ResultOK, Fresh, ResultsAreFresh
  <1> QED BY Invariance, <1>1, PTL

\* A readiness probe that comes in a cache duration and a check timeout after the
\* shutdown began is not told that the service is ready.
THEOREM ShutdownIsNoticed == Spec => []NotReadySoonAfterShutdown
  <1>1. IInv => NotReadySoonAfterShutdown
    <2> SUFFICES ASSUME IInv, NEW p \in ReadinessProbes, p \in answered,
                        readiness.shuttingDown, response[p].status = "ok"
                 PROVE  \/ askedAt[p] <= shutdownAt
                        \/ askedAt[p] < shutdownAt + CacheDuration + CheckTimeout
      BY DEF NotReadySoonAfterShutdown
    <2> USE DEF IInv
    <2> DEFINE res == result[p]["readiness"]
    <2>1. p \in Probes /\ "readiness" \in Checkers /\ "readiness" \in ChecksOf(p)
      BY Constants DEF Probes
    <2>2. stage[p]["readiness"] = "found" /\ res.status = "ok"
      BY <2>1 DEF ResponseInv, ResponseOK, ReadinessOK
    <2>3. res.readAt <= shutdownAt /\ askedAt[p] <= res.lookedAt
      BY <2>1, <2>2 DEF ResultInv, ResultOK, Seen
    <2>4. res.lookedAt <= res.readAt \/ res.lookedAt < res.readAt + CacheDuration + CheckTimeout
      BY <2>1, <2>2 DEF ResultInv, ResultOK, Fresh, Unbounded
    <2>5. /\ askedAt[p] \in Nat /\ shutdownAt \in Nat /\ res.lookedAt \in Nat /\ res.readAt \in Nat
          /\ CacheDuration \in Nat /\ CheckTimeout \in Nat
      <3>1. res \in Result
        BY <2>1 DEF TypeOK
      <3> QED BY <2>1, <3>1, Constants DEF TypeOK, Result
    <2> HIDE DEF res
    <2> QED BY <2>3, <2>4, <2>5
  <1> QED BY Invariance, <1>1, PTL

\* No startup probe that met a starting or failed check is answered with "ok".
THEOREM FailuresShow == Spec => []StartupSeesFailures
  <1>1. IInv => StartupSeesFailures
    <2> SUFFICES ASSUME IInv, NEW p \in StartupProbes, p \in answered, NEW c \in Checkers,
                        result[p][c].status \in {"starting", "error"}
                 PROVE  response[p].status # "ok"
      BY DEF StartupSeesFailures
    <2>1. StartupOK(p)
      BY Constants DEF IInv, ResponseInv, ResponseOK
    <2>2. stage[p][c] = "returned" /\ resultChan[p] = <<>>
      BY <2>1 DEF StartupOK
    <2>3. ~InChannel(p, c)
      BY <2>2 DEF InChannel
    <2> QED BY <2>1, <2>2, <2>3 DEF StartupOK
  <1> QED BY Invariance, <1>1, PTL

\* Nobody is told that the service is up before its servers run.
THEOREM NoEarlyReady == Spec => []ReadyOnlyWhenRunning
  <1>1. IInv => ReadyOnlyWhenRunning
    <2> SUFFICES ASSUME IInv, NEW p \in answered, response[p].status = "ok"
                 PROVE  serversRunning
      BY DEF ReadyOnlyWhenRunning
    <2> USE DEF IInv
    <2>0. p \in Probes /\ ResponseOK(p)
      BY DEF TypeOK, ResponseInv
    <2>1. CASE p \in StartupProbes
      <3>1. StartupOK(p) /\ stage[p]["servers"] = "returned" /\ resultChan[p] = <<>>
        BY <2>0, <2>1, Constants DEF ResponseOK, StartupOK
      <3>2. ~InChannel(p, "servers")
        BY <3>1 DEF InChannel
      <3>3. result[p]["servers"].status \notin {"starting", "error"}
        BY <3>1, <3>2, Constants DEF StartupOK
      <3> QED BY <2>0, <3>1, <3>3, Constants DEF ResultInv, ResultOK, Seen
    <2>2. CASE p \in ReadinessProbes
      <3>1. stage[p]["readiness"] = "found" /\ result[p]["readiness"].status = "ok"
        BY <2>0, <2>2 DEF ResponseOK, ReadinessOK
      <3> QED BY <2>0, <3>1, Constants DEF ResultInv, ResultOK, Seen
    <2> QED BY <2>0, <2>1, <2>2 DEF Probes
  <1> QED BY Invariance, <1>1, PTL
-----------------------------------------------------------------------------
(* Progress, but for the fairness of the scheduler. *)

Begun(p) == \E c \in Checkers : stage[p][c] # "idle"

\* How many steps a check has left.
StepsLeft(point) == [lookup |-> 4, check |-> 3, cache |-> 2, found |-> 1, returned |-> 0][point]

Moves == {<<"lookup", "check">>, <<"lookup", "found">>, <<"check", "cache">>, <<"cache", "found">>,
          <<"found", "returned">>}

\* The steps of Next, as far as the stages of the probes are concerned.
LEMMA StageStep ==
    ASSUME IInv, [Next]_vars, NEW p \in Probes
    PROVE  \/ stage'[p] = stage[p]
           \/ ~Begun(p) /\ (\A c \in ChecksOf(p) : stage'[p][c] # "idle")
           \/ \E c \in Checkers : /\ <<stage[p][c], stage'[p][c]>> \in Moves
                                  /\ \A d \in Checkers \ {c} : stage'[p][d] = stage[p][d]
  <1> USE DEF IInv
  <1>1. ASSUME NEW q \in Probes, NEW c \in Checkers,
               Lookup(q, c) \/ Check(q, c) \/ CacheResult(q, c) \/ Send(q, c)
        PROVE  \/ stage'[p] = stage[p]
               \/ /\ <<stage[p][c], stage'[p][c]>> \in Moves
                  /\ \A d \in Checkers \ {c} : stage'[p][d] = stage[p][d]
    <2>1. PICK s \in Stages : stage' = [stage EXCEPT ![q][c] = s] /\ <<stage[q][c], s>> \in Moves
      BY <1>1 DEF Lookup, Found, Missed, Check, CacheResult, Send, Moves, Stages
    <2>2. CASE q # p
      BY <2>1, <2>2 DEF TypeOK
    <2>3. CASE q = p
      BY <2>1, <2>3 DEF TypeOK
    <2> QED BY <2>2, <2>3
  <1>2. ASSUME NEW q \in Probes, Close(q) \/ Receive(q) \/ AnswerStartup(q) \/ AnswerReadiness(q)
        PROVE  stage' = stage
    BY <1>2 DEF Close, Receive, AnswerStartup, AnswerReadiness
  <1>3. ASSUME NEW q \in Probes, Begin(q)
        PROVE  \/ stage'[p] = stage[p]
               \/ ~Begun(p) /\ (\A c \in ChecksOf(p) : stage'[p][c] # "idle")
    <2>1. CASE q # p
      BY <1>3, <2>1 DEF Begin, TypeOK
    <2>2. CASE q = p
      <3>1. \A c \in ChecksOf(p) : stage'[p][c] = "lookup"
        BY <1>3, <2>2, Constants DEF Begin, TypeOK
      <3> QED BY <1>3, <2>2, <3>1 DEF Begin, Begun
    <2> QED BY <2>1, <2>2
  <1>4. ASSUME \/ SetServersRunning \/ SetReadinessRunning \/ SetShuttingDown \/ Tick
               \/ \E c \in StoreCheckers : StoreChanges(c)
               \/ UNCHANGED vars
        PROVE  stage' = stage
    BY <1>4 DEF SetServersRunning, SetReadinessRunning, SetShuttingDown, Tick, StoreChanges, vars, probes
  <1> QED BY <1>1, <1>2, <1>3, <1>4 DEF Next, ProbeStep

\* A check never goes back, whatever the other probes do to the cache (runCheck,
\* manager.go:99-121).
THEOREM ChecksAdvance ==
    Spec => [][\A p \in Probes : Begun(p) =>
                 \A c \in Checkers :
                    stage'[p][c] # stage[p][c] => StepsLeft(stage'[p][c]) < StepsLeft(stage[p][c])]_vars
  <1>1. IInv /\ [Next]_vars =>
          [\A p \in Probes : Begun(p) =>
              \A c \in Checkers :
                 stage'[p][c] # stage[p][c] => StepsLeft(stage'[p][c]) < StepsLeft(stage[p][c])]_vars
    <2> SUFFICES ASSUME IInv, Next, NEW p \in Probes, Begun(p), NEW c \in Checkers,
                        stage'[p][c] # stage[p][c]
                 PROVE  StepsLeft(stage'[p][c]) < StepsLeft(stage[p][c])
      BY Zenon
    <2>1. <<stage[p][c], stage'[p][c]>> \in Moves
      BY StageStep
    <2> QED BY <2>1 DEF StepsLeft, Moves
  <1> QED BY <1>1, Invariance, PTL DEF Spec

\* Those who send, who closes and who receives never all wait for each other: of a probe
\* that came in and has no answer, some goroutine can go on, a sender because there is
\* room in the channel, the one that closes because every sender has returned, the one
\* that receives because there is a result or the end of the channel (CheckAll,
\* manager.go:70-98; each disjunct is the guard of the action it names).
NoProbeStuck ==
    \A p \in Probes : Begun(p) /\ p \notin answered =>
        \/ \E c \in Checkers :
               \/ stage[p][c] \in {"lookup", "check", "cache"}   \* Lookup, Check, CacheResult
               \/ /\ p \in StartupProbes /\ stage[p][c] = "found"
                  /\ Len(resultChan[p]) < Cardinality(Checkers)  \* Send
        \/ /\ p \in StartupProbes /\ p \notin closed
           /\ \A c \in Checkers : stage[p][c] = "returned"       \* Close
        \/ resultChan[p] # <<>>                                  \* Receive
        \/ p \in StartupProbes \cap closed                       \* AnswerStartup
        \/ p \in ReadinessProbes /\ stage[p]["readiness"] = "found"  \* AnswerReadiness

AllBegun == \A p \in Probes : Begun(p) => \A c \in ChecksOf(p) : stage[p][c] # "idle"

\* There is room in the channel for a result at least.
LEMMA ChannelHasRoom == Cardinality(Checkers) \in Nat /\ Cardinality(Checkers) > 0
  <1> DEFINE Names == {"servers", "readiness", "olric-connection", "olric-cluster", "olric-storage"}
  <1>1. IsFiniteSet({}) /\ \A S, x : IsFiniteSet(S) => IsFiniteSet(S \cup {x})
    BY FS_EmptySet, FS_AddElement
  <1>2. IsFiniteSet(((((({} \cup {"servers"}) \cup {"readiness"}) \cup {"olric-connection"})
                      \cup {"olric-cluster"}) \cup {"olric-storage"}))
    BY <1>1
  <1>3. IsFiniteSet(Names)
    <2>1. Names = ((((({} \cup {"servers"}) \cup {"readiness"}) \cup {"olric-connection"})
                      \cup {"olric-cluster"}) \cup {"olric-storage"})
      OBVIOUS
    <2> QED BY <1>2, <2>1
  <1>4. Checkers \subseteq Names /\ Checkers # {}
    BY CheckersAssumption
  <1>5. IsFiniteSet(Checkers)
    BY <1>3, <1>4, FS_Subset
  <1>6. Cardinality(Checkers) \in Nat /\ Cardinality(Checkers) # 0
    BY <1>4, <1>5, FS_CardinalityType, FS_EmptySet
  <1> QED BY <1>6

THEOREM NoProbeIsStuck == Spec => []NoProbeStuck
  <1>1. Init => AllBegun
    BY DEF Init, AllBegun, Begun
  <1>2. IInv /\ AllBegun /\ [Next]_vars => AllBegun'
    <2> SUFFICES ASSUME IInv, AllBegun, [Next]_vars, NEW p \in Probes, Begun(p)', NEW c \in ChecksOf(p)
                 PROVE  stage'[p][c] # "idle"
      BY DEF AllBegun, ChecksOf
    <2>1. c \in Checkers
      BY Constants
    <2>2. CASE stage'[p] = stage[p]
      BY <2>1, <2>2 DEF AllBegun, Begun
    <2>3. CASE stage'[p] # stage[p] /\ Begun(p)
      <3>1. stage[p][c] # "idle"
        BY <2>3 DEF AllBegun
      <3>2. \E d \in Checkers : /\ <<stage[p][d], stage'[p][d]>> \in Moves
                                /\ \A e \in Checkers \ {d} : stage'[p][e] = stage[p][e]
        BY <2>3, StageStep
      <3> QED BY <2>1, <3>1, <3>2 DEF Moves
    <2>4. CASE stage'[p] # stage[p] /\ ~Begun(p)
      BY <2>4, StageStep DEF Begun, Moves
    <2> QED BY <2>2, <2>3, <2>4
  <1>3. IInv /\ AllBegun => NoProbeStuck
    <2> SUFFICES ASSUME IInv, AllBegun, NEW p \in Probes, Begun(p), p \notin answered,
                        resultChan[p] = <<>>,
                        \A c \in Checkers : stage[p][c] \notin {"lookup", "check", "cache"}
                 PROVE  \/ \E c \in Checkers : /\ p \in StartupProbes /\ stage[p][c] = "found"
                                               /\ Len(resultChan[p]) < Cardinality(Checkers)
                        \/ /\ p \in StartupProbes /\ p \notin closed
                           /\ \A c \in Checkers : stage[p][c] = "returned"
                        \/ p \in StartupProbes \cap closed
                        \/ p \in ReadinessProbes /\ stage[p]["readiness"] = "found"
      BY DEF NoProbeStuck
    <2>1. \A c \in ChecksOf(p) : stage[p][c] \in {"found", "returned"}
      BY Constants DEF AllBegun, IInv, TypeOK, Stages
    <2>2. CASE p \in StartupProbes
      <3>1. \A c \in Checkers : stage[p][c] \in {"found", "returned"}
        BY <2>1, <2>2 DEF ChecksOf
      <3>2. Len(resultChan[p]) < Cardinality(Checkers)
        BY ChannelHasRoom
      <3> QED BY <2>2, <3>1, <3>2
    <2>3. CASE p \in ReadinessProbes
      BY <2>1, <2>3, Constants DEF IInv, ResponseInv, ResponseOK, ReadinessOK
    <2> QED BY <2>2, <2>3, Constants
  <1> QED BY <1>1, <1>2, <1>3, Invariance, PTL DEF Spec
=============================================================================
