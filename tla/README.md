# Verification of the deployment lock service

The service keeps one lock per project, so that two pull request branches never
deploy the same project at once. It is a Go process with three HTTP servers and
an embedded [Olric](https://github.com/buraksezer/olric) node that stores the
locks in memory. This directory holds TLA+ modules of that process, the TLC
configurations that check them and TLAPS proofs about them. `src/` below is the
repository.

```
tlc -workers 2 -config LockServiceRaces.cfg MCLockService.tla    # one run
tlapm LockServiceProofs.tla                                      # one module of proofs
```

## Inventory

| Component | State | Operations | What is hard | What makes it correct |
|---|---|---|---|---|
| Lock API (`internal/handlers`, `internal/storage`) | none of its own | lock, unlock, get | a goroutine per request, several store calls per request, each result stale at the next | one holder per project; every answer true; every request answered |
| Store operations (`internal/store/olric.go`) | the DMap | Get, Put, Delete, PutIfAbsent, Ping, Stats | PutIfAbsent is a check and a set; a write may be applied and reported as failed | the window of the race is bounded; nobody else loses a lock |
| Store startup (`olric.go`, `NewOlricStore`) | the node, the DMap handle | start, waitForCluster, getDMap | timeouts, retry counts, late errors nobody reads | the store is returned only with quorum and a DMap; the start ends |
| Routes (`internal/server/routes.go`) | none | routing | a name with a slash is two path segments | what can be locked can be queried |
| Health manager (`internal/health`) | result cache, two flags | CheckAll, runCheck, Set* | overlapping checks overwrite each other's results; the flags change under them | a result is never used when too old; no "ready" before start or long after shutdown |
| Store checkers (`internal/store/health.go`) | a test key for a moment | Check | three calls of a store shared with the locks; late writes | the test key goes away; a failing store is reported |
| Server lifecycle (`internal/server/server.go`, `cmd/service/main.go`) | three servers, store, collector, flags | New, Start, signal, Shutdown | goroutines that start and stop concurrently, a deadline, requests in flight | order of the shutdown, no request lost by a clean exit, the process ends |
| Metrics collector (`internal/store/metrics.go`) | loop, gauges | Start, Stop, collect | Stop races with a tick; gauges that are never reset | it never reads a store that closes |
| Middleware (`internal/middleware`) | counters, gauges | around each request | a label chosen before the routing; panics; gauges set in two steps by concurrent probes | in-flight gauge returns to zero; every request counted; gauges tell the last probe |
| Configuration (`internal/config`, `internal/store/config.go`) | the values | Load, Validate | conversions and limits | what Validate accepts neither panics nor serves without its quorum |
| Metrics registry, logger, client | none | - | - | - |

How they interact: a handler calls the lock manager, the manager the store, the
store Olric, all synchronously in the goroutine of the request. Probes go to the
health manager, which runs the checkers concurrently; two of these read flags
that `Start` and `Shutdown` set, three call the store. The collector calls the
store from its own goroutine. `Shutdown` closes the API server, the metrics
server and the store from three goroutines and the probe server after them.
Nothing is persisted: a single node that restarts has no locks.

`PROJECT.json` lists the hazards, each at its line, with the properties that
would catch it going wrong.

## Modules

| Module | Models | |
|---|---|---|
| `DeploymentLock` | the promise to clients, stated by the `LockManager` and `Store` interfaces | abstract |
| `RacingLock` | the promise that is left when lock requests overlap | abstract |
| `GracefulShutdown` | the promise to Kubernetes and to accepted requests, from start to exit | abstract |
| `LockService` | handlers, lock manager and store calls of one node | core |
| `HealthManager` | probes, checks, cache, flags | component |
| `StorageHealth` | the put, get and delete of the storage check | component |
| `OlricNode` | Olric's settings, the start of the node, the cluster gauges | component |
| `HttpMetrics` | the metrics of requests and probes | component |
| `ServerLifecycle` | main, New, Start, signals, Shutdown, collector, requests in flight | component |
| `MC*` | finite constants and symmetry of the module they extend | TLC |
| `RacingLockProofs`, `LockServiceProofs`, `LockRefinementProofs`, `ServerLifecycleProofs`, `HealthManagerProofs`, `StorageHealthProofs`, `OlricNodeProofs`, `HttpMetricsProofs` | theorems | TLAPS |

`ServerLifecycle` sees the start of the node (`OlricNode`) as the two outcomes of
`New`, and `HealthManager` sees a storage check (`StorageHealth`) as a status and
a bound on its time; what each relies on is a property of the other module, named
below.

A definition commented as "Mutation" stands before the one it varies: it is what
a plausible bug would make of it, and each property is violated by one of them.
They are no part of the specification.

### LockService

State: `dmap` is Olric's DMap, `req`, `pc` and `reply` are a request, the store
call it makes next and its answer. One action per store call, since nothing else
orders two requests:

| Action | Code |
|---|---|
| `Accept`, `Reject`, `RouteMiss`, `RejectEscaped` | decoding, routing and `validateName` |
| `GetExistingLock` | `AcquireLock`: the first `GetLock` and its three outcomes |
| `PutIfAbsentCheck`, `PutIfAbsentStore` | the Get and the Put of `PutIfAbsent` |
| `RereadLock` | `AcquireLock`: the `GetLock` after a lost race |
| `ReleaseLock`, `QueryLock` | `Delete`, `Get` |
| `StoreCallFails`, `StoreCallFailsApplied` | any call fails, without or after its effect |
| `Respond` | the answer goes out |
| `Restart` | the process ends and starts empty |

Abstractions. A name is a model value, and `BadName` is every name or body that
is refused. The owner is the constant `placeholder-owner` of both handlers, so
the comparisons of owners always hold and the owner is left out. `CreatedAt` is
the request that created the lock. `seen`, `granted`, `overtaken` and `faulted`
are history: no step reads them.

One node only: what the replicas of a cluster do among themselves is Olric's (see
"Not modelled").

### DeploymentLock and RacingLock

In `DeploymentLock` `holder[p]` is the branch that holds project p and `winners[p]`
the branches that were told so since p was free. `Grant` needs a project that is
free or already the branch's. The service does not keep that promise when lock
requests overlap (run `double_grant`). What it keeps then is `RacingLock`, which
has in addition the attempts that are `racing`: they found their project free in
the Get of `PutIfAbsent` and did not Put yet. An attempt can take the project
whoever holds it; without one, a held project stays with its branch until it is
released (`SettledLockStays`).

`LockService` implements `RacingLock` always (`RacingPromiseKept`), with
`winners <- granted`, `holder` computed from `dmap`, and `racing` the requests
whose next call is that Put. It implements `DeploymentLock` (`PromiseKept`) in an
environment that never lets two requests of a project into that window
(`SerialSpec`). So a lock per key around `PutIfAbsent` is all the code would need;
the other stale reads of `AcquireLock` and the unlocks do no harm.

### GracefulShutdown

`phase` is what readiness tells, `closed` the parts that take no new connection,
`done` those whose close returned, `failed` those whose close failed, `pending`
the accepted requests without an answer, and `outcome` how the process ended.
Readiness changes before anything closes; a closed part accepts nothing; the probe
server closes when the others are done; a close succeeds only when its part has no
pending request; and status 0 needs all parts closed and none failed. It does not
promise that the store outlives the requests that use it, since the code does not
(run `server_draining`).

`ServerLifecycle` implements it (`ShutdownIsGraceful`): `phase` is computed from the
health manager's flags and `main`, `closed` and `done` from `closer`, `failed` is
`errors`, and `pending[p]` is `Open(p)`, of every stage between the arrival of a
request and its answer. The collector, the deadline and the store's own state are
hidden.

### HealthManager

State: the flags of the two checkers, the statuses the store's checkers would
find, the cache, and for each probe and checker how far `runCheck` is. A lookup,
a check and the store in the cache are three actions, so checks of one name
overlap and a late one overwrites a newer one. `resultChan` and `closed` are the
channel of a startup probe, with the capacity it is made with: `Send` waits for
room in it and then calls `wg.Done`, `Close` is the goroutine of `wg.Wait` and
`close`, `Receive` the loop over the channel, and `AnswerStartup` comes when the
channel is closed and empty. A readiness probe calls `runCheck` itself. Time is in ticks; the single
assumption is that a check is read and cached within `CheckTimeout` (guard of
`Tick`). It is not made of a storage check that found an error (`Unbounded`): its
clean-up runs with `context.Background()`, so its result reaches the cache at any
later time. `StorageHealth` justifies both halves (`OnlyCleanUpIsLate`). The
connection and cluster checks make one call under a context.
`SetServersRunning` is two actions, for the two locks it takes.

### StorageHealth

State: the clock, the test keys in the DMap with their expiry, and for each call
of `Check` its key, the store call it waits for, its status and the calls of it
that failed (history). A Put or Delete takes effect and returns in one action, or
fails with or without its effect. Two checks have the same key when they begin at
the same `UnixNano`, which is a tick and a stamp. `Tick` makes no time pass over
a call whose context has ended; the clean-up after a failed read has no context.
The branch for a value that differs (health.go:189-199) is left out: every check
writes the same value, and the locks have other keys.

### OlricNode

The initial states are settings as an operator writes them, `Load` makes a
configuration of them, and the actions follow `Load`, `NewOlricStore` and the
collector: `Validate`, `Create`, `Started`, `WaitForCluster`, `Tick`,
`CreateDMap`, `Collect`. `uint64` is a word of `WordSize`
values. Olric's Start can fail at any time (`OlricFails`), and the members this
node sees change at any time (`MembersChange`); Members can fail, which a tick of
`waitForCluster` counts as no member; and when the start gives up, the error of
Olric's `Shutdown` is dropped (olric.go:85), so the node may stay. Of the gauges only
the coordinator's is kept, the others copy a number. Settings the start does not depend on are
one Boolean, `otherChecks`.

### HttpMetrics

State: for each request of the API server its route, label, captured and sent
status, and how far it is through `MetricsMiddleware`; the in-flight gauge and the
counter by label and status; for each probe the metric it sets next, the two
gauges of its health check and whose success the timestamp is. Each Set, Inc and Dec is an action: they are atomic, their sequence is not.
A panic of an API handler reaches chi's Recoverer inside the middleware; a panic
of a probe's reaches net/http, and the probe records nothing. One method, so it
is left out of the labels.

### ServerLifecycle

State: where `runServer` is, what each server's goroutine does, the store, the
collector, the context of `Shutdown`, how far the closing of each part is, the
errors of both error channels, and the requests in flight. The deadline is an
action that can happen at any moment after `Shutdown` began, so a timeout of
zero, which `Validate` accepts (config.go:246), is included. `Shutdown`'s error
channel has room for the one error each of the four parts can send, hence a set.
A request makes one call of the store. Left out: the uptime goroutine, which only
adds to a counter until `shutdownChan` closes and that nobody waits for.

## Runs

| Run | Constants | Question | Result |
|---|---|---|---|
| `lock_races` | 3 requests, 1 project, 2 branches | what can overlapping requests do, which promise is left, and is each answered | holds |
| `lock_serial` | the same with 1 restart, a slash in the project's name, and no two requests inside `PutIfAbsent` of one project | is the promise kept then | holds |
| `double_grant` | 2 requests | does one branch win | violated |
| `health_readiness` | 3 readiness probes, 2 checkers, cache 1, timeout 1, 4 instants | freshness and readiness | holds |
| `health_startup` | 1 startup, 1 readiness probe, 3 checkers, 1 instant | do answers show failures, and come | holds |
| `storage_health` | 2 checks, 2 stamps, timeout 2, time to live 3, 8 instants | are errors real, and do test keys go away | holds |
| `olric_node` | 3 nodes, each setting around its limits, words of 8 values | does a node serve, give up and end as configured | holds |
| `partition_count` | the same | does `Validate` refuse a count below 1 | violated |
| `coordinator_gauge` | the same | does the gauge tell this node | violated |
| `server_shutdown` | 2 requests, that may hang | order, outcome and end of the shutdown, and is it graceful | holds |
| `server_draining` | 1 request | do requests keep the store | violated |
| `http_metrics` | 2 requests on 2 paths of one route, 3 probes, 2 statuses | do gauges and counters tell what happened | holds |

Bounds. Locks of different projects share nothing, so one
project shows every race; three requests are two racers and a third that unlocks
or asks in between, and two branches are the holder and another one; the proofs
remove these bounds. With three readiness probes one can read early and cache
late while a second fills the cache and a third uses it; two entries' lifetimes
fit in the four instants. A startup probe asks every checker once, so one of each
kind (`servers`, `readiness`, and the store's `olric-cluster`, the only one with a
third status) beside a readiness probe gives every order of results; time adds
nothing to it. The two requests of the shutdown are one that is answered and one that hangs, or
one of the API and one of the probe server. Two storage checks share a key or do
not; eight instants hold a whole check, the life of its key and a clean-up that
comes later. Three nodes are enough for a quorum that is missed, met and
exceeded, two attempts for one that is not the last, and eight values are the
smallest word with a negative count, zero, a positive one and their images apart.
Two requests on two paths of one route have labels that agree and differ; with
three probes one can be recorded by itself after two that overlapped. Symmetric
sets are declared only in runs without liveness.

The runs of `HealthManager`, `ServerLifecycle`, `StorageHealth`, `OlricNode` and
`HttpMetrics` switch deadlock checking off: probes, checks and requests that are
all done, the last instant, and a process that ended are the ends of their
behaviours. In `LockService` the step `AllHandled` marks that end, so deadlock is
checked.

What the passing runs show:

* `AnswersJustified`, `ErrorsExplained`: each answer of a handler was true at some
  moment between the arrival and the answer; a 500 of a healthy store has one
  cause, a lost race followed by an unlock.
* `SoleHolderUnlessOvertaken`: the double grant has one cause too, a Put that
  replaced the lock of another branch.
* `SomeoneWins`: of the requests that race for a free project at least one is
  told that it won; never do they all lose.
* `RacingPromiseKept`, `SettledLockStays`: `PutIfAbsent`'s window is the only way to
  lose a lock, and once nobody is inside it the lock stays until it is released.
* `SingleWinner`, `PromiseKept`: when that window is not shared the service keeps
  its whole promise through other overlaps, unlocks, failed calls and restarts.
* `EveryRequestAnswered`: a handler whose process lives comes to its answer.
* `ResultsAreFresh`, `NotReadySoonAfterShutdown`: overlapping checks can keep a
  stale result alive for one check more than the cache duration, not longer.
* `ReadyOnlyWhenRunning`, `StartupSeesFailures`: no early "ok", no failure hidden by
  the order of results.
* `EveryProbeAnswered`: those who send to the channel, who closes it and who receives
  do not wait for each other in a cycle.
* `CollectorUsesOpenStore`, `ReadyUntilShutdown`, `CleanExit`, `SignalEndsProcess`:
  the order of the shutdown, that it ends, and that an exit status of 0 means every
  accepted request got its answer.
* `ShutdownIsGraceful`: the shutdown as one state machine. Unlike the invariants it
  also rules out steps: a part that reopens or closes twice, a probe server that
  closes before the store, a request accepted by a closed part, a signal that ends a
  process that is closing its parts, an exit status that changes.
* `ErrorsAreReal`, `LeftoversExplained`, `TestKeysGoAway`, `OnlyCleanUpIsLate`:
  the time to live outlasts the check, so a working store is not reported as
  failed unless two checks share a key; what is left of a check is due to a failed
  call and expires.
* `StartedWithQuorum`, `NoTickerPanic`, `GivesUpAfterAllAttempts`, `StartupEnds`:
  what `Validate` lets through is what `waitForCluster` needs, and its loop looks
  at the last attempt before it gives up.
* `InFlightExact`, `AnsweredIsCounted`: labels, panics and late statuses leave
  gauge and counter exact. `GaugesTellLastProbe`: a probe that is recorded by itself
  leaves the gauges right. Probes that are recorded at the same time can leave the
  two in contradiction until the next one; the property does not speak of them.

The runs that end in a violation each contradict a sentence of the repository;
`PROJECT.json` quotes it under `findings`. Five more disagreements are visible in
the models and have no run of their own, since the path to each is a few steps:

* a project with a slash can be locked and `GET /lock/a/b` is answered 404
  (`RouteMiss`; lock.go:19 allows slashes, lock.go:170 says what 404 means);
* a startup probe with a check that is "not-ready" is answered "ok"
  (`WithResult`; manager.go:157 says "Check if all checks passed");
* a signal before `signal.Notify` kills a process that serves (`Signal`;
  `.github/copilot-instructions.md:120` asks for SIGTERM to be handled);
* an unlock of another branch frees a held project (`ReleaseLock`; storage.go:175
  looks at neither branch nor owner, `.github/copilot-instructions.md:99` says "Ensure
  only lock owners can release locks", and storage.go:37 calls that future work);
* the label of the in-flight gauge is the path, not the pattern, when the middleware
  takes it before the request is routed (`Enter`; metrics.go:50 says "Get the route
  pattern (not the raw path)").

## Fairness

* `LockService`: weak fairness of each request's handler. The Go scheduler runs
  every goroutine, and a call of the embedded node returns with a result or an
  error. None of the arrival of requests or of restarts.
* `HealthManager`: weak fairness of each probe's goroutines; the checks of the
  store run with a timeout. None of the clock or the environment.
* `ServerLifecycle`: weak fairness of main, the closing goroutines, the deadline
  and a running collection (it has a timeout of ten seconds); strong fairness of
  the collector's stop, because Go's `select` picks a ready case at random and
  does not prefer the ticker for ever. None of the requests: their handlers may
  hang. It is assumed that Olric's `Shutdown` and `Members` return.
* `OlricNode`: weak fairness of main. The ticker ticks, and Olric's calls return
  with a result or an error (`Members` is called with `context.Background()`, so
  that is an assumption on Olric). None of the other nodes.
* `StorageHealth` and `HttpMetrics` state safety only.

## Proofs

From the assumptions of `LockService` on its constants only (names are distinct,
`MaxRestarts` is a number), for any number of requests, projects, branches and
restarts:

* `TypeCorrect`, `AnswersAreJustified`, `ErrorsAreExplained`, `HolderIsSole`:
  `Spec => []P` for the four invariants. None is inductive. `IInv` adds, for each
  request in flight: its calls fit its operation and its names are valid
  (`CallsOfOperation`); what the store holds now is in its history
  (`SeenIsCurrent`); past the first `GetLock` it saw its project free
  (`SawFree`), and after a lost race it saw the lock of another request
  (`SawRival`). For each stored lock, its creator is past its store calls
  (`CreatorDecided`). `InvStep` is one case per action; lemmas say what a write,
  an answer or a failed call changes for the other requests.
* `ReplacementsAreRaces`, from the same invariant: a held lock is replaced only by a
  request that saw the project free while it ran, so a lock that was set before a
  request arrived is never lost to it. `RacingPromiseKept` says the same of holders;
  this theorem says it of each stored lock and its request.
* `SomeoneIsGranted`: on top of `IInv`, `WinnerInv` says who is to blame. A project that is locked, and a lock request that lost its race
  or was answered, has an excuse: a request of the project that was granted, failed,
  unlocked it or died with the process. An excuse lasts (`ExcuseLasts`), so that when
  all are answered the winner is among them.
* `RacingRefinement`, `LocksSettle` (`LockRefinementProofs`): `Spec` implements
  `RacingLock`. A Put is `Take` or `TakeUnannounced`, a failed one `GiveUp`, an answer
  from a lock that was found is `Confirm`; the lemmas before `RacingStep` say what
  each store call is to `racing` and to `holder`. That an attempt `Enter`s only when
  the project is free is the check of `PutIfAbsent`; that one leaves `racing` only by
  its answer or a restart is what `IInv` knows of requests in flight.
* `SerialRefinement`, `SerialSingleWinner`: under `SerialSpec` the service implements
  `DeploymentLock`. No new induction over the service is needed. Its steps are
  steps of `RacingLock` in which no two attempts race for a project
  (`RacingLock`'s `SerialSpec`), and those are steps of `DeploymentLock`:
  `SerialRacesAreIdeal` in `RacingLockProofs`, whose invariant says that the project
  of the one racing attempt is still free.
* `PromiseHolds`, `RacesSettle` (`RacingLockProofs`): what the two abstract locks are
  worth. `DeploymentLock` never tells two branches that they hold a project, and
  `RacingLock` never takes a lock away that nobody races for, both for any projects
  and attempts, if `Free` is not a branch. `LockRefinementProofs` instantiates this
  module with the service's variables, so its theorems hold of the service.
* `HandlersAdvance`: see Progress.

From no assumption, for any number of requests in flight:

* `ServerTypeCorrect`, `CollectorNeverReadsClosingStore`, `ShutdownIsAnnounced`,
  `ProbeServerIsLast`, `CleanExitLeavesNothing`, `NoShutdownIsCutShort`
  (`ServerLifecycleProofs`): the invariants of `ServerLifecycle`. No run checks
  `ProbeClosesLast` and `ShutdownIsNotInterrupted`, the statements of two of them:
  `ShutdownIsGraceful` covers what they say. `IInv` adds
  to the types where main is when a flag is set or the store is open (`Phases`),
  that nothing is being closed before the shutdown is announced (`NothingClosed`)
  or the collector has stopped (`CollectorStopped`), that a listener or the store
  is closed only by its goroutine (`ServersClosed`, `StoreClosed`), that the probe
  server's is the last (`ProbeLast`), and what a part that is done without an error
  leaves behind (`DoneMeansDrained`, `ExitOK`). The last two are what `CleanExit`
  needs: a drained server has no open request, and being closed it gets no new one.
* `GracefulRefinement`: the process implements `GracefulShutdown`. `PhaseOfMain` ties
  `phase` to the place of main; a closing goroutine's step is `Close` (`CloseStep`) or
  `Finish` (`FinishStep`); a request's is `Accept` or `Answer`, and that it is accepted
  by a part that is not closed is `ServersClosed` once more. The conditions of `Close`
  and `Leave` on the other parts are `ProbeLast` and the guards of `CloseProbe` and
  `Return`.
* `GracefulKeepsPromise`: what `GracefulShutdown` is worth, as `PromiseHolds` is for the
  locks. Readiness goes first and no signal ends the process after it
  (`AnnouncedFirst`), the probe server is last (`ProbeLast`), and status 0 leaves no
  accepted request without its answer (`NothingLost`). `GracefulInv` adds that a part
  that is done without an error has no request and is closed, so it gets none.
  With the refinement the process keeps the promise (`ProcessKeepsPromise`).
* `ShutdownAdvances`, `ShutdownIsNeverStuck`: see Progress.

For any number of probes, checkers, any cache duration and timeout
(`HealthManagerProofs`): `TypeCorrect`, `Freshness`, `ShutdownIsNoticed`,
`FailuresShow`, `NoEarlyReady`, the five invariants of `HealthManager`. What a
checker saw stays true of the time it looked (`Seen`); the cache and the results
hold only that, and not too old (`CacheInv`, `ResultInv`); a response is built
from results alone (`ResponseInv`). The properties speak of answers only, and
nothing of an answer is known without these.

For any number of checks and any timeout below the time to live
(`StorageHealthProofs`): `TypeCorrect`, `NoFalseErrors`, `NothingLeftQuietly`,
`TestKeysExpire`, `LateMeansCleanUp`. `ReadInv` is the core: the key of a check
that shares it with nobody is there while it is to be read, and lives at least a
time to live from the check's begin.

For every set of configurations, every finite cluster and every even word size
(`OlricNodeProofs`): `TypeCorrect`, `QuorumBeforeServing`, `TickerNeverPanics`,
`GivesUpHonestly`. `StartInv` keeps what `Validate` let through and what the ticks
counted; the lemma `Converted` is the range of the converted partition count, by the
arithmetic of `%`.

For any finite number of requests and probes and any routes (`HttpMetricsProofs`):
`TypeCorrect`, `GaugeBalances`, `NothingUncounted`, `GaugesSettle`. A counter is the size of a set of requests, and each step adds to
one such set, takes from it or leaves it (`Plus`, `Minus`); `ProbeInv` says what
the gauges are while one probe is recorded by itself.

Progress. The liveness properties need fairness, which the prover does not reach.
What they rest on beside it is proved: that the steps go one way, and that somebody
can take one.

* `HandlersAdvance`: each step of a handler lowers `StepsLeft`, and no step of another
  request changes where it is, except that a restart ends it. So a handler makes
  three store calls at most and never retries, whatever it races with.
* `StartIsBounded`: `NewOlricStore` is over after `maxJoinAttempts + 5` steps at most.
  It needs no bound on the cluster, but it does need what `Validate` guarantees.
* `ChecksAdvance`, `NoProbeIsStuck`: a check of a probe never goes back, and in every
  state a probe without an answer has a step whose guard holds: a check goes on, a
  goroutine has room in the channel for its result, the channel is closed or received
  from, or the answer is given. A channel that is not empty can be received from, an
  empty one has room (`ChannelHasRoom`), so senders and receiver never wait for each
  other.
* `ShutdownAdvances`, `ShutdownIsNeverStuck`: main and each closing goroutine only come
  nearer to their end; a collector that stopped and a deadline that passed stay so.
  In every state after the deadline the collector, a closing goroutine or main can
  take a step, however many requests hang: they wait for each other in no cycle.

Only model-checked: the liveness properties themselves (`EveryRequestAnswered`,
`EveryProbeAnswered`, `SignalEndsProcess`, `StartupEnds`). They follow from the above
by weak and strong fairness, that is, by reasoning about ENABLED, and that is where
the prover ends.

## Not modelled

* Olric and net/http beyond what the code uses of them. Olric's replicas, its
  quorums and its failover decide whether a lock survives a node, but none of that
  is in this repository: the code only hands `ReadQuorum = 1`, `WriteQuorum` and
  the replication mode over (olric.go:117-156). `RequestTimeout`, `BackupMode` and
  `BackupCount` are validated and never handed over.
* Logging, `LoggingMiddleware`, the wording of answers, the parsing of JSON and of
  configuration files, TLS, histograms of durations and sizes: they change no
  state the properties read. The Prometheus registry only declares metrics.
* `RecovererMiddleware` of internal/middleware and `RecordOperation`, `RecordError`
  and `RecordBackupOperation` of the store's metrics: nothing calls them.
* Counters that only grow and that no step reads: `recordMetric` of the lock handlers,
  which each path calls for itself, and `HealthCheckFailuresTotal`; the gauges that
  copy a number of `Stats`.
* A Put that takes effect after its error was returned. A failed call takes effect
  before it returns, or never.
* Requests on connections that a client keeps alive. net/http closes them when they
  are idle, so a request that comes on one while its server drains is answered or cut
  off there; the models let none come once the listener is closed.
* The uptime goroutine adds to a counter; `WaitForServers` is used by tests only;
  `Exists` and `Ping` change nothing; `/ping` and the liveness probe always answer
  200; the client is a placeholder.
