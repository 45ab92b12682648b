------------------------ MODULE ServerLifecycleProofs ------------------------
(***************************************************************************)
(* Proofs about ServerLifecycle: its invariants hold for any number of     *)
(* requests.                                                               *)
(***************************************************************************)
EXTENDS ServerLifecycle, TLAPS

-----------------------------------------------------------------------------
(* The inductive invariant. *)

BeforeShutdown == {"new", "created", "starting", "started", "waiting", "signalled"}

\* What the place of main says of the flags and the store.
Phases ==
    /\ main \in {"new", "created", "starting"} => ~health.serversRunning
    /\ main \in MainStates \ {"new", "created", "starting", "exited"} => health.serversRunning
    /\ main \in BeforeShutdown => ~health.shuttingDown
    /\ main \in {"stopping", "closing", "last"} => health.shuttingDown
    /\ main \in (BeforeShutdown \cup {"stopping"}) \ {"new"} => store = "open"
    /\ store = "none" => /\ main \in {"new", "exited"}
                        /\ ~health.serversRunning /\ collector = "none"

\* Before Shutdown announced itself, and until its three goroutines run, nothing
\* is being closed.
NothingClosed ==
    /\ ~health.shuttingDown => collector # "stopped"
    /\ ~health.shuttingDown \/ main = "stopping" => \A p \in Parts : closer[p] = "none"

\* The goroutines that close start when the collector has stopped.
CollectorStopped == \A p \in Parts : closer[p] # "none" => collector = "stopped"

\* Shutdown of a server closes its listener first, and for good.
ServersClosed ==
    \A s \in Servers :
        /\ server[s] = "closed" => closer[s] \in {"draining", "done"}
        /\ closer[s] \in {"draining", "done"} => server[s] \in {"closed", "failed"}

StoreClosed == store \in {"closing", "closed"} => closer["store"] \in {"draining", "done"}

\* A part that was closed without an error is closed.
DoneMeansDrained ==
    /\ \A s \in Servers : closer[s] = "done" /\ s \notin errors => Open(s) = {}
    /\ closer["store"] = "done" /\ "store" \notin errors => store = "closed"

\* The probe server is told to close when the others are done.
ProbeLast ==
    /\ closer["probe"] # "none" => \A p \in Parts \ {"probe"} : closer[p] = "done"
    /\ closer["probe"] # "none" => main \in {"last", "exited"}

\* Status 0 is returned when every part is done and none had an error.
ExitOK ==
    exit = "ok" => main = "exited" /\ errors = {} /\ \A p \in Parts : closer[p] = "done"

IInv ==
    /\ TypeOK
    /\ Phases
    /\ NothingClosed
    /\ CollectorStopped
    /\ ServersClosed
    /\ StoreClosed
    /\ DoneMeansDrained
    /\ ProbeLast
    /\ ExitOK

-----------------------------------------------------------------------------
(* It holds initially, and every step keeps it. *)

\* Nothing runs when the process starts (main.go).
LEMMA InvInit == Init => IInv
  <1> SUFFICES ASSUME Init PROVE IInv
    OBVIOUS
  <1>1. TypeOK
    BY DEF Init, TypeOK, Servers, Parts, MainStates, Stages, InFlight, Open
  <1>2. Phases
    BY DEF Init, Phases, Servers, Parts, MainStates, Stages, InFlight, Open
  <1>3. NothingClosed
    BY DEF Init, NothingClosed, Servers, Parts, MainStates, Stages, InFlight, Open
  <1>4. CollectorStopped
    BY DEF Init, CollectorStopped, Servers, Parts, MainStates, Stages, InFlight, Open
  <1>5. ServersClosed
    BY DEF Init, ServersClosed, Servers, Parts, MainStates, Stages, InFlight, Open
  <1>6. StoreClosed
    BY DEF Init, StoreClosed, Servers, Parts, MainStates, Stages, InFlight, Open
  <1>7. DoneMeansDrained
    BY DEF Init, DoneMeansDrained, Servers, Parts, MainStates, Stages, InFlight, Open
  <1>8. ProbeLast
    BY DEF Init, ProbeLast, Servers, Parts, MainStates, Stages, InFlight, Open
  <1>9. ExitOK
    BY DEF Init, ExitOK, Servers, Parts, MainStates, Stages, InFlight, Open
  <1> QED BY <1>1, <1>2, <1>3, <1>4, <1>5, <1>6, <1>7, <1>8, <1>9 DEF IInv

\* No step of main, of a server, of a goroutine of Shutdown, of the collector or of a
\* request breaks the invariant: a case per action, and a step per conjunct that the
\* action can disturb.
LEMMA InvStep == IInv /\ [Next]_vars => IInv'
  <1> SUFFICES ASSUME IInv, [Next]_vars PROVE IInv'
    OBVIOUS
  <1> USE DEF IInv, Servers, Parts
  <1>1. ASSUME New
        PROVE  IInv'
    <2>1. TypeOK'
      BY <1>1 DEF TypeOK, MainStates, New
    <2>2. Phases'
      BY <1>1 DEF TypeOK, Phases, BeforeShutdown, New
    <2>3. NothingClosed'
      BY <1>1 DEF TypeOK, NothingClosed, Phases, BeforeShutdown, New
    <2>4. CollectorStopped'
      BY <1>1 DEF TypeOK, CollectorStopped, NothingClosed, Phases, BeforeShutdown, New
    <2>5. StoreClosed'
      BY <1>1 DEF TypeOK, StoreClosed, New
    <2>6. DoneMeansDrained'
      BY <1>1 DEF TypeOK, DoneMeansDrained, Open, NothingClosed, Phases, BeforeShutdown, New
    <2>7. ProbeLast'
      BY <1>1 DEF TypeOK, ProbeLast, New
    <2>8. ExitOK'
      BY <1>1 DEF TypeOK, ExitOK, New
    <2>9. ServersClosed'
      BY <1>1 DEF ServersClosed, New
    <2> QED BY <2>1, <2>2, <2>3, <2>4, <2>5, <2>6, <2>7, <2>8, <2>9
  <1>2. ASSUME NewFails
        PROVE  IInv'
    <2>1. TypeOK'
      BY <1>2 DEF TypeOK, MainStates, NewFails, Exit
    <2>2. Phases'
      BY <1>2 DEF TypeOK, Phases, BeforeShutdown, NewFails, Exit
    <2>3. NothingClosed'
      BY <1>2 DEF TypeOK, NothingClosed, Phases, BeforeShutdown, NewFails, Exit
    <2>4. ProbeLast'
      BY <1>2 DEF TypeOK, ProbeLast, NewFails, Exit
    <2>5. ExitOK'
      BY <1>2 DEF TypeOK, ExitOK, NewFails, Exit
    <2>6. (CollectorStopped /\ ServersClosed /\ StoreClosed /\ DoneMeansDrained)'
      BY <1>2 DEF CollectorStopped, ServersClosed, StoreClosed, DoneMeansDrained, Open,
         NewFails, Exit
    <2> QED BY <2>1, <2>2, <2>3, <2>4, <2>5, <2>6
  <1>3. ASSUME Start
        PROVE  IInv'
    <2>1. TypeOK'
      BY <1>3 DEF TypeOK, MainStates, Start
    <2>2. Phases'
      BY <1>3 DEF TypeOK, Phases, BeforeShutdown, Start
    <2>3. NothingClosed'
      BY <1>3 DEF TypeOK, NothingClosed, Phases, BeforeShutdown, Start
    <2>4. ProbeLast'
      BY <1>3 DEF TypeOK, ProbeLast, Start
    <2>5. ExitOK'
      BY <1>3 DEF TypeOK, ExitOK, Start
    <2>6. (CollectorStopped /\ ServersClosed /\ StoreClosed /\ DoneMeansDrained)'
      BY <1>3 DEF CollectorStopped, ServersClosed, StoreClosed, DoneMeansDrained, Open, Start
    <2> QED BY <2>1, <2>2, <2>3, <2>4, <2>5, <2>6
  <1>4. ASSUME NEW s \in Servers, Listen(s)
        PROVE  IInv'
    <2>1. TypeOK'
      BY <1>4 DEF TypeOK, MainStates, Listen, Spawned, Running
    <2>2. ServersClosed'
      BY <1>4 DEF TypeOK, ServersClosed, Listen, Spawned, Running
    <2>3. DoneMeansDrained'
      BY <1>4 DEF TypeOK, DoneMeansDrained, Open, Listen, Spawned, Running
    <2>4. (Phases /\ NothingClosed /\ CollectorStopped /\ StoreClosed /\ ProbeLast /\ ExitOK)'
      BY <1>4 DEF Phases, NothingClosed, CollectorStopped, StoreClosed, ProbeLast, ExitOK,
         Listen, Spawned, Running
    <2> QED BY <2>1, <2>2, <2>3, <2>4
  <1>5. ASSUME NEW s \in Servers, ServerFails(s)
        PROVE  IInv'
    <2>1. TypeOK'
      BY <1>5 DEF TypeOK, MainStates, ServerFails, Spawned, Running
    <2>2. ServersClosed'
      BY <1>5 DEF TypeOK, ServersClosed, ServerFails, Spawned, Running
    <2>3. DoneMeansDrained'
      BY <1>5 DEF TypeOK, DoneMeansDrained, Open, ServerFails, Spawned, Running
    <2>4. (Phases /\ NothingClosed /\ CollectorStopped /\ StoreClosed /\ ProbeLast /\ ExitOK)'
      BY <1>5 DEF Phases, NothingClosed, CollectorStopped, StoreClosed, ProbeLast, ExitOK,
         ServerFails, Spawned, Running
    <2> QED BY <2>1, <2>2, <2>3, <2>4
  <1>6. ASSUME StartReturns
        PROVE  IInv'
    <2>1. TypeOK'
      BY <1>6 DEF TypeOK, MainStates, StartReturns, Exit
    <2>2. Phases'
      BY <1>6 DEF TypeOK, Phases, BeforeShutdown, StartReturns, Exit
    <2>3. NothingClosed'
      BY <1>6 DEF TypeOK, NothingClosed, Phases, BeforeShutdown, StartReturns, Exit
    <2>4. ProbeLast'
      BY <1>6 DEF TypeOK, ProbeLast, StartReturns, Exit
    <2>5. ExitOK'
      BY <1>6 DEF TypeOK, ExitOK, StartReturns, Exit
    <2>6. (CollectorStopped /\ ServersClosed /\ StoreClosed /\ DoneMeansDrained)'
      BY <1>6 DEF CollectorStopped, ServersClosed, StoreClosed, DoneMeansDrained, Open,
         StartReturns, Exit
    <2> QED BY <2>1, <2>2, <2>3, <2>4, <2>5, <2>6
  <1>7. ASSUME Notify
        PROVE  IInv'
    <2>1. TypeOK'
      BY <1>7 DEF TypeOK, MainStates, Notify
    <2>2. Phases'
      BY <1>7 DEF TypeOK, Phases, BeforeShutdown, Notify
    <2>3. NothingClosed'
      BY <1>7 DEF TypeOK, NothingClosed, Phases, BeforeShutdown, Notify
    <2>4. ProbeLast'
      BY <1>7 DEF TypeOK, ProbeLast, Notify
    <2>5. ExitOK'
      BY <1>7 DEF TypeOK, ExitOK, Notify
    <2>6. (CollectorStopped /\ ServersClosed /\ StoreClosed /\ DoneMeansDrained)'
      BY <1>7 DEF CollectorStopped, ServersClosed, StoreClosed, DoneMeansDrained, Open, Notify
    <2> QED BY <2>1, <2>2, <2>3, <2>4, <2>5, <2>6
  <1>8. ASSUME Signal
        PROVE  IInv'
    <2>1. TypeOK'
      BY <1>8 DEF TypeOK, MainStates, Signal, Exit
    <2>2. Phases'
      BY <1>8 DEF TypeOK, Phases, BeforeShutdown, Signal, Exit
    <2>3. NothingClosed'
      BY <1>8 DEF TypeOK, NothingClosed, Phases, BeforeShutdown, Signal, Exit
    <2>4. ProbeLast'
      BY <1>8 DEF TypeOK, ProbeLast, Signal, Exit
    <2>5. ExitOK'
      BY <1>8 DEF TypeOK, ExitOK, Signal, Exit
    <2>6. (CollectorStopped /\ ServersClosed /\ StoreClosed /\ DoneMeansDrained)'
      BY <1>8 DEF CollectorStopped, ServersClosed, StoreClosed, DoneMeansDrained, Open,
         Signal, Exit
    <2> QED BY <2>1, <2>2, <2>3, <2>4, <2>5, <2>6
  <1>9. ASSUME Shutdown
        PROVE  IInv'
    <2>1. TypeOK'
      BY <1>9 DEF TypeOK, MainStates, Shutdown
    <2>2. Phases'
      BY <1>9 DEF TypeOK, Phases, BeforeShutdown, Shutdown
    <2>3. NothingClosed'
      BY <1>9 DEF TypeOK, NothingClosed, Phases, BeforeShutdown, Shutdown
    <2>4. ProbeLast'
      BY <1>9 DEF TypeOK, ProbeLast, Shutdown
    <2>5. ExitOK'
      BY <1>9 DEF TypeOK, ExitOK, Shutdown
    <2>6. (CollectorStopped /\ ServersClosed /\ StoreClosed /\ DoneMeansDrained)'
      BY <1>9 DEF CollectorStopped, ServersClosed, StoreClosed, DoneMeansDrained, Open, Shutdown
    <2> QED BY <2>1, <2>2, <2>3, <2>4, <2>5, <2>6
  <1>10. ASSUME CloseThree
        PROVE  IInv'
    <2>1. TypeOK'
      BY <1>10 DEF TypeOK, MainStates, CloseThree
    <2>2. Phases'
      BY <1>10 DEF TypeOK, Phases, BeforeShutdown, CloseThree
    <2>3. NothingClosed'
      BY <1>10 DEF TypeOK, NothingClosed, Phases, BeforeShutdown, CloseThree
    <2>4. CollectorStopped'
      BY <1>10 DEF TypeOK, CollectorStopped, CloseThree
    <2>5. ServersClosed'
      BY <1>10 DEF TypeOK, ServersClosed, NothingClosed, CloseThree
    <2>6. StoreClosed'
      BY <1>10 DEF TypeOK, StoreClosed, Phases, BeforeShutdown, CloseThree
    <2>7. DoneMeansDrained'
      BY <1>10 DEF TypeOK, DoneMeansDrained, Open, CloseThree
    <2>8. ProbeLast'
      BY <1>10 DEF TypeOK, ProbeLast, CloseThree
    <2>9. ExitOK'
      BY <1>10 DEF TypeOK, ExitOK, CloseThree
    <2> QED BY <2>1, <2>2, <2>3, <2>4, <2>5, <2>6, <2>7, <2>8, <2>9
  <1>11. ASSUME CloseProbe
        PROVE  IInv'
    <2>1. TypeOK'
      BY <1>11 DEF TypeOK, MainStates, CloseProbe
    <2>2. Phases'
      BY <1>11 DEF TypeOK, Phases, BeforeShutdown, CloseProbe
    <2>3. NothingClosed'
      BY <1>11 DEF TypeOK, NothingClosed, Phases, BeforeShutdown, CloseProbe
    <2>4. CollectorStopped'
      BY <1>11 DEF TypeOK, CollectorStopped, CloseProbe
    <2>5. ServersClosed'
      BY <1>11 DEF TypeOK, ServersClosed, ProbeLast, CloseProbe
    <2>6. StoreClosed'
      BY <1>11 DEF TypeOK, StoreClosed, CloseProbe
    <2>7. DoneMeansDrained'
      BY <1>11 DEF TypeOK, DoneMeansDrained, Open, CloseProbe
    <2>8. ProbeLast'
      BY <1>11 DEF TypeOK, ProbeLast, CloseProbe
    <2>9. ExitOK'
      BY <1>11 DEF TypeOK, ExitOK, CloseProbe
    <2> QED BY <2>1, <2>2, <2>3, <2>4, <2>5, <2>6, <2>7, <2>8, <2>9
  <1>12. ASSUME NEW s \in Servers, CloseListener(s)
        PROVE  IInv'
    <2>1. TypeOK'
      BY <1>12 DEF TypeOK, MainStates, CloseListener, Running
    <2>2. NothingClosed'
      BY <1>12 DEF TypeOK, NothingClosed, Phases, BeforeShutdown, CloseListener, Running
    <2>3. CollectorStopped'
      BY <1>12 DEF TypeOK, CollectorStopped, CloseListener, Running
    <2>4. ServersClosed'
      BY <1>12 DEF TypeOK, ServersClosed, CloseListener, Running
    <2>5. StoreClosed'
      BY <1>12 DEF TypeOK, StoreClosed, CloseListener, Running
    <2>6. DoneMeansDrained'
      BY <1>12 DEF TypeOK, DoneMeansDrained, Open, CloseListener, Running
    <2>7. ProbeLast'
      BY <1>12 DEF TypeOK, ProbeLast, CloseListener, Running
    <2>8. ExitOK'
      BY <1>12 DEF TypeOK, ExitOK, CloseListener, Running
    <2>9. Phases'
      BY <1>12 DEF Phases, CloseListener, Running
    <2> QED BY <2>1, <2>2, <2>3, <2>4, <2>5, <2>6, <2>7, <2>8, <2>9
  <1>13. ASSUME NEW s \in Servers, Drain(s)
        PROVE  IInv'
    <2>1. TypeOK'
      <3>1. errors' \subseteq Parts
        BY <1>13 DEF TypeOK, Drain
      <3>2. closer' \in [Parts -> {"none", "running", "draining", "done"}]
        BY <1>13 DEF TypeOK, Drain
      <3> QED BY <1>13, <3>1, <3>2 DEF TypeOK, MainStates, Drain
    <2>2. NothingClosed'
      BY <1>13 DEF TypeOK, NothingClosed, Phases, BeforeShutdown, Drain, Running
    <2>3. CollectorStopped'
      BY <1>13 DEF TypeOK, CollectorStopped, Drain, Running
    <2>4. ServersClosed'
      BY <1>13 DEF TypeOK, ServersClosed, Drain, Running
    <2>5. StoreClosed'
      BY <1>13 DEF TypeOK, StoreClosed, Drain, Running
    <2>6. DoneMeansDrained'
      BY <1>13 DEF TypeOK, DoneMeansDrained, Open, Drain, Running
    <2>7. ProbeLast'
      BY <1>13 DEF TypeOK, ProbeLast, Drain, Running
    <2>8. ExitOK'
      BY <1>13 DEF TypeOK, ExitOK, Drain, Running
    <2>9. Phases'
      BY <1>13 DEF Phases, Drain, Running
    <2> QED BY <2>1, <2>2, <2>3, <2>4, <2>5, <2>6, <2>7, <2>8, <2>9
  <1>14. ASSUME CloseStore
        PROVE  IInv'
    <2>1. TypeOK'
      BY <1>14 DEF TypeOK, MainStates, CloseStore, Running
    <2>2. Phases'
      BY <1>14 DEF TypeOK, Phases, BeforeShutdown, NothingClosed, CloseStore, Running
    <2>3. NothingClosed'
      BY <1>14 DEF TypeOK, NothingClosed, Phases, BeforeShutdown, CloseStore, Running
    <2>4. CollectorStopped'
      BY <1>14 DEF TypeOK, CollectorStopped, CloseStore, Running
    <2>5. ServersClosed'
      BY <1>14 DEF TypeOK, ServersClosed, CloseStore, Running
    <2>6. StoreClosed'
      BY <1>14 DEF TypeOK, StoreClosed, CloseStore, Running
    <2>7. DoneMeansDrained'
      BY <1>14 DEF TypeOK, DoneMeansDrained, Open, CloseStore, Running
    <2>8. ProbeLast'
      BY <1>14 DEF TypeOK, ProbeLast, CloseStore, Running
    <2>9. ExitOK'
      BY <1>14 DEF TypeOK, ExitOK, CloseStore, Running
    <2> QED BY <2>1, <2>2, <2>3, <2>4, <2>5, <2>6, <2>7, <2>8, <2>9
  <1>15. ASSUME StoreCloses
        PROVE  IInv'
    <2>1. TypeOK'
      <3>1. errors' \subseteq Parts
        BY <1>15 DEF TypeOK, StoreCloses
      <3>2. closer' \in [Parts -> {"none", "running", "draining", "done"}]
        BY <1>15 DEF TypeOK, StoreCloses
      <3>3. store' \in {"none", "open", "closing", "closed"}
        BY <1>15 DEF TypeOK, StoreCloses
      <3> QED BY <1>15, <3>1, <3>2, <3>3 DEF TypeOK, MainStates, StoreCloses
    <2>2. Phases'
      BY <1>15 DEF TypeOK, Phases, BeforeShutdown, NothingClosed, StoreClosed, StoreCloses,
         Running
    <2>3. NothingClosed'
      BY <1>15 DEF TypeOK, NothingClosed, Phases, BeforeShutdown, StoreCloses, Running
    <2>4. CollectorStopped'
      BY <1>15 DEF TypeOK, CollectorStopped, StoreCloses, Running
    <2>5. ServersClosed'
      BY <1>15 DEF TypeOK, ServersClosed, StoreCloses, Running
    <2>6. StoreClosed'
      BY <1>15 DEF TypeOK, StoreClosed, StoreCloses, Running
    <2>7. DoneMeansDrained'
      BY <1>15 DEF TypeOK, DoneMeansDrained, Open, StoreCloses, Running
    <2>8. ProbeLast'
      BY <1>15 DEF TypeOK, ProbeLast, StoreCloses, Running
    <2>9. ExitOK'
      BY <1>15 DEF TypeOK, ExitOK, StoreCloses, Running
    <2> QED BY <2>1, <2>2, <2>3, <2>4, <2>5, <2>6, <2>7, <2>8, <2>9
  <1>16. ASSUME Deadline
        PROVE  IInv'
    <2>1. TypeOK'
      BY <1>16 DEF TypeOK, MainStates, Deadline, Running
    <2>2. (Phases /\ NothingClosed /\ CollectorStopped /\ ServersClosed /\ StoreClosed
           /\ DoneMeansDrained /\ ProbeLast /\ ExitOK)'
      BY <1>16 DEF Phases, NothingClosed, CollectorStopped, ServersClosed, StoreClosed,
         DoneMeansDrained, Open, ProbeLast, ExitOK, Deadline, Running
    <2> QED BY <2>1, <2>2
  <1>17. ASSUME Return
        PROVE  IInv'
    <2>1. TypeOK'
      BY <1>17 DEF TypeOK, MainStates, Return, Exit
    <2>2. Phases'
      BY <1>17 DEF TypeOK, Phases, BeforeShutdown, Return, Exit
    <2>3. NothingClosed'
      BY <1>17 DEF TypeOK, NothingClosed, Phases, BeforeShutdown, Return, Exit
    <2>4. ProbeLast'
      BY <1>17 DEF TypeOK, ProbeLast, Return, Exit
    <2>5. ExitOK'
      BY <1>17 DEF TypeOK, ExitOK, ProbeLast, Return, Exit
    <2>6. (CollectorStopped /\ ServersClosed /\ StoreClosed /\ DoneMeansDrained)'
      BY <1>17 DEF CollectorStopped, ServersClosed, StoreClosed, DoneMeansDrained, Open,
         Return, Exit
    <2> QED BY <2>1, <2>2, <2>3, <2>4, <2>5, <2>6
  <1>18. ASSUME CollectorTick
        PROVE  IInv'
    <2>1. TypeOK'
      BY <1>18 DEF TypeOK, MainStates, CollectorTick, Running
    <2>2. Phases'
      BY <1>18 DEF TypeOK, Phases, BeforeShutdown, CollectorTick, Running
    <2>3. NothingClosed'
      BY <1>18 DEF TypeOK, NothingClosed, Phases, BeforeShutdown, CollectorTick, Running
    <2>4. CollectorStopped'
      BY <1>18 DEF TypeOK, CollectorStopped, CollectorTick, Running
    <2>5. (ServersClosed /\ StoreClosed /\ DoneMeansDrained /\ ProbeLast /\ ExitOK)'
      BY <1>18 DEF ServersClosed, StoreClosed, DoneMeansDrained, Open, ProbeLast, ExitOK,
         CollectorTick, Running
    <2> QED BY <2>1, <2>2, <2>3, <2>4, <2>5
  <1>19. ASSUME Collected
        PROVE  IInv'
    <2>1. TypeOK'
      BY <1>19 DEF TypeOK, MainStates, Collected, Running
    <2>2. Phases'
      BY <1>19 DEF TypeOK, Phases, BeforeShutdown, Collected, Running
    <2>3. NothingClosed'
      BY <1>19 DEF TypeOK, NothingClosed, Phases, BeforeShutdown, Collected, Running
    <2>4. CollectorStopped'
      BY <1>19 DEF TypeOK, CollectorStopped, Collected, Running
    <2>5. (ServersClosed /\ StoreClosed /\ DoneMeansDrained /\ ProbeLast /\ ExitOK)'
      BY <1>19 DEF ServersClosed, StoreClosed, DoneMeansDrained, Open, ProbeLast, ExitOK,
         Collected, Running
    <2> QED BY <2>1, <2>2, <2>3, <2>4, <2>5
  <1>20. ASSUME CollectorStops
        PROVE  IInv'
    <2>1. TypeOK'
      BY <1>20 DEF TypeOK, MainStates, CollectorStops, Running, StopRequested
    <2>2. Phases'
      BY <1>20 DEF TypeOK, Phases, BeforeShutdown, CollectorStops, Running, StopRequested
    <2>3. NothingClosed'
      BY <1>20 DEF TypeOK, NothingClosed, Phases, BeforeShutdown, CollectorStops, Running,
         StopRequested
    <2>4. CollectorStopped'
      BY <1>20 DEF TypeOK, CollectorStopped, CollectorStops, Running, StopRequested
    <2>5. (ServersClosed /\ StoreClosed /\ DoneMeansDrained /\ ProbeLast /\ ExitOK)'
      BY <1>20 DEF ServersClosed, StoreClosed, DoneMeansDrained, Open, ProbeLast, ExitOK,
         CollectorStops, Running, StopRequested
    <2> QED BY <2>1, <2>2, <2>3, <2>4, <2>5
  <1>21. ASSUME NEW r \in Requests, NEW s \in Servers, Arrive(r, s)
        PROVE  IInv'
    <2>1. TypeOK'
      BY <1>21 DEF TypeOK, MainStates, Stages, InFlight, Arrive, Running
    <2>2. DoneMeansDrained'
      BY <1>21 DEF TypeOK, DoneMeansDrained, Open, ServersClosed, InFlight, Arrive, Running
    <2>3. (Phases /\ NothingClosed /\ CollectorStopped /\ ServersClosed /\ StoreClosed
           /\ ProbeLast /\ ExitOK)'
      BY <1>21 DEF Phases, NothingClosed, CollectorStopped, ServersClosed, StoreClosed,
         ProbeLast, ExitOK, Arrive, Running
    <2> QED BY <2>1, <2>2, <2>3
  <1>22. ASSUME NEW r \in Requests, CallStore(r)
        PROVE  IInv'
    <2>1. TypeOK'
      BY <1>22 DEF TypeOK, MainStates, Stages, InFlight, CallStore, Running
    <2>2. DoneMeansDrained'
      BY <1>22 DEF TypeOK, DoneMeansDrained, Open, InFlight, CallStore, Running
    <2>3. (Phases /\ NothingClosed /\ CollectorStopped /\ ServersClosed /\ StoreClosed
           /\ ProbeLast /\ ExitOK)'
      BY <1>22 DEF Phases, NothingClosed, CollectorStopped, ServersClosed, StoreClosed,
         ProbeLast, ExitOK, CallStore, Running
    <2> QED BY <2>1, <2>2, <2>3
  <1>23. ASSUME NEW r \in Requests, Respond(r)
        PROVE  IInv'
    <2>1. TypeOK'
      BY <1>23 DEF TypeOK, MainStates, Stages, InFlight, Respond, Running
    <2>2. DoneMeansDrained'
      BY <1>23 DEF TypeOK, DoneMeansDrained, Open, InFlight, Respond, Running
    <2>3. (Phases /\ NothingClosed /\ CollectorStopped /\ ServersClosed /\ StoreClosed
           /\ ProbeLast /\ ExitOK)'
      BY <1>23 DEF Phases, NothingClosed, CollectorStopped, ServersClosed, StoreClosed,
         ProbeLast, ExitOK, Respond, Running
    <2> QED BY <2>1, <2>2, <2>3
  <1>24. CASE UNCHANGED vars
    BY <1>24 DEF vars, TypeOK, Phases, NothingClosed, CollectorStopped, ServersClosed,
       StoreClosed, DoneMeansDrained, ProbeLast, ExitOK, Open
  <1> QED BY <1>1, <1>2, <1>3, <1>4, <1>5, <1>6, <1>7, <1>8, <1>9, <1>10, <1>11, <1>12, <1>13,
             <1>14, <1>15, <1>16, <1>17, <1>18, <1>19, <1>20, <1>21, <1>22, <1>23, <1>24
                 DEF Next, MainStep, CloserStep

\* The process keeps the invariant from its start to its exit, for any number of
\* requests (runServer, main.go, and Server of internal/server/server.go).
THEOREM ServerInvariance == Spec => []IInv
  BY InvInit, InvStep, PTL DEF Spec

-----------------------------------------------------------------------------
(* What follows, for any number of requests that are in flight meanwhile.   *)

\* The variables keep their types (runServer, New, Start and Shutdown).
THEOREM ServerTypeCorrect == Spec => []TypeOK
  <1>1. IInv => TypeOK
    BY DEF IInv
  <1> QED BY <1>1, ServerInvariance, PTL

\* The collector never reads a store that is being closed, because Shutdown waits for
\* it before it starts the goroutines that close (server.go:273-276).
THEOREM CollectorNeverReadsClosingStore == Spec => []CollectorUsesOpenStore
  <1>1. IInv => CollectorUsesOpenStore
    <2> SUFFICES ASSUME IInv, collector = "collecting"
                 PROVE  store = "open"
      BY DEF CollectorUsesOpenStore
    <2>1. store # "none"
      BY DEF IInv, Phases
    <2>2. closer["store"] = "none"
      BY DEF IInv, CollectorStopped, Parts
    <2>3. store \notin {"closing", "closed"}
      BY <2>2 DEF IInv, StoreClosed
    <2> QED BY <2>1, <2>3 DEF IInv, TypeOK
  <1> QED BY <1>1, ServerInvariance, PTL

\* While the readiness checker says ready nothing is being closed (server.go:267-268).
THEOREM ShutdownIsAnnounced == Spec => []ReadyUntilShutdown
  <1>1. IInv => ReadyUntilShutdown
    <2> SUFFICES ASSUME IInv, health.serversRunning, ~health.shuttingDown
                 PROVE  /\ store = "open" /\ collector # "stopped"
                        /\ \A s \in Servers : server[s] # "closed"
      BY DEF ReadyUntilShutdown
    <2>1. collector # "stopped" /\ \A p \in Parts : closer[p] = "none"
      BY DEF IInv, NothingClosed
    <2>2. \A s \in Servers : server[s] # "closed"
      BY <2>1 DEF IInv, ServersClosed, Parts
    <2>3. store # "none"
      BY DEF IInv, Phases
    <2>4. store \notin {"closing", "closed"}
      BY <2>1 DEF IInv, StoreClosed, Parts
    <2> QED BY <2>1, <2>2, <2>3, <2>4 DEF IInv, TypeOK
  <1> QED BY <1>1, ServerInvariance, PTL

\* "Shutdown probe server last": while a part is being closed the probe server was
\* not told to close (server.go:301-320).
ProbeClosesLast ==
    server["probe"] = "closed" => \A p \in Parts \ {"probe"} : closer[p] = "done"

\* The probe server closes when all the other parts are done (server.go:301-320).
THEOREM ProbeServerIsLast == Spec => []ProbeClosesLast
  <1>1. IInv => ProbeClosesLast
    <2> SUFFICES ASSUME IInv, server["probe"] = "closed"
                 PROVE  \A p \in Parts \ {"probe"} : closer[p] = "done"
      BY DEF ProbeClosesLast
    <2>1. closer["probe"] # "none"
      BY DEF IInv, ServersClosed, Servers
    <2> QED BY <2>1 DEF IInv, ProbeLast
  <1> QED BY <1>1, ServerInvariance, PTL

\* Status 0 means that the servers and the store are closed, the collector stopped and
\* every accepted request has its answer (Shutdown, server.go:264-335).
THEOREM CleanExitLeavesNothing == Spec => []CleanExit
  <1>1. IInv => CleanExit
    <2> SUFFICES ASSUME IInv, exit = "ok"
                 PROVE  /\ store = "closed" /\ collector = "stopped"
                        /\ \A s \in Servers : server[s] \in {"closed", "failed"} /\ Open(s) = {}
      BY DEF CleanExit
    <2>1. errors = {} /\ \A p \in Parts : closer[p] = "done"
      BY DEF IInv, ExitOK
    <2>2. store = "closed" /\ \A s \in Servers : Open(s) = {}
      BY <2>1 DEF IInv, DoneMeansDrained, Parts
    <2>3. collector = "stopped"
      BY <2>1 DEF IInv, CollectorStopped, Parts
    <2>4. \A s \in Servers : server[s] \in {"closed", "failed"}
      BY <2>1 DEF IInv, ServersClosed, Parts
    <2> QED BY <2>2, <2>3, <2>4
  <1> QED BY <1>1, ServerInvariance, PTL

\* A shutdown that began is not cut short: a process that a signal killed had closed
\* nothing.  sigChan keeps the signals that follow the first (main.go:163-180).
ShutdownIsNotInterrupted ==
    exit = "killed" =>
        /\ ~health.shuttingDown /\ store \in {"none", "open"}
        /\ \A p \in Parts : closer[p] = "none"

\* A process that a signal killed had not begun its shutdown.
Killed == exit = "killed" => main = "exited" /\ ~health.shuttingDown

\* No signal interrupts a shutdown: the first one leaves main to it, and the next ones
\* stay in sigChan (main.go:163-180).
THEOREM NoShutdownIsCutShort == Spec => []ShutdownIsNotInterrupted
  <1>1. Init => Killed
    BY DEF Init, Killed
  <1>2. IInv /\ Killed /\ [Next]_vars => Killed'
    <2> SUFFICES ASSUME IInv, Killed, [Next]_vars
                 PROVE  Killed'
      OBVIOUS
    <2>1. CASE Signal
      BY <2>1 DEF Signal, Exit, Killed, IInv, Phases, BeforeShutdown
    <2>2. CASE MainStep
      BY <2>2 DEF MainStep, New, NewFails, Start, StartReturns, Notify, Shutdown, CloseThree, CloseProbe,
                  Return, Exit, Killed
    <2>3. CASE UNCHANGED <<main, exit, health>>
      BY <2>3 DEF Killed
    <2>4. Signal \/ MainStep \/ UNCHANGED <<main, exit, health>>
      BY DEF Next, vars, Deadline, Listen, ServerFails, CloserStep, CloseListener, Drain, CloseStore,
             StoreCloses, CollectorTick, Collected, CollectorStops, CallStore, Respond, Arrive
    <2> QED BY <2>1, <2>2, <2>3, <2>4
  <1>3. IInv /\ Killed => ShutdownIsNotInterrupted
    <2> SUFFICES ASSUME IInv, ~health.shuttingDown
                 PROVE  /\ store \in {"none", "open"}
                        /\ \A p \in Parts : closer[p] = "none"
      BY DEF Killed, ShutdownIsNotInterrupted
    <2>1. \A p \in Parts : closer[p] = "none"
      BY DEF IInv, NothingClosed
    <2>2. store \notin {"closing", "closed"}
      BY <2>1 DEF IInv, StoreClosed, Parts
    <2> QED BY <2>1, <2>2 DEF IInv, TypeOK
  <1> QED BY <1>1, <1>2, <1>3, ServerInvariance, PTL DEF Spec
-----------------------------------------------------------------------------
(* The refinement: each step of the process is a step of GracefulShutdown   *)
(* or leaves it alone.                                                      *)

\* What the flags and the end of the process say of the phase.
LEMMA PhaseOfMain ==
    ASSUME IInv
    PROVE  /\ main \in {"new", "created", "starting"} => phase = "starting"
           /\ main \in {"started", "waiting", "signalled"} => phase = "serving"
           /\ main \in {"stopping", "closing", "last"} => phase = "stopping"
           /\ main = "exited" <=> phase = "gone"
           /\ (\E p \in Parts : closer[p] # "none") /\ Running => phase = "stopping"
  BY DEF IInv, TypeOK, Phases, NothingClosed, BeforeShutdown, MainStates, phase, Running

\* A step that neither closes a part nor accepts or answers a request.
LEMMA PartsKept ==
    ASSUME UNCHANGED <<closer, errors, request>>
    PROVE  UNCHANGED <<ClosedParts, DoneParts, errors, pending>>
  BY DEF ClosedParts, DoneParts, pending, Open

\* A step of which Kubernetes notices nothing.
LEMMA Unnoticed ==
    ASSUME UNCHANGED <<health, closer, errors, request, exit>>, main = "exited" <=> main' = "exited"
    PROVE  UNCHANGED Graceful!vars
  BY PartsKept DEF Graceful!vars, phase, Running

\* Telling a goroutine to close a part does not close it.
LEMMA ToldIsNotClosed ==
    ASSUME TypeOK, NEW told \in SUBSET Parts, \A p \in told : closer[p] = "none",
           closer' = [p \in Parts |-> IF p \in told THEN "running" ELSE closer[p]],
           UNCHANGED <<health, errors, request, exit>>, main # "exited", main' # "exited"
    PROVE  UNCHANGED Graceful!vars
  <1>1. ClosedParts' = ClosedParts /\ DoneParts' = DoneParts
    BY DEF ClosedParts, DoneParts
  <1>2. pending' = pending /\ phase' = phase
    BY DEF pending, Open, phase, Running
  <1> QED BY <1>1, <1>2 DEF Graceful!vars

\* A goroutine of Shutdown closes its part (http.Server.Shutdown, OlricStore.Close).
LEMMA CloseStep ==
    ASSUME IInv, NEW p \in Parts, Running, closer[p] = "running",
           closer' = [closer EXCEPT ![p] = "draining"],
           UNCHANGED <<main, health, errors, request, exit>>
    PROVE  Graceful!Close(p)
  <1>1. phase = "stopping" /\ phase' = phase
    BY PhaseOfMain DEF phase, Running
  <1>2. p \notin ClosedParts /\ ClosedParts' = ClosedParts \cup {p} /\ DoneParts' = DoneParts
    BY DEF IInv, TypeOK, ClosedParts, DoneParts
  <1>3. p = "probe" => Parts \ {"probe"} \subseteq DoneParts
    BY DEF IInv, ProbeLast, DoneParts
  <1>4. pending' = pending
    BY DEF pending, Open
  <1> QED BY <1>1, <1>2, <1>3, <1>4 DEF Graceful!Close

\* It is done, without an error only if no request is open.
LEMMA FinishStep ==
    ASSUME IInv, NEW p \in Parts, Running, closer[p] = "draining",
           closer' = [closer EXCEPT ![p] = "done"],
           \/ Open(p) = {} /\ errors' = errors
           \/ errors' = errors \cup {p},
           UNCHANGED <<main, health, request, exit>>
    PROVE  Graceful!Finish(p)
  <1>1. phase = "stopping" /\ phase' = phase
    BY PhaseOfMain DEF phase, Running
  <1>2. p \in ClosedParts \ DoneParts /\ ClosedParts' = ClosedParts /\ DoneParts' = DoneParts \cup {p}
    BY DEF IInv, TypeOK, ClosedParts, DoneParts
  <1>3. pending' = pending /\ pending[p] = Open(p)
    BY DEF pending, Open
  <1> QED BY <1>1, <1>2, <1>3 DEF Graceful!Finish

\* The requests of one server change, and nothing else.
LEMMA RequestsMove ==
    ASSUME NEW s \in Parts, UNCHANGED <<main, exit, health, closer, errors>>,
           \A q \in Parts \ {s} : Open(q)' = Open(q)
    PROVE  /\ UNCHANGED <<phase, ClosedParts, DoneParts, errors, exit>>
           /\ pending' = [pending EXCEPT ![s] = Open(s)']
  BY DEF phase, Running, ClosedParts, DoneParts, pending

\* A request arrives at a server that listens.
LEMMA ArriveStep ==
    ASSUME IInv, NEW r \in Requests, NEW s \in Servers, Arrive(r, s)
    PROVE  Graceful!Accept(r, s)
  <1>1. s \in Parts /\ s \notin ClosedParts
    BY DEF Arrive, IInv, ServersClosed, ClosedParts, Parts
  <1>2. \A q \in Parts : r \notin pending[q]
    BY DEF Arrive, pending, Open, InFlight
  <1>3. Open(s)' = Open(s) \cup {r} /\ \A q \in Parts \ {s} : Open(q)' = Open(q)
    BY DEF Arrive, Open, InFlight, IInv, TypeOK
  <1>4. phase # "gone"
    BY DEF Arrive, phase
  <1>5. UNCHANGED <<phase, ClosedParts, DoneParts, errors, exit>>
        /\ pending' = [pending EXCEPT ![s] = Open(s)']
    BY <1>1, <1>3, RequestsMove DEF Arrive
  <1>6. pending[s] = Open(s)
    BY <1>1 DEF pending
  <1> QED BY <1>1, <1>2, <1>3, <1>4, <1>5, <1>6 DEF Graceful!Accept

\* Its handler returns.
LEMMA RespondStep ==
    ASSUME IInv, NEW r \in Requests, Respond(r)
    PROVE  request[r].server \in Parts /\ Graceful!Answer(r, request[r].server)
  <1> DEFINE s == request[r].server
  <1>1. s \in Parts /\ r \in Open(s)
    BY DEF Respond, IInv, TypeOK, Parts, Open, InFlight
  <1>2. Open(s)' = Open(s) \ {r} /\ \A q \in Parts \ {s} : Open(q)' = Open(q)
    BY DEF Respond, Open, InFlight, IInv, TypeOK
  <1>3. phase # "gone"
    BY DEF Respond, phase
  <1>4. UNCHANGED <<phase, ClosedParts, DoneParts, errors, exit>>
        /\ pending' = [pending EXCEPT ![s] = Open(s)']
    BY <1>1, <1>2, RequestsMove DEF Respond
  <1>5. pending[s] = Open(s)
    BY <1>1 DEF pending
  <1> QED BY <1>1, <1>2, <1>3, <1>4, <1>5 DEF Graceful!Answer

\* A store call moves a request that stays open.
LEMMA CallIsUnnoticed ==
    ASSUME IInv, NEW r \in Requests, CallStore(r)
    PROVE  UNCHANGED Graceful!vars
  <1>1. \A q \in Parts : Open(q)' = Open(q)
    BY DEF CallStore, Open, InFlight, IInv, TypeOK
  <1> QED BY <1>1 DEF CallStore, Graceful!vars, phase, Running, ClosedParts, DoneParts, pending

\* What main does with the process: the four steps Kubernetes notices.
LEMMA MainPhases ==
    ASSUME IInv
    PROVE  /\ NewFails => Graceful!Abort
           /\ StartReturns => Graceful!Serve \/ Graceful!Abort
           /\ Shutdown => Graceful!Announce
           /\ Return => Graceful!Leave
           /\ Signal => Graceful!Abort \/ UNCHANGED Graceful!vars
  <1>1. NewFails => Graceful!Abort
    BY PhaseOfMain, PartsKept DEF NewFails, Exit, Graceful!Abort, phase, Running
  <1>2. StartReturns => Graceful!Serve \/ Graceful!Abort
    <2>1. ASSUME StartReturns, startErrors # {}
          PROVE  Graceful!Abort
      BY <2>1, PhaseOfMain, PartsKept DEF StartReturns, Exit, Graceful!Abort, phase, Running
    <2>2. ASSUME StartReturns, startErrors = {}
          PROVE  Graceful!Serve
      <3>1. phase = "starting" /\ phase' = "serving"
        BY <2>2, PhaseOfMain DEF StartReturns, IInv, TypeOK, Phases, BeforeShutdown, phase, Running
      <3> QED BY <2>2, <3>1, PartsKept DEF StartReturns, Graceful!Serve
    <2> QED BY <2>1, <2>2
  <1>3. Shutdown => Graceful!Announce
    <2> SUFFICES ASSUME Shutdown
                 PROVE  Graceful!Announce
      OBVIOUS
    <2>1. phase = "serving" /\ phase' = "stopping"
      BY PhaseOfMain DEF Shutdown, IInv, TypeOK, phase, Running
    <2> QED BY <2>1, PartsKept DEF Shutdown, Graceful!Announce
  <1>4. Return => Graceful!Leave
    <2> SUFFICES ASSUME Return
                 PROVE  Graceful!Leave
      OBVIOUS
    <2>1. phase = "stopping" /\ phase' = "gone"
      BY PhaseOfMain DEF Return, Exit, phase, Running
    <2>2. DoneParts = Parts
      BY DEF Return, IInv, ProbeLast, DoneParts, Parts
    <2> QED BY <2>1, <2>2, PartsKept DEF Return, Exit, Graceful!Leave
  <1>5. Signal => Graceful!Abort \/ UNCHANGED Graceful!vars
    <2>1. ASSUME Signal, main = "waiting"
          PROVE  UNCHANGED Graceful!vars
      BY <2>1, Unnoticed DEF Signal
    <2>2. ASSUME Signal, main # "waiting"
          PROVE  Graceful!Abort
      BY <2>2, PhaseOfMain, PartsKept DEF Signal, Exit, Graceful!Abort, phase, Running
    <2> QED BY <2>1, <2>2
  <1> QED BY <1>1, <1>2, <1>3, <1>4, <1>5

LEMMA GracefulStep ==
    ASSUME IInv, [Next]_vars
    PROVE  [Graceful!Next]_(Graceful!vars)
  <1>1. ASSUME New \/ Start \/ Notify
        PROVE  UNCHANGED Graceful!vars
    BY <1>1, Unnoticed DEF New, Start, Notify
  <1>2. ASSUME CloseThree
        PROVE  UNCHANGED Graceful!vars
    <2> DEFINE told == Parts \ {"probe"}
    <2>1. \A p \in Parts : closer[p] = "none"
      BY <1>2 DEF CloseThree, IInv, NothingClosed
    <2>2. closer' = [p \in Parts |-> IF p \in told THEN "running" ELSE closer[p]]
      BY <1>2, <2>1 DEF CloseThree
    <2> QED BY <1>2, <2>1, <2>2, ToldIsNotClosed DEF CloseThree, IInv
  <1>3. ASSUME CloseProbe
        PROVE  UNCHANGED Graceful!vars
    <2>1. closer["probe"] = "none"
      BY <1>3 DEF CloseProbe, IInv, ProbeLast
    <2>2. closer' = [p \in Parts |-> IF p \in {"probe"} THEN "running" ELSE closer[p]]
      BY <1>3 DEF CloseProbe, IInv, TypeOK
    <2> QED BY <1>3, <2>1, <2>2, ToldIsNotClosed DEF CloseProbe, IInv, Parts, Servers
  <1>4. ASSUME NEW p \in Parts, CloserStep(p)
        PROVE  Graceful!Close(p) \/ Graceful!Finish(p)
    <2>1. CASE p \in Servers /\ CloseListener(p)
      BY <2>1, CloseStep DEF CloseListener
    <2>2. CASE p \in Servers /\ Drain(p)
      BY <2>2, FinishStep DEF Drain
    <2>3. CASE p = "store" /\ CloseStore
      BY <2>3, CloseStep DEF CloseStore
    <2>4. CASE p = "store" /\ StoreCloses
      <3>1. Open("store") = {}
        BY DEF IInv, TypeOK, Open, Servers
      <3> QED BY <2>4, <3>1, FinishStep DEF StoreCloses
    <2> QED BY <1>4, <2>1, <2>2, <2>3, <2>4 DEF CloserStep
  <1>5. ASSUME \/ Deadline \/ CollectorTick \/ Collected \/ CollectorStops
               \/ \E s \in Servers : Listen(s) \/ ServerFails(s)
        PROVE  UNCHANGED Graceful!vars
    BY <1>5, Unnoticed DEF Deadline, CollectorTick, Collected, CollectorStops, Listen, ServerFails
  <1>6. ASSUME UNCHANGED vars
        PROVE  UNCHANGED Graceful!vars
    BY <1>6, Unnoticed DEF vars
  <1>7. Servers \subseteq Parts
    BY DEF Parts
  <1>8. MainStep => [Graceful!Next]_(Graceful!vars)
    BY <1>1, <1>2, <1>3, MainPhases DEF MainStep, Graceful!Next
  <1>9. ASSUME NEW r \in Requests, CallStore(r) \/ Respond(r) \/ \E s \in Servers : Arrive(r, s)
        PROVE  [Graceful!Next]_(Graceful!vars)
    BY <1>7, <1>9, CallIsUnnoticed, RespondStep, ArriveStep DEF Graceful!Next
  <1> QED BY <1>4, <1>5, <1>6, <1>8, <1>9, MainPhases DEF Next, Graceful!Next

\* The process implements GracefulShutdown for any number of requests: readiness
\* changes before anything closes, what closed stays closed, the probe server is the
\* last, and the exit status tells whether a request was left (server.go:187-335).
THEOREM GracefulRefinement == Spec => ShutdownIsGraceful
  <1>1. Init => Graceful!Init
    BY DEF Init, Graceful!Init, phase, Running, ClosedParts, DoneParts, pending, Open, InFlight
  <1> QED BY <1>1, GracefulStep, ServerInvariance, PTL DEF Spec, ShutdownIsGraceful, Graceful!Spec

\* What GracefulShutdown remembers of the parts: a part is done when it was closed,
\* without an error when it had no request left, and it got none since.
GracefulInv ==
    /\ pending \in [Parts -> SUBSET Requests]
    /\ phase \in {"starting", "serving", "stopping", "gone"}
    /\ phase \in {"starting", "serving"} => ClosedParts = {} /\ exit = "none"
    /\ phase = "stopping" => exit = "none"
    /\ exit = "killed" => ClosedParts = {}
    /\ DoneParts \subseteq ClosedParts /\ ClosedParts \subseteq Parts
    /\ \A p \in DoneParts : p \notin errors => pending[p] = {}
    /\ exit = "ok" => phase = "gone" /\ DoneParts = Parts /\ errors = {}
    /\ Graceful!ProbeLast

\* GracefulShutdown keeps its promise: readiness first, the probe server last, and no
\* request lost by status 0 (Shutdown, server.go:264-335).
THEOREM GracefulKeepsPromise == ShutdownIsGraceful => []Graceful!Promise
  <1>1. Graceful!Init => GracefulInv
    BY DEF Graceful!Init, GracefulInv, Graceful!ProbeLast
  <1>2. GracefulInv /\ [Graceful!Next]_(Graceful!vars) => GracefulInv'
    <2> SUFFICES ASSUME GracefulInv, [Graceful!Next]_(Graceful!vars)
                 PROVE  GracefulInv'
      OBVIOUS
    <2>1. CASE Graceful!Serve \/ Graceful!Announce \/ Graceful!Leave \/ Graceful!Abort
      BY <2>1 DEF Graceful!Serve, Graceful!Announce, Graceful!Leave, Graceful!Abort, GracefulInv, Graceful!ProbeLast
    <2>2. ASSUME NEW p \in Parts, Graceful!Close(p)
          PROVE  GracefulInv'
      BY <2>2 DEF Graceful!Close, GracefulInv, Graceful!ProbeLast
    <2>3. ASSUME NEW p \in Parts, Graceful!Finish(p)
          PROVE  GracefulInv'
      BY <2>3 DEF Graceful!Finish, GracefulInv, Graceful!ProbeLast
    <2>4. ASSUME NEW p \in Parts, NEW r \in Requests, Graceful!Accept(r, p) \/ Graceful!Answer(r, p)
          PROVE  GracefulInv'
      <3>1. pending' \in [Parts -> SUBSET Requests]
        BY <2>4, SMT DEF Graceful!Accept, Graceful!Answer, GracefulInv
      <3>2. \A q \in DoneParts : q \notin errors => pending'[q] = {}
        BY <2>4 DEF Graceful!Accept, Graceful!Answer, GracefulInv
      <3>3. UNCHANGED <<phase, ClosedParts, DoneParts, errors, exit>>
        BY <2>4 DEF Graceful!Accept, Graceful!Answer
      <3> QED BY <3>1, <3>2, <3>3 DEF GracefulInv, Graceful!ProbeLast
    <2>5. CASE UNCHANGED Graceful!vars
      BY <2>5 DEF Graceful!vars, GracefulInv, Graceful!ProbeLast
    <2> QED BY <2>1, <2>2, <2>3, <2>4, <2>5 DEF Graceful!Next
  <1>3. GracefulInv => Graceful!Promise
    BY DEF GracefulInv, Graceful!Promise, Graceful!AnnouncedFirst, Graceful!NothingLost
  <1> QED BY <1>1, <1>2, <1>3, PTL DEF ShutdownIsGraceful, Graceful!Spec

\* And so does the process, for any number of requests.
THEOREM ProcessKeepsPromise == Spec => []Graceful!Promise
  BY GracefulRefinement, GracefulKeepsPromise, PTL

-----------------------------------------------------------------------------
(* Progress of the shutdown, but for the fairness of the scheduler. *)

\* How many steps a goroutine of Shutdown has left, and how many main has.
CloserLeft(point) == [none |-> 3, running |-> 2, draining |-> 1, done |-> 0][point]
MainLeft(point)   == [stopping |-> 3, closing |-> 2, last |-> 1, exited |-> 0][point]

\* What a step of a shutdown may do to those that carry it out.
Advances ==
    /\ main' # main => main' \in {"closing", "last", "exited"} /\ MainLeft(main') < MainLeft(main)
    /\ \A p \in Parts : closer'[p] # closer[p] => CloserLeft(closer'[p]) < CloserLeft(closer[p])
    /\ collector = "stopped" => collector' = "stopped"
    /\ ctx = "expired" => ctx' = "expired"

\* A shutdown never goes back: no signal, request, failing server or tick of the
\* collector undoes what it has done, so it is at most a dozen of its own steps from
\* the exit (Shutdown, server.go:264-335).
THEOREM ShutdownAdvances == Spec => [][StopRequested => Advances]_vars
  <1>1. IInv /\ [Next]_vars => [StopRequested => Advances]_vars
    <2> SUFFICES ASSUME IInv, Next, StopRequested
                 PROVE  Advances
      BY Zenon
    <2>0. TypeOK
      BY DEF IInv
    <2>1. CASE MainStep \/ Signal
      <3>1. CASE CloseThree
        BY <2>0, <3>1 DEF CloseThree, Advances, MainLeft, CloserLeft, TypeOK, IInv, NothingClosed, Parts, Servers
      <3>2. CASE CloseProbe
        BY <2>0, <3>2 DEF CloseProbe, Advances, MainLeft, CloserLeft, TypeOK, IInv, ProbeLast, Parts, Servers
      <3>3. CASE Return
        BY <3>3 DEF Return, Exit, Advances, MainLeft
      <3> QED BY <2>1, <3>1, <3>2, <3>3 DEF MainStep, StopRequested, New, NewFails, Start, StartReturns, Notify,
                                            Shutdown, Signal
    <2>2. ASSUME NEW p \in Parts, CloserStep(p)
          PROVE  Advances
      BY <2>0, <2>2 DEF CloserStep, CloseListener, Drain, CloseStore, StoreCloses, Advances, CloserLeft, TypeOK,
                        Parts, Servers
    <2>3. CASE \/ Deadline \/ CollectorTick \/ Collected \/ CollectorStops
               \/ \E s \in Servers : Listen(s) \/ ServerFails(s)
               \/ \E r \in Requests : CallStore(r) \/ Respond(r) \/ \E s \in Servers : Arrive(r, s)
      BY <2>3 DEF Deadline, CollectorTick, Collected, CollectorStops, Listen, ServerFails, CallStore, Respond,
                  Arrive, Advances
    <2> QED BY <2>1, <2>2, <2>3 DEF Next
  <1> QED BY <1>1, ServerInvariance, PTL DEF Spec

\* Whether the goroutine that closes part p can take its next step.
CloserCanGoOn(p) ==
    \/ closer[p] = "running"
    \/ closer[p] = "draining" /\ (p = "store" \/ Open(p) = {} \/ ctx = "expired")

\* From its announcement to the exit somebody can carry a shutdown on, whatever the
\* requests do: the deadline is still to pass, or the collector, a goroutine that closes
\* a part or main itself is not waiting (Shutdown, server.go:264-335).
NeverStuck ==
    StopRequested /\ ctx # "live" =>
        \/ main = "stopping" /\ collector \in {"collecting", "waiting", "stopped"}
        \/ main = "closing"  /\ \A p \in Parts \ {"probe"} : closer[p] = "done"
        \/ main = "last"     /\ closer["probe"] = "done"
        \/ \E p \in Parts : CloserCanGoOn(p)

\* There is a collector and a deadline, and whom main waits for was told to close.
SomeoneIsTold ==
    /\ main \notin {"new", "exited"} => collector # "none"
    /\ StopRequested => ctx # "none"
    /\ main = "closing" => \A p \in Parts \ {"probe"} : closer[p] # "none"
    /\ main = "last" => closer["probe"] # "none"

\* No shutdown is stuck: nothing it waits for waits for a request that hangs once the
\* deadline has passed, nor for another part of the shutdown (server.go:264-335).
THEOREM ShutdownIsNeverStuck == Spec => []NeverStuck
  <1>1. Init => SomeoneIsTold
    BY DEF Init, SomeoneIsTold, StopRequested
  <1>2. IInv /\ SomeoneIsTold /\ [Next]_vars => SomeoneIsTold'
    <2> SUFFICES ASSUME IInv, SomeoneIsTold, [Next]_vars
                 PROVE  SomeoneIsTold'
      OBVIOUS
    <2>0. TypeOK
      BY DEF IInv
    <2>1. CASE MainStep \/ Signal
      BY <2>0, <2>1 DEF MainStep, New, NewFails, Start, StartReturns, Notify, Shutdown, CloseThree, CloseProbe,
                        Return, Signal, Exit, SomeoneIsTold, StopRequested, TypeOK, Parts, Servers
    <2>2. ASSUME NEW p \in Parts, CloserStep(p)
          PROVE  SomeoneIsTold'
      BY <2>0, <2>2 DEF CloserStep, CloseListener, Drain, CloseStore, StoreCloses, SomeoneIsTold, StopRequested,
                        TypeOK, Parts, Servers
    <2>3. CASE \/ Deadline \/ CollectorTick \/ Collected \/ CollectorStops
               \/ \E s \in Servers : Listen(s) \/ ServerFails(s)
               \/ \E r \in Requests : CallStore(r) \/ Respond(r) \/ \E s \in Servers : Arrive(r, s)
               \/ UNCHANGED vars
      BY <2>3 DEF Deadline, CollectorTick, Collected, CollectorStops, Listen, ServerFails, CallStore, Respond,
                  Arrive, vars, SomeoneIsTold, StopRequested
    <2> QED BY <2>1, <2>2, <2>3 DEF Next
  <1>3. IInv /\ SomeoneIsTold => NeverStuck
    <2> SUFFICES ASSUME IInv, SomeoneIsTold, StopRequested, ctx # "live",
                        \A p \in Parts : ~CloserCanGoOn(p)
                 PROVE  \/ main = "stopping" /\ collector \in {"collecting", "waiting", "stopped"}
                        \/ main = "closing" /\ \A p \in Parts \ {"probe"} : closer[p] = "done"
                        \/ main = "last" /\ closer["probe"] = "done"
      BY DEF NeverStuck
    <2>1. ctx = "expired"
      BY DEF SomeoneIsTold, IInv, TypeOK
    <2>2. \A p \in Parts : closer[p] \in {"none", "done"}
      BY <2>1 DEF CloserCanGoOn, IInv, TypeOK
    <2>3. collector \in {"collecting", "waiting", "stopped"}
      BY DEF SomeoneIsTold, StopRequested, IInv, TypeOK
    <2> QED BY <2>2, <2>3 DEF SomeoneIsTold, StopRequested, Parts, Servers
  <1> QED BY <1>1, <1>2, <1>3, ServerInvariance, PTL DEF Spec
=============================================================================
