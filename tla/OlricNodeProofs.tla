--------------------------- MODULE OlricNodeProofs ---------------------------
(***************************************************************************)
(* The invariants of OlricNode for every set of configurations, every      *)
(* number of other nodes and every word size.                              *)
(*                                                                         *)
(* The properties of a start that ended rest on what holds while it runs:  *)
(* IInv adds what Validate let through, what waitForCluster has seen so    *)
(* far, and that a start that gave a reason has failed.                    *)
(***************************************************************************)
EXTENDS OlricNode, FiniteSetTheorems, TLAPS

Past == {"joined", "ready"}
Before == {"new", "loaded", "starting", "connected"}

StartInv ==
    /\ main \notin {"new", "failed"} => Valid(config)
    /\ main \in Before => attempts = 0 /\ best = 0
    /\ main = "waiting" => attempts < config.maxJoinAttempts /\ best < config.memberCountQuorum
    /\ main \in Past => counted >= config.memberCountQuorum

FailureInv == failure # "none" => main = "failed"

IInv ==
    /\ TypeOK
    /\ StartInv
    /\ FailureInv
    /\ NoTickerPanic
    /\ GivesUpAfterAllAttempts

-----------------------------------------------------------------------------
(* Facts about the parts. *)

\* A partition count is a word after its conversion (config.go:150).
LEMMA Converted ==
    ASSUME NEW i \in MinInt..MaxInt
    PROVE  ToUint64(i) \in 0..(WordSize - 1)
  BY WordAssumption DEF MinInt, MaxInt, ToUint64

\* What Validate let through is a setting with its count converted.
LEMMA ConfigType ==
    ASSUME TypeOK
    PROVE  /\ setting \in Setting
           /\ config.memberCountQuorum \in Int /\ config.maxJoinAttempts \in Int
           /\ config.joinRetryInterval \in Int /\ config.joinAddrs \in SUBSET Peers
  BY ConfigsAssumption DEF TypeOK, Setting

\* A tick never counts anything but a number of members (Members, olric.go:187).
LEMMA CountType ==
    ASSUME TypeOK
    PROVE  Cardinality(members) \in Nat
  <1>1. IsFiniteSet(Nodes)
    BY NodesAssumption, FS_AddElement DEF Nodes
  <1> QED BY <1>1, FS_Subset, FS_CardinalityType DEF TypeOK

LEMMA InitInv == Init => IInv
  <1> SUFFICES ASSUME Init PROVE IInv
    OBVIOUS
  <1>1. setting \in Setting
    BY ConfigsAssumption DEF Init
  <1>2. setting.partitionCount \in MinInt..MaxInt
    BY <1>1 DEF Setting
  <1>3. config = [setting EXCEPT !.partitionCount = ToUint64(setting.partitionCount)]
    BY DEF Init, Load
  <1>4. config.partitionCount = ToUint64(setting.partitionCount)
    BY <1>1, <1>3 DEF Setting
  <1>5. config.partitionCount \in 0..(WordSize - 1)
    BY <1>2, <1>4, Converted
  <1>6. TypeOK
    <2>1. config = [setting EXCEPT !.partitionCount = config.partitionCount]
      BY <1>3, <1>4
    <2>2. setting \in Configs /\ members \subseteq Nodes /\ Self \in members /\ coordinator \in members
      BY DEF Init, Nodes
    <2> QED BY <1>5, <2>1, <2>2 DEF Init, TypeOK
  <1>7. StartInv /\ FailureInv /\ NoTickerPanic /\ GivesUpAfterAllAttempts
    BY DEF Init, StartInv, FailureInv, NoTickerPanic, GivesUpAfterAllAttempts, Before, Past
  <1> QED BY <1>6, <1>7 DEF IInv

-----------------------------------------------------------------------------
(* Steps. *)

\* A tick that goes on, goes up, or gives up (waitForCluster, olric.go:183-211).
LEMMA TickStep ==
    ASSUME IInv, Tick
    PROVE  IInv'
  <1> USE DEF IInv
  <1>1. /\ Cardinality(members) \in Nat /\ attempts \in Nat /\ best \in Nat
        /\ config.memberCountQuorum \in Int /\ config.maxJoinAttempts \in Int
    BY ConfigType, CountType DEF TypeOK
  <1>2. PICK n \in {0, Cardinality(members)} :
          /\ attempts' = attempts + 1
          /\ best' = IF n > best THEN n ELSE best
          /\ IF n >= config.memberCountQuorum
             THEN main' = "joined" /\ counted' = n /\ UNCHANGED <<failure, olric>>
             ELSE /\ IF attempts' >= config.maxJoinAttempts
                     THEN Fail("join") /\ olric' \in {"stopped", olric}
                     ELSE UNCHANGED <<main, failure, olric>>
                  /\ UNCHANGED counted
    BY DEF Tick, MemberCounts
  <1>3. /\ main = "waiting" /\ UNCHANGED <<setting, config, members, coordinator, gauge>>
        /\ n \in Nat
    BY <1>1, <1>2 DEF Tick, cluster
  <1>4. /\ attempts < config.maxJoinAttempts /\ best < config.memberCountQuorum
        /\ failure = "none" /\ Valid(config)
    BY <1>3 DEF StartInv, FailureInv, TypeOK
  <1>5. TypeOK'
    BY <1>1, <1>2, <1>3 DEF TypeOK, Fail
  <1>6. StartInv'
    BY <1>1, <1>2, <1>3, <1>4 DEF StartInv, Fail, Before, Past, Valid
  <1>7. FailureInv'
    BY <1>2, <1>3, <1>4 DEF FailureInv, Fail
  <1>8. NoTickerPanic'
    BY <1>2, <1>3 DEF NoTickerPanic, Fail
  <1>9. GivesUpAfterAllAttempts'
    BY <1>1, <1>2, <1>3, <1>4 DEF GivesUpAfterAllAttempts, Fail
  <1> QED BY <1>5, <1>6, <1>7, <1>8, <1>9

\* The other steps of main change one stage of the start each.
LEMMA MainStepInv ==
    ASSUME IInv, Validate \/ Create \/ Started \/ WaitForCluster \/ CreateDMap
    PROVE  IInv'
  <1> USE DEF IInv
  <1>0. config.memberCountQuorum \in Int /\ config.maxJoinAttempts \in Int
    BY ConfigType
  <1>1. CASE Validate
    <2>1. TypeOK'
      BY <1>1 DEF Validate, Fail, TypeOK, cluster, history
    <2>2. StartInv' /\ FailureInv' /\ NoTickerPanic' /\ GivesUpAfterAllAttempts'
      BY <1>1 DEF Validate, Fail, StartInv, FailureInv, NoTickerPanic, GivesUpAfterAllAttempts,
                  Before, Past, cluster, history, Valid
    <2> QED BY <2>1, <2>2
  <1>2. CASE Create
    <2>1. TypeOK'
      BY <1>2 DEF Create, Fail, TypeOK, cluster, history
    <2>2. StartInv' /\ FailureInv' /\ NoTickerPanic' /\ GivesUpAfterAllAttempts'
      BY <1>2 DEF Create, Fail, StartInv, FailureInv, NoTickerPanic, GivesUpAfterAllAttempts,
                  Before, Past, cluster, history, Valid
    <2> QED BY <2>1, <2>2
  <1>3. CASE Started
    <2>1. TypeOK'
      BY <1>3 DEF Started, Fail, TypeOK, cluster, history
    <2>2. StartInv' /\ FailureInv' /\ NoTickerPanic' /\ GivesUpAfterAllAttempts'
      BY <1>3 DEF Started, Fail, StartInv, FailureInv, NoTickerPanic, GivesUpAfterAllAttempts,
                  Before, Past, cluster, history, Valid
    <2> QED BY <2>1, <2>2
  <1>4. CASE WaitForCluster
    <2>1. Valid(config) /\ attempts = 0 /\ best = 0 /\ failure = "none"
      BY <1>4 DEF WaitForCluster, StartInv, FailureInv, Before, TypeOK
    <2>2. main' \in {"joined", "waiting"}
      BY <1>4, <2>1 DEF WaitForCluster, Valid
    <2>3. TypeOK'
      BY <1>4, <2>2 DEF WaitForCluster, TypeOK, cluster
    <2>4. main' = "joined" => counted' >= config.memberCountQuorum
      BY <1>0, <1>4, <2>1 DEF WaitForCluster, Valid, SingleNode
    <2>5. StartInv'
      BY <1>0, <1>4, <2>1, <2>2, <2>4 DEF WaitForCluster, StartInv, Before, Past, Valid
    <2>6. FailureInv' /\ NoTickerPanic' /\ GivesUpAfterAllAttempts'
      BY <1>4, <2>1, <2>2 DEF WaitForCluster, FailureInv, NoTickerPanic, GivesUpAfterAllAttempts
    <2> QED BY <2>3, <2>5, <2>6
  <1>5. CASE CreateDMap
    <2>1. TypeOK'
      BY <1>5 DEF CreateDMap, Fail, TypeOK, cluster, history
    <2>2. StartInv' /\ FailureInv' /\ NoTickerPanic' /\ GivesUpAfterAllAttempts'
      BY <1>5 DEF CreateDMap, Fail, StartInv, FailureInv, NoTickerPanic, GivesUpAfterAllAttempts,
                  Before, Past, cluster, history, Valid
    <2> QED BY <2>1, <2>2
  <1> QED BY <1>1, <1>2, <1>3, <1>4, <1>5

\* Olric, the other nodes and the collector leave the start alone.
LEMMA OtherStepInv ==
    ASSUME IInv, OlricFails \/ MembersChange \/ Collect \/ UNCHANGED vars
    PROVE  IInv'
  <1> USE DEF IInv
  <1>1. CASE OlricFails
    <2>1. failure = "none"
      BY <1>1 DEF OlricFails, FailureInv, Alive, TypeOK
    <2>2. TypeOK' /\ StartInv' /\ NoTickerPanic' /\ GivesUpAfterAllAttempts'
      BY <1>1 DEF OlricFails, TypeOK, StartInv, NoTickerPanic, GivesUpAfterAllAttempts,
                  Before, Past, cluster, history, Valid
    <2>3. FailureInv'
      BY <1>1, <2>1 DEF OlricFails, FailureInv
    <2> QED BY <2>2, <2>3
  <1>2. CASE MembersChange
    <2>1. TypeOK'
      BY <1>2 DEF MembersChange, TypeOK, history
    <2>2. StartInv' /\ FailureInv' /\ NoTickerPanic' /\ GivesUpAfterAllAttempts'
      BY <1>2 DEF MembersChange, StartInv, FailureInv, NoTickerPanic,
                  GivesUpAfterAllAttempts, Before, Past, history, Valid
    <2> QED BY <2>1, <2>2
  <1>3. CASE Collect
    <2>1. TypeOK'
      BY <1>3 DEF Collect, TypeOK, cluster, history
    <2>2. StartInv' /\ FailureInv' /\ NoTickerPanic' /\ GivesUpAfterAllAttempts'
      BY <1>3 DEF Collect, StartInv, FailureInv, NoTickerPanic, GivesUpAfterAllAttempts,
                  Before, Past, cluster, history, Valid
    <2> QED BY <2>1, <2>2
  <1>4. CASE UNCHANGED vars
    BY <1>4 DEF vars, TypeOK, StartInv, FailureInv,
                NoTickerPanic, GivesUpAfterAllAttempts, Before, Past, Valid
  <1> QED BY <1>1, <1>2, <1>3, <1>4

\* Every reachable state of a start is one of IInv.
THEOREM Invariance == Spec => []IInv
  <1>1. IInv /\ [Next]_vars => IInv'
    BY TickStep, MainStepInv, OtherStepInv DEF Next, MainStep
  <1> QED BY <1>1, InitInv, PTL DEF Spec

-----------------------------------------------------------------------------
(* The properties. *)

\* Every variable has its type: the converted count fits a word, and this node is
\* always among the members it sees.
THEOREM TypeCorrect == Spec => []TypeOK
  BY Invariance, PTL DEF IInv

\* A node serves only after it counted its quorum; a single node does because
\* Validate refuses every other quorum for it (olric.go:167-206, config.go:241).
THEOREM QuorumBeforeServing == Spec => []StartedWithQuorum
  <1>1. IInv => StartedWithQuorum
    BY DEF IInv, StartInv, StartedWithQuorum, Past
  <1> QED BY <1>1, Invariance, PTL

\* Whatever Validate accepts, the ticker of waitForCluster is made (olric.go:175).
THEOREM TickerNeverPanics == Spec => []NoTickerPanic
  BY Invariance, PTL DEF IInv

\* A start gives up after exactly the configured attempts, none of which had counted
\* the quorum (olric.go:200-211).
THEOREM GivesUpHonestly == Spec => []GivesUpAfterAllAttempts
  BY Invariance, PTL DEF IInv

-----------------------------------------------------------------------------
(* Progress, but for the fairness of the scheduler. *)

\* How many steps of main the start has left at most.
StepsLeft ==
    LET attemptsLeft == IF config.maxJoinAttempts > attempts THEN config.maxJoinAttempts - attempts ELSE 0 IN
    CASE main = "new"       -> attemptsLeft + 5
      [] main = "loaded"    -> attemptsLeft + 4
      [] main = "starting"  -> attemptsLeft + 3
      [] main = "connected" -> attemptsLeft + 2
      [] main = "waiting"   -> attemptsLeft + 1
      [] main = "joined"    -> 1
      [] OTHER              -> 0

\* For every configuration the start is over after maxJoinAttempts + 5 steps of main at
\* most, whatever Olric and the other nodes do meanwhile (NewOlricStore, olric.go:27-107,
\* waitForCluster, 167-213).
THEOREM StartIsBounded ==
    Spec => [][/\ StepsLeft \in Nat
               /\ MainStep => StepsLeft' < StepsLeft
               /\ ~MainStep => StepsLeft' = StepsLeft]_vars
  <1> DEFINE Bounded == /\ StepsLeft \in Nat
                        /\ MainStep => StepsLeft' < StepsLeft
                        /\ ~MainStep => StepsLeft' = StepsLeft
  <1>1. IInv /\ [Next]_vars => [Bounded]_vars
    <2> SUFFICES ASSUME IInv, Next
                 PROVE  Bounded
      OBVIOUS
    <2>1. attempts \in Nat /\ config.maxJoinAttempts \in Int
      BY ConfigType DEF IInv, TypeOK
    <2>2. StepsLeft \in Nat
      BY <2>1 DEF StepsLeft
    <2>3. MainStep => StepsLeft' < StepsLeft
      <3>1. CASE Validate \/ Create \/ Started \/ CreateDMap
        BY <2>1, <3>1 DEF Validate, Create, Started, CreateDMap, Fail, StepsLeft
      <3>2. CASE WaitForCluster
        BY <2>1, <3>2 DEF WaitForCluster, StepsLeft
      <3>3. CASE Tick
        <4>1. main = "waiting" /\ attempts < config.maxJoinAttempts
          BY <3>3 DEF Tick, IInv, StartInv
        <4>2. attempts' = attempts + 1 /\ config' = config /\ main' \in {"waiting", "joined", "failed"}
          BY <3>3, <4>1 DEF Tick, Fail
        <4>3. main' = "waiting" => attempts' < config.maxJoinAttempts
          BY <2>1, <3>3, <4>1, <4>2 DEF Tick, Fail
        <4> QED BY <2>1, <4>1, <4>2, <4>3 DEF StepsLeft
      <3> QED BY <3>1, <3>2, <3>3 DEF MainStep
    <2>4. ~MainStep => UNCHANGED <<main, attempts, config>>
      BY DEF Next, OlricFails, MembersChange, Collect
    <2> QED BY <2>2, <2>3, <2>4 DEF StepsLeft
  <1> QED BY <1>1, Invariance, PTL DEF Spec
=============================================================================
