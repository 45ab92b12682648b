------------------------------ MODULE OlricNode ------------------------------
(***************************************************************************)
(* How the embedded Olric node starts and what is reported of it: Load and *)
(* Validate (internal/config, internal/store/config.go), NewOlricStore and *)
(* waitForCluster (internal/store/olric.go), and the coordinator gauge      *)
(* collect sets (internal/store/metrics.go).                               *)
(*                                                                         *)
(* The initial states are the configurations an operator can write.  Olric *)
(* itself is external: New, Start and NewDMap may fail, Members returns    *)
(* the members this node sees at the moment, or an error, and members come *)
(* and go at any time.                                                     *)
(***************************************************************************)
EXTENDS FiniteSets, Integers

CONSTANTS
    Self,      \* this node
    Peers,     \* the nodes that may join it
    Configs,   \* the settings of Olric that flags, environment and file can give
    WordSize   \* the number of values of uint64, 2^64 in the program

MaxInt == (WordSize \div 2) - 1  \* the largest int
MinInt == -(WordSize \div 2)     \* the smallest

ASSUME WordAssumption == WordSize \in Nat /\ WordSize >= 2 /\ WordSize % 2 = 0
ASSUME NodesAssumption == Self \notin Peers /\ IsFiniteSet(Peers)

\* otherChecks: the checks on addresses, ports, modes, names and periods pass.
Setting == [joinAddrs : SUBSET Peers, replicationFactor : Int, partitionCount : MinInt..MaxInt,
            memberCountQuorum : Int, joinRetryInterval : Int, maxJoinAttempts : Int,
            otherChecks : BOOLEAN]

ASSUME ConfigsAssumption == Configs \subseteq Setting

Nodes == Peers \cup {Self}

VARIABLES
    setting,      \* the settings as they were written
    config,       \* the OlricConfig that Load makes of them
    main,         \* how far the start is
    failure,      \* why it failed, or "none"
    olric,        \* the Olric instance
    attempts,     \* waitForCluster's counter
    members,      \* the members this node sees
    coordinator,  \* the member that is the coordinator
    gauge,        \* ClusterCoordinator, a gauge of OlricMetrics
    (* history variables: no step reads them *)
    counted,      \* the member count on which the start went on
    best          \* the highest member count a tick read

vars == <<setting, config, main, failure, olric, attempts, members, coordinator, gauge, counted, best>>
cluster == <<members, coordinator>>
history == <<counted, best>>

TypeOK ==
    /\ setting \in Configs
    /\ config.partitionCount \in 0..(WordSize - 1)
    /\ config = [setting EXCEPT !.partitionCount = config.partitionCount]
    /\ main \in {"new", "loaded", "starting", "connected", "waiting", "joined", "ready",
                 "failed", "panicked"}
    /\ failure \in {"none", "config", "create", "start", "join", "dmap"}
    /\ olric \in {"none", "running", "failed", "stopped"}
    /\ attempts \in Nat
    /\ members \subseteq Nodes /\ Self \in members
    /\ coordinator \in members
    /\ gauge \in {0, 1}
    /\ counted \in Nat /\ best \in Nat

-----------------------------------------------------------------------------
(* The configuration. *)

\* The conversion of an int to uint64 keeps the bits.
ToUint64(i) == i % WordSize

\* Mutation: the count is copied.
LoadUnconverted(s) == s

\* uint64(viper.GetInt(...)); the other fields are copied.
Load(s) == [s EXCEPT !.partitionCount = ToUint64(@)]

\* Mutation: a quorum without addresses to join is accepted.
ValidWithoutPeers(c) ==
    /\ c.otherChecks
    /\ c.replicationFactor >= 1 /\ c.partitionCount >= 1 /\ c.memberCountQuorum >= 1
    /\ c.joinRetryInterval > 0 /\ c.maxJoinAttempts >= 1
    /\ c.joinAddrs # {} => c.replicationFactor >= 2

\* Mutation: an interval of zero is accepted.
ValidWithZeroInterval(c) ==
    /\ c.otherChecks
    /\ c.replicationFactor >= 1 /\ c.partitionCount >= 1 /\ c.memberCountQuorum >= 1
    /\ c.joinRetryInterval >= 0 /\ c.maxJoinAttempts >= 1
    /\ c.memberCountQuorum > 1 => c.joinAddrs # {}
    /\ c.joinAddrs # {} => c.replicationFactor >= 2

Valid(c) ==
    /\ c.otherChecks
    /\ c.replicationFactor >= 1 /\ c.partitionCount >= 1 /\ c.memberCountQuorum >= 1
    /\ c.joinRetryInterval > 0 /\ c.maxJoinAttempts >= 1
    /\ c.memberCountQuorum > 1 => c.joinAddrs # {}
    /\ c.joinAddrs # {} => c.replicationFactor >= 2

SingleNode == config.joinAddrs = {}

Init ==
    /\ setting \in Configs
    /\ config = Load(setting)
    /\ main = "new" /\ failure = "none"
    /\ olric = "none"
    /\ attempts = 0
    /\ members = {Self} /\ coordinator = Self
    /\ gauge = 0
    /\ counted = 0 /\ best = 0

-----------------------------------------------------------------------------
(* The start. *)

Alive == main \notin {"failed", "panicked"}

\* Load or NewOlricStore returns an error; main returns it and the process ends.
Fail(why) == main' = "failed" /\ failure' = why

\* Config.Validate, in Load.
Validate ==
    /\ main = "new"
    /\ IF Valid(config) THEN main' = "loaded" /\ UNCHANGED failure ELSE Fail("config")
    /\ UNCHANGED <<setting, config, olric, attempts, cluster, gauge, history>>

\* NewOlricStore validates again and goes up to the goroutine of Olric's Start.
Create ==
    /\ main = "loaded"
    /\ \/ Valid(config) /\ main' = "starting" /\ olric' = "running" /\ UNCHANGED failure
       \/ Valid(config) /\ Fail("create") /\ UNCHANGED olric
       \/ ~Valid(config) /\ Fail("config") /\ UNCHANGED olric
    /\ UNCHANGED <<setting, config, attempts, cluster, gauge, history>>

\* Olric's Start returns, at once or later; only startChan knows.
OlricFails ==
    /\ Alive /\ olric = "running"
    /\ olric' = "failed"
    /\ UNCHANGED <<setting, config, main, failure, attempts, cluster, gauge, history>>

\* The select on startChan and 500 ms: with both ready it takes either.
Started ==
    /\ main = "starting"
    /\ \/ main' = "connected" /\ UNCHANGED failure
       \/ olric = "failed" /\ Fail("start")
    /\ UNCHANGED <<setting, config, olric, attempts, cluster, gauge, history>>

\* A single node does not wait; time.NewTicker panics unless its interval is positive.
WaitForCluster ==
    /\ main = "connected"
    /\ IF SingleNode
       THEN main' = "joined" /\ counted' = 1
       ELSE /\ main' = IF config.joinRetryInterval > 0 THEN "waiting" ELSE "panicked"
            /\ UNCHANGED counted
    /\ UNCHANGED <<setting, config, failure, olric, attempts, cluster, gauge, best>>

\* What Members tells a tick: an error counts as no member.
MemberCounts == {0, Cardinality(members)}

\* Mutation: the counter is a new variable in every tick.
TickUncounted ==
    /\ main = "waiting"
    /\ \E n \in MemberCounts :
         /\ UNCHANGED attempts
         /\ best' = IF n > best THEN n ELSE best
         /\ IF n >= config.memberCountQuorum
            THEN main' = "joined" /\ counted' = n /\ UNCHANGED <<failure, olric>>
            ELSE /\ IF attempts + 1 >= config.maxJoinAttempts
                    THEN Fail("join") /\ olric' \in {"stopped", olric}
                    ELSE UNCHANGED <<main, failure, olric>>
                 /\ UNCHANGED counted
    /\ UNCHANGED <<setting, config, cluster, gauge>>

\* Mutation: the attempts are looked at before the members.
TickAttemptsFirst ==
    /\ main = "waiting"
    /\ \E n \in MemberCounts :
         /\ attempts' = attempts + 1
         /\ best' = IF n > best THEN n ELSE best
         /\ IF attempts' >= config.maxJoinAttempts
            THEN Fail("join") /\ olric' \in {"stopped", olric} /\ UNCHANGED counted
            ELSE /\ IF n >= config.memberCountQuorum
                    THEN main' = "joined" /\ counted' = n
                    ELSE UNCHANGED <<main, counted>>
                 /\ UNCHANGED <<failure, olric>>
    /\ UNCHANGED <<setting, config, cluster, gauge>>

\* One tick of waitForCluster.  When it gives up NewOlricStore shuts Olric down, and
\* goes on whether or not that succeeds.
Tick ==
    /\ main = "waiting"
    /\ \E n \in MemberCounts :
         /\ attempts' = attempts + 1
         /\ best' = IF n > best THEN n ELSE best
         /\ IF n >= config.memberCountQuorum
            THEN main' = "joined" /\ counted' = n /\ UNCHANGED <<failure, olric>>
            ELSE /\ IF attempts' >= config.maxJoinAttempts
                    THEN Fail("join") /\ olric' \in {"stopped", olric}
                    ELSE UNCHANGED <<main, failure, olric>>
                 /\ UNCHANGED counted
    /\ UNCHANGED <<setting, config, cluster, gauge>>

\* getDMap, eagerly: when NewDMap fails Olric is left as it is.
CreateDMap ==
    /\ main = "joined"
    /\ \/ main' = "ready" /\ UNCHANGED failure
       \/ Fail("dmap")
    /\ UNCHANGED <<setting, config, olric, attempts, cluster, gauge, history>>

\* Nodes join and leave, or this one is cut off from them; one of those it sees is
\* the coordinator.
MembersChange ==
    /\ Alive /\ olric = "running"
    /\ members' \in {ns \in SUBSET Nodes : Self \in ns} /\ coordinator' \in members'
    /\ UNCHANGED <<setting, config, main, failure, olric, attempts, gauge, history>>

-----------------------------------------------------------------------------
(* The collector of the metrics, which New starts when the store is there. *)

\* The gauge is set if one of the members, whichever, is the coordinator; nothing sets
\* it back.
Collect ==
    /\ main = "ready"
    /\ \/ coordinator \in members /\ gauge' = 1
       \/ UNCHANGED gauge  \* Stats or Members failed
    /\ UNCHANGED <<setting, config, main, failure, olric, attempts, cluster, history>>

MainStep == Validate \/ Create \/ Started \/ WaitForCluster \/ Tick \/ CreateDMap

Next == MainStep \/ OlricFails \/ MembersChange \/ Collect

Spec == Init /\ [][Next]_vars

\* main is scheduled, the ticker ticks, and Olric's New, NewDMap and Members return,
\* with a result or an error.  Nothing is assumed of the other nodes.
FairSpec == Spec /\ WF_vars(MainStep)

-----------------------------------------------------------------------------
(* Properties. *)

\* A node serves only after it counted as many members as its quorum, although a
\* single node counts nobody: there Validate must have refused every quorum but 1
\* (waitForCluster, olric.go:167-206, and Validate, config.go:241).
StartedWithQuorum == main = "ready" => counted >= config.memberCountQuorum

\* No configuration that passes Validate makes the ticker of waitForCluster panic
\* (olric.go:175, store/config.go:209).
NoTickerPanic == main # "panicked"

\* waitForCluster gives up only after its last attempt, and no attempt, the last one
\* included, had counted the quorum (olric.go:200-211).
GivesUpAfterAllAttempts ==
    failure = "join" => attempts = config.maxJoinAttempts /\ best < config.memberCountQuorum

\* "partition count must be at least 1" (store/config.go:194): a configuration that
\* Validate accepted was written with one partition at least.
PartitionCountAtLeastOne ==
    main # "new" /\ failure # "config" => setting.partitionCount >= 1

\* The start ends, whether or not the other nodes come (NewOlricStore, olric.go:27).
StartupEnds == <>(main \in {"ready", "failed"})

\* "1 if this node is coordinator, 0 otherwise" (metrics.go:62): the gauge becomes 1
\* only when this node is the coordinator at that moment.
CoordinatorGaugeIsOwn ==
    [][gauge = 0 /\ gauge' = 1 => coordinator = Self]_vars
=============================================================================
