---------------------------- MODULE MCOlricNode ----------------------------
(* Finite instances of OlricNode for TLC: every field around its limits. *)
EXTENDS OlricNode

CONSTANTS n0, n1, n2

TwoPeers == {n1, n2}

LimitConfigs ==
    [joinAddrs : {{}, {n1}}, replicationFactor : 0..2, partitionCount : {-1, 0, 3},
     memberCountQuorum : 0..3, joinRetryInterval : 0..1, maxJoinAttempts : 0..2,
     otherChecks : BOOLEAN]
=============================================================================
