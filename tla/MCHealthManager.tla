--------------------------- MODULE MCHealthManager ---------------------------
(* Finite instances of HealthManager for TLC. *)
EXTENDS HealthManager, TLC

CONSTANTS s1, q1, q2, q3

NoProbes      == {}
OneStartup    == {s1}
OneReadiness  == {q1}
ThreeReadiness == {q1, q2, q3}
OwnCheckers     == {"servers", "readiness"}
ThreeCheckers   == {"servers", "readiness", "olric-cluster"}

ProbeSymmetry == Permutations(ThreeReadiness)
=============================================================================
