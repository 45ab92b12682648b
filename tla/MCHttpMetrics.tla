---------------------------- MODULE MCHttpMetrics ----------------------------
(* Finite instances of HttpMetrics for TLC. *)
EXTENDS HttpMetrics, TLC

CONSTANTS r1, r2, p1, p2, p3, none

TwoRequests == {r1, r2}
ThreeProbes == {p1, p2, p3}
TwoPaths    == {"/lock/a", "/lock/b"}
LockPattern == {"/lock/{project}"}
LockRoute   == [p \in TwoPaths |-> "/lock/{project}"]
TwoAnswers  == {200, 503}

\* Requests and probes are interchangeable.
RequestSymmetry == Permutations(TwoRequests) \cup Permutations(ThreeProbes)
=============================================================================
