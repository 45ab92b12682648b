---------------------------- MODULE MCLockService ----------------------------
(* Finite instances of LockService for TLC. *)
EXTENDS LockService

CONSTANTS r1, r2, r3, p1, b1, b2

TwoRequests   == {r1, r2}
ThreeRequests == {r1, r2, r3}
OneProject    == {p1}
TwoBranches   == {b1, b2}
NoProjects    == {}
=============================================================================
