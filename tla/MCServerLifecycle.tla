-------------------------- MODULE MCServerLifecycle --------------------------
(* Finite instances of ServerLifecycle for TLC. *)
EXTENDS ServerLifecycle

CONSTANTS r1, r2

OneRequest  == {r1}
TwoRequests == {r1, r2}
=============================================================================
