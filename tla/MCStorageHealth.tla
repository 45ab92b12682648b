---------------------------- MODULE MCStorageHealth ----------------------------
(* Finite instances of StorageHealth for TLC. *)
EXTENDS StorageHealth

CONSTANTS c1, c2

TwoStamps == {1, 2}
TwoChecks == {c1, c2}
=============================================================================
