------------------------------ MODULE MCBackups ------------------------------
(* Instances of Backups for TLC. *)
EXTENDS Backups, TLC

CONSTANTS j1, j2, j3

Requests == Permutations(Jobs)
=============================================================================
