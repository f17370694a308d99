---------------------------- MODULE MCSpscBytes ----------------------------
(* Small instances of SpscBytes for TLC. *)
EXTENDS SpscBytes, TLC
=============================================================================
