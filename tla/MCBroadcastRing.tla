-------------------------- MODULE MCBroadcastRing --------------------------
(* Small instances of BroadcastRing for TLC. *)
EXTENDS BroadcastRing
=============================================================================
