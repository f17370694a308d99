------------------------- MODULE MCBroadcastBytes -------------------------
(* Small instances of BroadcastBytes for TLC. *)
EXTENDS BroadcastBytes
=============================================================================
