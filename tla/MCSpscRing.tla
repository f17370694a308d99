----------------------------- MODULE MCSpscRing -----------------------------
(* Small instances of SpscRing for TLC. *)
EXTENDS SpscRing

=============================================================================
