-------------------------- MODULE MCAnchoredBytes --------------------------
(* Small instances of AnchoredBytes for TLC. *)
EXTENDS AnchoredBytes

\* In a ring of 32 bytes: the third record wraps, over the first two.
OneLap == <<{0}, {8}, {8}, {0, 8}>>
=============================================================================
