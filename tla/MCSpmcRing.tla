----------------------------- MODULE MCSpmcRing -----------------------------
(* Small instances of SpmcRing for TLC. *)
EXTENDS SpmcRing

HandleSymmetry == Permutations(Consumers) \union Permutations(Slots)
=============================================================================
