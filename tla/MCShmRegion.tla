---------------------------- MODULE MCShmRegion ----------------------------
(* ShmRegion on small instances. *)
EXTENDS ShmRegion, TLC

\* The handles differ in nothing but their names.
Symmetry == Permutations(Handles)
=============================================================================
