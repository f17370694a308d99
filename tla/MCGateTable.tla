---------------------------- MODULE MCGateTable ----------------------------
(* Model checking of GateTable: handles are interchangeable. *)
EXTENDS GateTable
Symmetry == Permutations(Producers) \union Permutations(Consumers)
=============================================================================
