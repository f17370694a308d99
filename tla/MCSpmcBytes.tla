---------------------------- MODULE MCSpmcBytes ----------------------------
(* Small instances of SpmcBytes for TLC. *)
EXTENDS SpmcBytes

\* The handles are interchangeable, but symmetry is unsound for liveness: one
\* representative initial state.
MCInit == Init /\ Live(CHOOSE i \in Consumers : TRUE)
MCSpec == MCInit /\ [][Next]_vars /\ Fairness

\* In a ring of 16 bytes: the third record fits, or wraps with padding.
OneLap == <<{3}, {0}, {0, 3}, {0}>>
=============================================================================
