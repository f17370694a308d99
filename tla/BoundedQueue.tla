---------------------------- MODULE BoundedQueue ----------------------------
(***************************************************************************)
(* What a single-consumer ring promises: a first-in first-out queue of at  *)
(* most Capacity elements, each handed to the consumer exactly once and in *)
(* order, with whatever is left discarded when both handles are gone.      *)
(***************************************************************************)
EXTENDS Sequences, Naturals

CONSTANTS Values, Capacity

VARIABLE queue

Init == queue = << >>

Enqueue(v) == Len(queue) < Capacity /\ queue' = Append(queue, v)

Dequeue == queue # << >> /\ queue' = Tail(queue)

Discard == queue # << >> /\ queue' = << >>

Next == (\E v \in Values : Enqueue(v)) \/ Dequeue \/ Discard

Spec == Init /\ [][Next]_queue
=============================================================================
