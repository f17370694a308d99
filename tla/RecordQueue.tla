---------------------------- MODULE RecordQueue ----------------------------
(***************************************************************************)
(* What a single-consumer byte ring promises: a first-in first-out queue   *)
(* of whole records, each a length and that many bytes, that take up no    *)
(* more than Capacity bytes together, each handed over once and in order.  *)
(***************************************************************************)
EXTENDS Sequences, Integers

CONSTANTS Records, Size(_), Capacity

VARIABLE queue

Init == queue = << >>

Used(q) ==
  LET used[n \in 0 .. Len(q)] == IF n = 0 THEN 0 ELSE used[n - 1] + Size(q[n])
  IN  used[Len(q)]

Enqueue(before, after) ==
  \E record \in Records : after = Append(before, record) /\ Used(after) <= Capacity

Dequeue(before, after) == before # << >> /\ after = Tail(before)

Step(before, after) == Enqueue(before, after) \/ Dequeue(before, after)

Next == Step(queue, queue')

Spec == Init /\ [][Next]_queue
=============================================================================
