------------------------------ MODULE LossyLog ------------------------------
(***************************************************************************)
(* What a lossy ring promises to one of its consumers.  The messages form  *)
(* a log numbered from 0; `begun` of them are written or being written,    *)
(* and `published` of them may be read.  A consumer at `next` is handed    *)
(* message `next`, whole; it is told that it lagged only when the writing  *)
(* of message next + Capacity has begun, and then how many it missed; and  *)
(* it never goes back.                                                     *)
(***************************************************************************)
EXTENDS Naturals

CONSTANT Capacity

VARIABLES
  begun, published,   \* the producer
  next,               \* the next message of the consumer
  result              \* what its last call returned

vars == <<begun, published, next, result>>

Item(s)    == [kind |-> "item", what |-> {s}]
Lagged(n)  == [kind |-> "lagged", what |-> {n}]
Skipped(n) == [kind |-> "skipped", what |-> {n}]
Closed     == [kind |-> "closed", what |-> {}]
Nothing    == [kind |-> "none", what |-> {}]
Out        == [kind |-> "out", what |-> {}]

Init == begun = 0 /\ published = 0 /\ next = 0 /\ result \in {Nothing, Out}

Begin ==
  begun' = begun + 1 /\ UNCHANGED <<published, next, result>>

Publish ==
  published' \in published + 1 .. begun /\ UNCHANGED <<begun, next, result>>

\* The consumer subscribes: it sees what is published from here on.
Join ==
  /\ result = Out /\ result' = Nothing
  /\ next' \in 0 .. published
  /\ UNCHANGED <<begun, published>>

Receive ==
  /\ next < published
  /\ result' = Item(next) /\ next' = next + 1
  /\ UNCHANGED <<begun, published>>

Jump == next' \in next .. published

Lag ==
  /\ begun > next + Capacity
  /\ Jump /\ result' = Lagged(next' - next)
  /\ UNCHANGED <<begun, published>>

Skip ==
  /\ Jump /\ result' = Skipped(next' - next)
  /\ UNCHANGED <<begun, published>>

Finish ==
  /\ next = begun /\ published = begun
  /\ result' = Closed
  /\ UNCHANGED <<begun, published, next>>

Next == Begin \/ Publish \/ Join \/ Receive \/ Lag \/ Skip \/ Finish

Spec == Init /\ [][Next]_vars
=============================================================================
