-------------------------- MODULE RecordBroadcast --------------------------
(***************************************************************************)
(* What a gating byte ring promises to its consumers: one log of whole     *)
(* records.  A consumer joins at the end of some record and from there is  *)
(* lent every record, once and in order.  What it was lent stays as it is  *)
(* until it hands it back, and only then does it move on; forgetting it    *)
(* means being lent it again.                                              *)
(***************************************************************************)
EXTENDS Integers, Sequences

CONSTANTS Consumers, Records

VARIABLES
  log,    \* every record ever published
  at      \* for each consumer, how many of them it is past, and what it is lent

vars == <<log, at>>

None == << >>
Out == [past |-> -1, lent |-> None]
Past(n) == [past |-> n, lent |-> None]
Following(n) == [past |-> n, lent |-> log[n + 1]]
More(n) == n < Len(log)

Init == log = << >> /\ at \in [Consumers -> {Out, Past(0)}]

Publish ==
  /\ Len(log') = Len(log) + 1
  /\ \E r \in Records : log' = Append(log, r)
  /\ UNCHANGED at

Join(before, after) == before = Out /\ after.past \in 0 .. Len(log) /\ after = Past(after.past)

Lend(before, after) ==
  LET n == before.past
  IN  before.lent = None /\ n >= 0 /\ More(n) /\ after = Following(n)

\* One record back, and perhaps the next one lent.
Return(before, after) ==
  LET n == before.past + 1
  IN  before.lent # None /\ (after = Past(n) \/ (More(n) /\ after = Following(n)))

Forget(before, after) == before.lent # None /\ after = Past(before.past)

Leave(before, after) == before.lent = None /\ after = Out

Move(before, after) ==
  \/ Join(before, after) \/ Lend(before, after) \/ Return(before, after)
  \/ Forget(before, after) \/ Leave(before, after)

Next ==
  \/ Publish
  \/ /\ UNCHANGED log
     /\ \E c \in Consumers : Move(at[c], at'[c]) /\ \A d \in Consumers \ {c} : at'[d] = at[d]

Spec == Init /\ [][Next]_vars
=============================================================================
