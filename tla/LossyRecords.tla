---------------------------- MODULE LossyRecords ----------------------------
(***************************************************************************)
(* What a lossy byte ring promises to one of its consumers, over all the   *)
(* sessions of its producers.  `frames` is every record ever committed,    *)
(* each from its `start` to its `end`, with the record proper at `at`      *)
(* (past the padding, where there is some); `begun` is how far the         *)
(* producers have declared to write.  A consumer at `next` is handed the   *)
(* record there, whole; it is told that it lagged only when the bytes one  *)
(* capacity past it were claimed, and by how many bytes it moved; it never *)
(* goes back, and it is told Closed only when it is past everything a      *)
(* session that closed had committed.                                      *)
(***************************************************************************)
EXTENDS Naturals, Sequences

CONSTANTS Capacity, Records    \* Records: what a record may be

VARIABLES
  frames, begun,  \* the producers
  closes,         \* the tails at which a session closed the ring
  next,           \* the position of the consumer
  result          \* what its last call returned

vars == <<frames, begun, closes, next, result>>

Item(record) == [kind |-> "item", what |-> record]
Lagged(n)  == [kind |-> "lagged", what |-> n]
Skipped(n) == [kind |-> "skipped", what |-> n]
Closed     == [kind |-> "closed", what |-> 0]
Nothing    == [kind |-> "none", what |-> 0]
Out        == [kind |-> "out", what |-> 0]

Committed == IF frames = << >> THEN 0 ELSE frames[Len(frames)].end
Ends == {0} \union {frames[i].end : i \in DOMAIN frames}
Starts == {frames[i].at : i \in DOMAIN frames}

Init ==
  /\ frames = << >> /\ begun = 0 /\ closes = {} /\ next = 0
  /\ result \in {Nothing, Out}

Declare ==
  begun' >= begun /\ UNCHANGED <<frames, closes, next, result>>

Commit ==
  /\ Len(frames') = Len(frames) + 1
  /\ SubSeq(frames', 1, Len(frames)) = frames
  /\ LET frame == frames'[Len(frames')]
     IN  /\ frame.start = Committed /\ frame.start <= frame.at
         /\ frame.at < frame.end /\ frame.end <= begun
         /\ frame.record \in Records
  /\ UNCHANGED <<begun, closes, next, result>>

Close == closes' = closes \union {Committed} /\ UNCHANGED <<frames, begun, next, result>>

Join ==
  /\ result = Out /\ result' = Nothing /\ next' \in Ends
  /\ UNCHANGED <<frames, begun, closes>>

Call == result # Out /\ result' = Nothing /\ UNCHANGED <<frames, begun, closes, next>>

Receive ==
  /\ \E i \in DOMAIN frames :
       /\ next \in {frames[i].start, frames[i].at}
       /\ result' = Item(frames[i].record) /\ next' = frames[i].end
  /\ UNCHANGED <<frames, begun, closes>>

\* The jump lands where a frame or its record starts, or will start.
Lag ==
  /\ begun > next + Capacity
  /\ next' >= next /\ next' \in {next} \union Starts \union Ends \union Committed .. begun
  /\ result' = Lagged(next' - next)
  /\ UNCHANGED <<frames, begun, closes>>

Skip ==
  /\ next' >= next /\ next' \in {next} \union Ends
  /\ result' = Skipped(next' - next)
  /\ UNCHANGED <<frames, begun, closes>>

Finish ==
  /\ \E tail \in closes : next >= tail
  /\ result' = Closed
  /\ UNCHANGED <<frames, begun, closes, next>>

Next == Declare \/ Commit \/ Close \/ Join \/ Call \/ Receive \/ Lag \/ Skip \/ Finish

Spec == Init /\ [][Next]_vars
=============================================================================
