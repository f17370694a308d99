--------------------------- MODULE BroadcastBytes ---------------------------
(***************************************************************************)
(* The lossy broadcast byte ring (src/src/broadcast_bytes.rs): records in  *)
(* a buffer of 4-byte lanes, and the three counters a reader validates     *)
(* against.  On shared memory a producer may die between any two of its    *)
(* stores, and a later one takes over (src/src/shm.rs).                    *)
(*                                                                         *)
(* The producer never looks at a consumer, and a consumer only reads, so   *)
(* one consumer shows what any of them can see.  Memory is as in StoreLog. *)
(* A new producer's process finds the stores of the dead one in memory.    *)
(***************************************************************************)
EXTENDS StoreLog, FiniteSetsExt

CONSTANTS
  capacity,       \* bytes (a power of two)
  LengthDivisor,  \* 8 in the code: how much smaller than the ring a message is
  Lengths,        \* the payload lengths pushed, in bytes
  MaxPushes,      \* bound on the pushes begun
  MaxSessions     \* bound on the producers, one after the other

HEADER == 4
LANE == 4
ALIGN == 8
MIN_CAPACITY == 8
PADDING == -1     \* u32::MAX, the length of no record

ASSUME BroadcastBytesAssumption ==
  /\ capacity \in Nat /\ capacity % ALIGN = 0 /\ capacity >= MIN_CAPACITY
  /\ LengthDivisor \in Nat /\ LengthDivisor >= 2 /\ Lengths \subseteq Nat
  /\ MaxPushes \in Nat /\ MaxSessions \in Nat

VARIABLES
  p,              \* the producer handle, and the record it is pushing
  c,              \* the consumer handle, and the frame it is reading
  outcome,        \* what its last call returned
  frames,         \* every record ever committed
  closes,         \* the tails at which a session closed the ring
  pushes, sessions

bytes_producer == <<log, fenced, p, frames, closes, pushes, sessions>>
bytes_consumer == <<c, view, pending, outcome>>
bytes_vars == <<bytes_producer, bytes_consumer>>

align_up(n) == ((n + ALIGN - 1) \div ALIGN) * ALIGN
record_len(len) == align_up(HEADER + len)
max_message_len == capacity \div LengthDivisor

Position(cursor) == cursor % capacity
ToEnd(cursor) == capacity - Position(cursor)

Lane(cursor) == <<"lane", Position(cursor)>>
TailIntent == <<"tail_intent">>
Latest == <<"latest">>
TailCounter == <<"tail">>
CloseFlag == <<"closed">>
lanes_of(len) == (len + LANE - 1) \div LANE
PayloadLanes(at, len) == {at + HEADER + LANE * i : i \in 0 .. lanes_of(len) - 1}

Outcome(kind, what) == [kind |-> kind, what |-> what]

BytesInit ==
  /\ log = << >> /\ fenced = 0 /\ view = 0 /\ pending = 0
  /\ p = [pc |-> "idle", next |-> 0, intent_floor |-> 0, len |-> 0]
  /\ frames = << >> /\ closes = {} /\ pushes = 0 /\ sessions = 1
  /\ c = [pc |-> "out", pos |-> 0, tail_cache |-> 0, cursor |-> 0, len |-> 0, copied |-> {}]
  /\ outcome = Outcome("out", 0)

-----------------------------------------------------------------------------
(* The producer *)

\* The padding before a record that would wrap.
Pad(len) == IF record_len(len) <= ToEnd(p.next) THEN 0 ELSE ToEnd(p.next)
RecordAt == p.next + Pad(p.len)
NewTail(len) == p.next + Pad(len) + record_len(len)

Declared_unfloored(len) == NewTail(len)
Declared(len) == Max({NewTail(len), p.intent_floor})

\* push: the intent, and the Release fence after it.  A longer message panics.
Declare(len) ==
  /\ p.pc = "idle" /\ pushes < MaxPushes /\ len <= max_message_len
  /\ log' = Append(log, Release(TailIntent, Declared(len)))
  /\ fenced' = Len(log')
  /\ p' = [p EXCEPT !.pc = "declared", !.len = len]
  /\ pushes' = pushes + 1
  /\ UNCHANGED <<frames, closes, sessions, bytes_consumer>>

WriteHeaders ==
  /\ p.pc = "declared"
  /\ log' = (IF Pad(p.len) > 0 THEN Append(log, Relaxed(Lane(p.next), PADDING)) ELSE log)
              \o <<Relaxed(Lane(RecordAt), p.len)>>
  /\ p' = [p EXCEPT !.pc = "headed"]
  /\ UNCHANGED <<fenced, frames, closes, pushes, sessions, bytes_consumer>>

\* The payload of the n-th push is n, in every lane.
CopyInLanes ==
  /\ p.pc = "headed"
  /\ log' = log \o [i \in 1 .. lanes_of(p.len) |->
                      Relaxed(Lane(RecordAt + HEADER + LANE * (i - 1)), pushes)]
  /\ p' = [p EXCEPT !.pc = "filled"]
  /\ UNCHANGED <<fenced, frames, closes, pushes, sessions, bytes_consumer>>

StoreLatest ==
  /\ p.pc = "filled"
  /\ log' = Append(log, Release(Latest, RecordAt))
  /\ p' = [p EXCEPT !.pc = "pointed"]
  /\ UNCHANGED <<fenced, frames, closes, pushes, sessions, bytes_consumer>>

StoreTail ==
  /\ p.pc = "pointed"
  /\ log' = Append(log, Release(TailCounter, NewTail(p.len)))
  /\ frames' = Append(frames,
       [start |-> p.next, at |-> RecordAt, end |-> NewTail(p.len), record |-> <<p.len, pushes>>])
  /\ p' = [p EXCEPT !.pc = "idle", !.next = NewTail(p.len), !.len = 0]
  /\ UNCHANGED <<fenced, closes, pushes, sessions, bytes_consumer>>

\* BytesProducer::drop.
DropBytesProducer ==
  /\ p.pc = "idle"
  /\ log' = Append(log, Release(CloseFlag, 1))
  /\ closes' = closes \union {p.next}
  /\ p' = [p EXCEPT !.pc = "gone"]
  /\ UNCHANGED <<fenced, frames, pushes, sessions, bytes_consumer>>

\* A producer that dies drops nothing.
Die ==
  /\ p.pc # "gone"
  /\ p' = [p EXCEPT !.pc = "gone", !.len = 0]
  /\ UNCHANGED <<log, fenced, frames, closes, pushes, sessions, bytes_consumer>>

\* attach_shm_producer, force_attach_shm_producer, recover_shm: the lease, and
\* the ring is open again.
Attach ==
  /\ p.pc = "gone" /\ sessions < MaxSessions
  /\ log' = Append(log, Release(CloseFlag, 0))
  /\ p' = [p EXCEPT !.pc = "healing"]
  /\ sessions' = sessions + 1
  /\ UNCHANGED <<fenced, frames, closes, pushes, bytes_consumer>>

\* The handle of a producer that takes over.
from_shm(tail, intent_floor) ==
  [pc |-> "idle", next |-> tail, intent_floor |-> intent_floor, len |-> 0]

\* bytes_heal_on_attach, and then the handle.
Heal ==
  /\ p.pc = "healing"
  /\ LET tail == Newest(TailCounter)
         intent == Newest(TailIntent)
     IN  /\ log' = IF intent # tail THEN Append(log, Release(Latest, tail)) ELSE log
         /\ p' = from_shm(tail, Max({intent, tail}))
  /\ UNCHANGED <<fenced, frames, closes, pushes, sessions, bytes_consumer>>

-----------------------------------------------------------------------------
(* The consumer *)

Load(loc, t) == t \in Visible(loc) /\ view' = With(view, t)

Subscribed(tail) == [c EXCEPT !.pc = "idle", !.pos = tail, !.tail_cache = tail]

\* subscribe: on a thread that may know no more than the initial state.
BytesSubscribe ==
  /\ c.pc = "out"
  /\ \E t \in Visible(TailCounter) :
       /\ Load(TailCounter, t)
       /\ c' = Subscribed(Value(t))
  /\ outcome' = Outcome("none", 0)
  /\ UNCHANGED <<bytes_producer, pending>>

available == c.tail_cache > c.pos

\* has_item's reload, once the cached tail shows nothing.
BytesRefresh ==
  /\ c.pc = "idle" /\ ~available
  /\ \E t \in Visible(TailCounter) :
       /\ Load(TailCounter, t)
       /\ c' = [c EXCEPT !.tail_cache = Value(t), !.pc = IF Value(t) > c.pos THEN "idle" ELSE "empty"]
  /\ outcome' = Outcome("none", 0)
  /\ UNCHANGED <<bytes_producer, pending>>

\* check_closed: the flag, and if it is up the tail once more.
BytesCheckClosed ==
  /\ c.pc = "empty"
  /\ \E t \in Visible(CloseFlag) :
       /\ Load(CloseFlag, t)
       /\ c' = [c EXCEPT !.pc = IF Value(t) # 0 THEN "recheck" ELSE "idle"]
  /\ UNCHANGED <<bytes_producer, pending, outcome>>
\* Mutant: closed only when the consumer stands exactly at the tail.
BytesRecheck_exactly ==
  /\ c.pc = "recheck"
  /\ \E t \in Visible(TailCounter) :
       /\ Load(TailCounter, t)
       /\ c' = [c EXCEPT !.tail_cache = Value(t), !.pc = "idle"]
       /\ outcome' = IF Value(t) = c.pos THEN Outcome("closed", 0) ELSE outcome
  /\ UNCHANGED <<bytes_producer, pending>>
BytesRecheck ==
  /\ c.pc = "recheck"
  /\ \E t \in Visible(TailCounter) :
       /\ Load(TailCounter, t)
       /\ c' = [c EXCEPT !.tail_cache = Value(t), !.pc = "idle"]
       /\ outcome' = IF Value(t) <= c.pos THEN Outcome("closed", 0) ELSE outcome
  /\ UNCHANGED <<bytes_producer, pending>>

\* Has the producer declared to write past what a frame at `pos` may keep?
Overrun_late(intent) == intent < c.pos \/ intent - c.pos > capacity + ALIGN
Overrun(intent) == intent < c.pos \/ intent - c.pos > capacity

\* read_record: the window before parsing, measured from the frame's start.
WindowCheck ==
  /\ (c.pc = "idle" /\ available) \/ c.pc = "skipped"
  /\ \E t \in Visible(TailIntent) :
       /\ Load(TailIntent, t)
       /\ c' = [c EXCEPT !.pc = IF Overrun(Value(t)) THEN "lapped" ELSE "window",
                         !.cursor = IF c.pc = "idle" THEN c.pos ELSE @]
  /\ outcome' = Outcome("none", 0)
  /\ UNCHANGED <<bytes_producer, pending>>

\* The header: padding, a length that no record here has, or a record.
LoadHeader ==
  /\ c.pc = "window"
  /\ \E t \in Visible(Lane(c.cursor)) :
       LET header == Value(t)
       IN  /\ pending' = With(pending, t)
           /\ c' = IF header = PADDING THEN [c EXCEPT !.pc = "padding"]
                   ELSE IF header > max_message_len \/ record_len(header) > ToEnd(c.cursor)
                   THEN [c EXCEPT !.pc = "lapped"]
                   ELSE [c EXCEPT !.pc = "copy", !.len = header]
  /\ UNCHANGED <<bytes_producer, view, outcome>>

\* An Acquire fence, and a Relaxed load of the intent.
Revalidation(accept) ==
  /\ view' = Fenced
  /\ \E t \in {t \in Visible(TailIntent) : \A u \in t + 1 .. Fenced : log[u].loc # TailIntent} :
       IF Overrun(Value(t))
       THEN c' = [c EXCEPT !.pc = "lapped", !.copied = {}] /\ UNCHANGED outcome
       ELSE accept

\* The padding was really there: on to the record behind it.
SkipPadding ==
  /\ c.pc = "padding"
  /\ Revalidation(c' = [c EXCEPT !.pc = "skipped", !.cursor = @ + ToEnd(@)] /\ UNCHANGED outcome)
  /\ pending' = 0
  /\ UNCHANGED bytes_producer

CopyLane ==
  /\ c.pc = "copy"
  /\ \E at \in {at \in PayloadLanes(c.cursor, c.len) : at \notin {copy[1] : copy \in c.copied}} :
       /\ \A other \in PayloadLanes(c.cursor, c.len) :
            other < at => other \in {copy[1] : copy \in c.copied}
       /\ \E t \in Visible(Lane(at)) :
            /\ c' = [c EXCEPT !.copied = @ \union {<<at, Value(t)>>}]
            /\ pending' = With(pending, t)
  /\ UNCHANGED <<bytes_producer, view, outcome>>

\* The window once more, and the record is accepted.
Accept ==
  /\ c.pc = "copy" /\ PayloadLanes(c.cursor, c.len) = {copy[1] : copy \in c.copied}
  /\ Revalidation(
       /\ c' = [c EXCEPT !.pc = "idle", !.pos = c.cursor + record_len(c.len), !.len = 0, !.copied = {}]
       /\ outcome' = Outcome("item", <<c.len, {copy[2] : copy \in c.copied}>>))
  /\ pending' = 0
  /\ UNCHANGED bytes_producer

\* reposition: the tail first, and then the jump target.
RepositionTail ==
  /\ c.pc = "lapped"
  /\ \E t \in Visible(TailCounter) :
       Load(TailCounter, t) /\ c' = [c EXCEPT !.tail_cache = Value(t), !.pc = "jump"]
  /\ UNCHANGED <<bytes_producer, pending, outcome>>
RepositionLatest ==
  /\ c.pc = "jump"
  /\ \E t \in Visible(Latest) :
       LET new_pos == Max({Value(t), c.pos})
       IN  /\ Load(Latest, t)
           /\ c' = [c EXCEPT !.pc = "idle", !.pos = new_pos, !.len = 0]
           /\ outcome' = Outcome("lagged", new_pos - c.pos)
  /\ pending' = 0
  /\ UNCHANGED bytes_producer

BytesSkipToLatest ==
  /\ c.pc = "idle"
  /\ \E t \in Visible(TailCounter) :
       /\ Load(TailCounter, t)
       /\ c' = [c EXCEPT !.tail_cache = Value(t), !.pos = Max({Value(t), @})]
       /\ outcome' = Outcome("skipped", Max({Value(t), c.pos}) - c.pos)
  /\ UNCHANGED <<bytes_producer, pending>>

-----------------------------------------------------------------------------

Push == (\E len \in Lengths : Declare(len)) \/ WriteHeaders \/ CopyInLanes \/ StoreLatest \/ StoreTail
BytesProducerNext == Push \/ DropBytesProducer \/ Die \/ Attach \/ Heal

read_record == WindowCheck \/ LoadHeader \/ SkipPadding \/ CopyLane \/ Accept
reposition == RepositionTail \/ RepositionLatest
BytesPop == BytesRefresh \/ BytesCheckClosed \/ BytesRecheck \/ read_record \/ reposition

BytesNext == BytesProducerNext \/ BytesSubscribe \/ BytesPop \/ BytesSkipToLatest

BytesSpec == BytesInit /\ [][BytesNext]_bytes_vars

\* Memory makes a store visible in finite time: old values are not read for ever.
BytesCatchUp ==
  /\ view # Len(log) /\ view' = Len(log)
  /\ UNCHANGED <<bytes_producer, c, pending, outcome>>

\* A consumer that keeps popping; of the producers nothing is asked.
BytesFairness == WF_bytes_vars(BytesCatchUp) /\ WF_bytes_vars(BytesPop)

BytesLiveSpec ==
  BytesInit /\ [][BytesNext \/ BytesCatchUp]_bytes_vars /\ BytesFairness

-----------------------------------------------------------------------------
(* Properties *)

\* What a consumer sees of all the producers is a lossy log of whole records.
Record(record) ==
  <<record[1], IF record[1] = 0 THEN {} ELSE {record[2]}>>
WholeRecords == {Record(record) : record \in Lengths \X (1 .. MaxPushes)}
LossyBytes == INSTANCE LossyRecords WITH
  Records <- WholeRecords,
  Capacity <- capacity,
  frames <- [i \in DOMAIN frames |-> [frames[i] EXCEPT !.record = Record(@)]],
  begun <- Newest(TailIntent),
  next <- c.pos,
  result <- outcome
ImplementsLossyRecords == LossyBytes!Spec

\* While a committed record may still pass the window check, its lanes are its own.
WindowIsIntact ==
  \A i \in DOMAIN frames :
    LET f == frames[i]
    IN  Newest(TailIntent) - f.start <= capacity =>
          /\ f.at > f.start => Newest(Lane(f.start)) = PADDING
          /\ Newest(Lane(f.at)) = f.record[1]
          /\ \A at \in PayloadLanes(f.at, f.record[1]) : Newest(Lane(at)) = f.record[2]

\* When the last producer has closed the ring, a consumer that keeps popping drains
\* it and is told so, also one that had jumped to the unfinished push of an earlier
\* producer that died, and so stands above the tail its successor closed at
\* (check_closed in broadcast_bytes.rs).
CloseIsReported ==
  (p.pc = "gone" /\ sessions = MaxSessions /\ Newest(CloseFlag) = 1 /\ c.pc # "out")
    ~> (outcome.kind = "closed" /\ c.pos >= p.next)
=============================================================================
