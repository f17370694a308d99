--------------------------- MODULE AnchoredBytes ---------------------------
(***************************************************************************)
(* The anchored byte ring (src/src/anchored_bytes.rs): SpmcBytes' gate     *)
(* around BroadcastBytes' three counters, on one buffer and one tail.      *)
(* Anchors gate the producer and borrow in place; observers gate nobody    *)
(* and validate a copy.  On shared memory a producer may die between two   *)
(* stores, and a later one takes over (src/src/shm.rs).                    *)
(*                                                                         *)
(* What is new is how the two protocols meet: the gate comes before the    *)
(* intent, a dead producer's intent outlives it, and an anchor reads       *)
(* without validating what an observer must validate.  Memory is           *)
(* sequentially consistent here: what the fences of the two protocols are  *)
(* for is the subject of SpmcRing and BroadcastBytes.  One observer shows  *)
(* what any of them can see, since it stores nothing.                      *)
(***************************************************************************)
EXTENDS RingArith, Sequences, FiniteSetsExt, Functions

CONSTANTS
  Anchors,        \* anchor handles, each with its slot of the registry
  Capacity,       \* bytes (a power of two: all that is used of it is in the assumption)
  BatchDivisor,   \* 8 in the code
  LengthDivisor,  \* 8 in the code: how much smaller than the ring a message is
  Lengths,        \* the payload lengths, in bytes, that the n-th push may have
  MaxPushes,      \* bound on the records begun
  MaxSessions     \* bound on the producers, one after the other

HEADER == 4
LANE == 4
ALIGN == 8
MIN_CAPACITY == 16
PADDING == -1     \* u32::MAX, the length of no record
DETACHED == -1    \* u64::MAX, which no cursor reaches
MAX_PUBLISH_BATCH_BYTES == 4096

ASSUME AnchoredBytesAssumption ==
  /\ Capacity \in Nat /\ Capacity % ALIGN = 0 /\ Capacity >= MIN_CAPACITY
  /\ BatchDivisor \in Nat \ {0} /\ LengthDivisor \in Nat \ {0}
  /\ MaxPushes \in Nat /\ MaxSessions \in Nat /\ Lengths \in [1 .. MaxPushes -> SUBSET Nat]

AllLengths == UNION Range(Lengths)
Batch == publish_batch(Capacity, MAX_PUBLISH_BATCH_BYTES, BatchDivisor)
record_len(len) == ((HEADER + len + ALIGN - 1) \div ALIGN) * ALIGN
max_message_len == Capacity \div LengthDivisor

VARIABLES
  buffer,         \* the lanes, by byte position
  tail_intent, latest, tail,
  closed, starving,
  slots,          \* each anchor's published cursor, or DETACHED
  p,              \* the producer handle, and the record it is pushing
  cached_cursors, \* the producer's copy of `slots`
  fence_seq,      \* the tail at the producer's last SeqCst fence
  a,              \* the anchor handles, and the records they are lent
  o, result,      \* the observer and its frame, and what its last call returned
  frames,         \* every record ever committed
  closes,         \* the tails at which a session closed the ring
  pushes, sessions

counters == <<tail_intent, latest, tail>>
shared == <<buffer, counters, closed, starving, slots>>
gate == <<cached_cursors, fence_seq>>
history == <<frames, closes, pushes, sessions>>
observer == <<o, result>>
vars == <<shared, p, gate, history, a, observer>>

Position(cursor) == cursor % Capacity
ToEnd(cursor) == Capacity - Position(cursor)
PayloadAt(position, len) ==
  {w \in DOMAIN buffer : position + HEADER <= w /\ w < position + HEADER + len}

NoAnchor == [pc |-> "out", read_cursor |-> 0, published |-> 0, tail_cache |-> 0,
             len |-> 0, limit |-> 0, span |-> 0]
Subscribed(cursor) ==
  [NoAnchor EXCEPT !.pc = "live", !.read_cursor = cursor, !.published = cursor, !.tail_cache = cursor]
Producer(next, min, floor) ==
  [pc |-> "idle", next |-> next, len |-> 0, cached_min |-> min, raised_starving |-> FALSE,
   intent_floor |-> floor]
Returned(kind, what) == [kind |-> kind, what |-> what]

Live(i) == slots[i] # DETACHED

\* with_wait_strategies: the ring, its producer and a first anchor.
Init ==
  /\ buffer = [w \in {LANE * i : i \in 0 .. Capacity \div LANE - 1} |-> 0]
  /\ tail_intent = 0 /\ latest = 0 /\ tail = 0 /\ closed = FALSE /\ starving = 0
  /\ p = Producer(0, 0, 0)
  /\ cached_cursors = [i \in Anchors |-> 0] /\ fence_seq = 0
  /\ \E first \in Anchors :
       /\ slots = [i \in Anchors |-> IF i = first THEN 0 ELSE DETACHED]
       /\ a = [i \in Anchors |-> IF i = first THEN Subscribed(0) ELSE NoAnchor]
  /\ o = [pc |-> "out", pos |-> 0, tail_cache |-> 0, cursor |-> 0, len |-> 0, copied |-> {}]
  /\ result = Returned("out", 0)
  /\ frames = << >> /\ closes = {} /\ pushes = 0 /\ sessions = 1

-----------------------------------------------------------------------------
(* The producer: the gate *)

Pad(len) == IF record_len(len) <= ToEnd(p.next) THEN 0 ELSE ToEnd(p.next)
Needed(len) == Pad(len) + record_len(len)
RecordAt == p.next + Pad(p.len)
NewTail == p.next + Needed(p.len)

Lacks(needed, read) == p.next + needed - read > Capacity

\* has_space, when the cached minimum shows room: the flag is lowered.
Granted(len) ==
  /\ p' = [p EXCEPT !.pc = "granted", !.len = len, !.raised_starving = FALSE]
  /\ starving' = IF p.raised_starving THEN 0 ELSE starving

Frame_intent_first(len) ==
  /\ p.pc = "idle" /\ pushes < MaxPushes /\ len \in Lengths[pushes + 1] /\ len <= max_message_len
  /\ tail_intent' = p.next + Needed(len)
  /\ IF Lacks(Needed(len), p.cached_min)
     THEN p' = [p EXCEPT !.pc = "lacking", !.len = len] /\ UNCHANGED starving
     ELSE Granted(len)
  /\ UNCHANGED <<buffer, latest, tail, closed, slots, gate, history, a, observer>>

\* push, claim, try_push or try_claim; a longer message panics.
Frame(len) ==
  /\ p.pc = "idle" /\ pushes < MaxPushes /\ len \in Lengths[pushes + 1] /\ len <= max_message_len
  /\ IF Lacks(Needed(len), p.cached_min)
     THEN p' = [p EXCEPT !.pc = "lacking", !.len = len] /\ UNCHANGED starving
     ELSE Granted(len)
  /\ UNCHANGED <<buffer, counters, closed, slots, gate, history, a, observer>>

\* scan_chunk_registry and scan_shm_table: only the cursors in the way are loaded.
Scanned(next, cursors, needed) ==
  [i \in Anchors |-> IF Live(i) /\ next + needed - cursors[i] > Capacity THEN slots[i] ELSE cursors[i]]
NewMin_unbounded(next, cursors) ==
  IF \E i \in Anchors : Live(i) THEN Min({cursors[i] : i \in {i \in Anchors : Live(i)}})
  ELSE next + Capacity
NewMin(next, cursors) ==
  IF \E i \in Anchors : Live(i) THEN Min({cursors[i] : i \in {i \in Anchors : Live(i)}})
  ELSE next - 1

\* rescan, when the cached minimum shows no room: the fence, the scan and the new
\* minimum.  Room found only now leaves the flag as it is.
Rescan ==
  /\ p.pc = "lacking"
  /\ LET cursors == Scanned(p.next, cached_cursors, Needed(p.len))
         min == NewMin(p.next, cursors)
     IN  /\ cached_cursors' = cursors
         /\ p' = [p EXCEPT !.cached_min = min,
                           !.pc = IF Lacks(Needed(p.len), min) THEN "starved" ELSE "granted"]
  /\ fence_seq' = tail
  /\ UNCHANGED <<shared, history, a, observer>>

\* No room: the flag shows what this push needs.  push and claim wait, try_push
\* and try_claim give up.
RaiseStarving ==
  /\ p.pc = "starved"
  /\ starving' = Needed(p.len)
  /\ \/ p' = [p EXCEPT !.raised_starving = TRUE, !.pc = "waiting"]
     \/ p' = [p EXCEPT !.raised_starving = TRUE, !.pc = "idle", !.len = 0]
  /\ UNCHANGED <<buffer, counters, closed, slots, gate, history, a, observer>>

\* wait_for_space: the predicate scans, and so does has_space around it.  Room that the
\* predicate found passes has_space's cached check, which lowers the flag; room that
\* has_space itself finds leaves the flag up.
WaitForSpace ==
  /\ p.pc = "waiting"
  /\ LET cursors == Scanned(p.next, cached_cursors, Needed(p.len))
         min == NewMin(p.next, cursors)
     IN  /\ cached_cursors' = cursors
         /\ IF Lacks(Needed(p.len), min)
            THEN p' = [p EXCEPT !.cached_min = min] /\ UNCHANGED starving
            ELSE \E kept \in BOOLEAN :
                   /\ p' = [p EXCEPT !.cached_min = min, !.pc = "granted", !.raised_starving = kept]
                   /\ starving' = IF kept THEN starving ELSE 0
  /\ fence_seq' = tail
  /\ UNCHANGED <<buffer, counters, closed, slots, history, a, observer>>

\* A WriteSlot dropped uncommitted: it has written nothing.
Abandon ==
  /\ p.pc = "granted"
  /\ p' = [p EXCEPT !.pc = "idle", !.len = 0]
  /\ UNCHANGED <<shared, gate, history, a, observer>>

-----------------------------------------------------------------------------
(* The producer: write_frame, a store at a time *)

\* A record as the consumers see it: its length, and what its lanes hold.
Record(n, len) == <<len, IF len = 0 THEN {} ELSE {n}>>

Declared_unfloored == NewTail
Declared == Max({NewTail, p.intent_floor})

Declare ==
  /\ p.pc = "granted"
  /\ tail_intent' = Declared /\ pushes' = pushes + 1
  /\ p' = [p EXCEPT !.pc = "declared"]
  /\ UNCHANGED <<buffer, latest, tail, closed, starving, slots, gate, frames, closes, sessions, a, observer>>

\* The lanes, in the orders BroadcastBytes looks at.  The payload of the n-th push
\* is n, in every lane.
WriteLanes ==
  /\ p.pc = "declared"
  /\ buffer' = [w \in DOMAIN buffer |->
                  IF w = Position(RecordAt) THEN p.len
                  ELSE IF w \in PayloadAt(Position(RecordAt), p.len) THEN pushes
                  ELSE IF w = Position(p.next) /\ Pad(p.len) > 0 THEN PADDING ELSE buffer[w]]
  /\ p' = [p EXCEPT !.pc = "filled"]
  /\ UNCHANGED <<counters, closed, starving, slots, gate, history, a, observer>>

StoreLatest ==
  /\ p.pc = "filled"
  /\ latest' = RecordAt
  /\ p' = [p EXCEPT !.pc = "pointed"]
  /\ UNCHANGED <<buffer, tail_intent, tail, closed, starving, slots, gate, history, a, observer>>

StoreTail ==
  /\ p.pc = "pointed"
  /\ tail' = NewTail
  /\ frames' = Append(frames,
       [start |-> p.next, at |-> RecordAt, end |-> NewTail, record |-> Record(pushes, p.len)])
  /\ p' = [p EXCEPT !.pc = "idle", !.next = NewTail, !.len = 0]
  /\ UNCHANGED <<buffer, tail_intent, latest, closed, starving, slots, gate, closes, pushes, sessions,
                 a, observer>>

-----------------------------------------------------------------------------
(* The producer: its end, and its successor *)

\* BytesProducer::drop.
DropProducer ==
  /\ p.pc = "idle"
  /\ closed' = TRUE /\ closes' = closes \union {tail}
  /\ p' = [p EXCEPT !.pc = "gone"]
  /\ UNCHANGED <<buffer, counters, starving, slots, gate, frames, pushes, sessions, a, observer>>

\* A producer that dies drops nothing.
Die ==
  /\ p.pc # "gone" /\ sessions < MaxSessions
  /\ p' = [p EXCEPT !.pc = "gone", !.len = 0]
  /\ UNCHANGED <<shared, gate, history, a, observer>>

\* attach_shm_producer and force_attach_shm_producer, from the lease on: the
\* ring is open again, and its starving flag is down.
Attach ==
  /\ p.pc = "gone" /\ sessions < MaxSessions
  /\ closed' = FALSE /\ starving' = 0 /\ sessions' = sessions + 1
  /\ p' = [p EXCEPT !.pc = "healing"]
  /\ UNCHANGED <<buffer, counters, slots, gate, frames, closes, pushes, a, observer>>

\* bytes_heal_on_attach, and BytesProducer::from_shm with its first scan.
Heal ==
  /\ p.pc = "healing"
  /\ latest' = IF tail_intent # tail THEN tail ELSE latest
  /\ LET cursors == Scanned(tail, [i \in Anchors |-> tail - Capacity], 1)
     IN  /\ cached_cursors' = cursors
         /\ p' = Producer(tail, NewMin(tail, cursors), Max({tail_intent, tail}))
  /\ fence_seq' = tail
  /\ UNCHANGED <<buffer, tail_intent, tail, closed, starving, slots, history, a, observer>>

-----------------------------------------------------------------------------
(* An anchor *)

\* subscribe_from and shm_subscribe_anchor: the join point is a published tail
\* no older than the producer's last fence.
Subscribe(i) ==
  /\ a[i].pc = "out" /\ ~closed
  /\ \E joined \in {0} \union {frames[n].end : n \in DOMAIN frames} :
       /\ fence_seq <= joined /\ a[i].read_cursor <= joined
       /\ slots' = [slots EXCEPT ![i] = joined]
       /\ a' = [a EXCEPT ![i] = Subscribed(joined)]
  /\ UNCHANGED <<buffer, counters, closed, starving, p, gate, history, observer>>

\* decode_record, with plain reads: where the record at a cursor starts, and its length.
decode_record(cursor) ==
  LET skip == IF buffer[Position(cursor)] = PADDING THEN ToEnd(cursor) ELSE 0
  IN  [cur |-> cursor + skip, len |-> buffer[Position(cursor + skip)]]

\* The record is decoded, and the padding before it is folded into the cursor.
next_msg(i, cache) ==
  LET msg == decode_record(a[i].read_cursor)
  IN  a' = [a EXCEPT ![i].pc = "holding", ![i].tail_cache = cache,
                     ![i].read_cursor = msg.cur, ![i].len = msg.len]

\* has_item: the cached tail, reloaded only once it shows nothing.
has_item(h) == IF h.tail_cache = h.read_cursor THEN tail ELSE h.tail_cache

\* pop and try_pop: the record, once has_item shows one.  An anchor that finds
\* none looks at the closed flag and at the tail again, and changes nothing.
pop(i) ==
  /\ a[i].pc = "live"
  /\ has_item(a[i]) # a[i].read_cursor /\ next_msg(i, has_item(a[i]))
  /\ UNCHANGED <<shared, p, gate, history, observer>>

\* mem::forget on a Msg.
Forget(i) ==
  /\ a[i].pc = "holding"
  /\ a' = [a EXCEPT ![i].pc = "live", ![i].len = 0]
  /\ UNCHANGED <<shared, p, gate, history, observer>>

\* Msg::drop: advance looks at the flag, and then releases the record.
LoadStarving(i) ==
  /\ a[i].pc = "holding"
  /\ a' = [a EXCEPT ![i].pc = "releasing", ![i].span = starving]
  /\ UNCHANGED <<shared, p, gate, history, observer>>

\* Might this anchor be the gate of a push that needs `span`?
MayBeTheGate(h) == h.span # 0 /\ h.tail_cache - h.published >= Capacity - h.span
MustPublish(h, read) == MayBeTheGate(h) \/ read = h.tail_cache \/ read - h.published >= Batch

advance(i) ==
  /\ a[i].pc = "releasing"
  /\ LET read == a[i].read_cursor + record_len(a[i].len)
         freed == [a[i] EXCEPT !.pc = "live", !.len = 0, !.span = 0, !.read_cursor = read]
     IN  IF MustPublish(a[i], read)
         THEN slots' = [slots EXCEPT ![i] = read] /\ a' = [a EXCEPT ![i] = [freed EXCEPT !.published = read]]
         ELSE UNCHANGED slots /\ a' = [a EXCEPT ![i] = freed]
  /\ UNCHANGED <<buffer, counters, closed, starving, p, gate, history, observer>>

\* drain: the cursor passes a record before the callback borrows it.
PassRecord(i, cache, limit) ==
  LET msg == decode_record(a[i].read_cursor)
  IN  a' = [a EXCEPT ![i].pc = "callback", ![i].tail_cache = cache, ![i].limit = limit,
                     ![i].read_cursor = msg.cur + record_len(msg.len), ![i].len = msg.len]
DrainBegin(i) ==
  /\ a[i].pc = "live" /\ tail # a[i].read_cursor
  /\ PassRecord(i, tail, Min({tail, a[i].read_cursor + Batch}))
  /\ UNCHANGED <<shared, p, gate, history, observer>>
DrainRecord(i) ==
  /\ a[i].pc = "callback" /\ a[i].read_cursor < a[i].limit
  /\ PassRecord(i, a[i].tail_cache, a[i].limit)
  /\ UNCHANGED <<shared, p, gate, history, observer>>

\* The last callback returned, or one unwound: FlushOnDrop.
DrainEnd(i) ==
  /\ a[i].pc = "callback"
  /\ slots' = [slots EXCEPT ![i] = a[i].read_cursor]
  /\ a' = [a EXCEPT ![i].pc = "live", ![i].published = a[i].read_cursor, ![i].len = 0, ![i].limit = 0]
  /\ UNCHANGED <<buffer, counters, closed, starving, p, gate, history, observer>>

\* BytesAnchor::drop: what was deferred no longer matters.  The next handle in its
\* slot knows of what this one knew.
Detach(i) ==
  /\ a[i].pc = "live"
  /\ slots' = [slots EXCEPT ![i] = DETACHED]
  /\ a' = [a EXCEPT ![i] = [NoAnchor EXCEPT !.read_cursor = a[i].tail_cache]]
  /\ UNCHANGED <<buffer, counters, closed, starving, p, gate, history, observer>>

-----------------------------------------------------------------------------
(* The observer *)

\* subscribe_observer and attach_shm_observer, closed or not.
Observe ==
  /\ o.pc = "out"
  /\ o' = [o EXCEPT !.pc = "idle", !.pos = tail, !.tail_cache = tail]
  /\ result' = Returned("none", 0)
  /\ UNCHANGED <<shared, p, gate, history, a>>

available == o.tail_cache > o.pos

\* has_item's reload, once the cached tail shows nothing.
Refresh ==
  /\ o.pc = "idle" /\ ~available
  /\ o' = [o EXCEPT !.tail_cache = tail, !.pc = IF tail > o.pos THEN "idle" ELSE "empty"]
  /\ result' = Returned("none", 0)
  /\ UNCHANGED <<shared, p, gate, history, a>>

\* check_closed: the flag, and if it is up the tail once more.
ObserveClosed ==
  /\ o.pc = "empty"
  /\ o' = [o EXCEPT !.pc = IF closed THEN "recheck" ELSE "idle"]
  /\ UNCHANGED <<shared, p, gate, history, a, result>>
Recheck ==
  /\ o.pc = "recheck"
  /\ o' = [o EXCEPT !.tail_cache = tail, !.pc = "idle"]
  /\ result' = IF tail <= o.pos THEN Returned("closed", 0) ELSE result
  /\ UNCHANGED <<shared, p, gate, history, a>>

\* Has the producer declared to write past what a frame at `pos` may keep?
Overrun == tail_intent < o.pos \/ tail_intent - o.pos > Capacity

\* read_record: the window before parsing, measured from the frame's start.
WindowCheck ==
  /\ (o.pc = "idle" /\ available) \/ o.pc = "skipped"
  /\ o' = [o EXCEPT !.pc = IF Overrun THEN "lapped" ELSE "window",
                    !.cursor = IF o.pc = "idle" THEN o.pos ELSE @]
  /\ result' = Returned("none", 0)
  /\ UNCHANGED <<shared, p, gate, history, a>>

\* The header: padding, a length that no record here has, or a record.
LoadHeader ==
  /\ o.pc = "window"
  /\ LET header == buffer[Position(o.cursor)]
     IN  o' = IF header = PADDING THEN [o EXCEPT !.pc = "padding"]
              ELSE IF header > max_message_len \/ record_len(header) > ToEnd(o.cursor)
              THEN [o EXCEPT !.pc = "lapped"]
              ELSE [o EXCEPT !.pc = "copy", !.len = header]
  /\ UNCHANGED <<shared, p, gate, history, a, result>>

\* The padding was really there: on to the record behind it.
SkipPadding ==
  /\ o.pc = "padding"
  /\ o' = IF Overrun THEN [o EXCEPT !.pc = "lapped"]
          ELSE [o EXCEPT !.pc = "skipped", !.cursor = @ + ToEnd(@)]
  /\ UNCHANGED <<shared, p, gate, history, a, result>>

\* copy_out_lanes, between two steps of the producer.
Copy ==
  /\ o.pc = "copy"
  /\ o' = [o EXCEPT !.pc = "copied",
                    !.copied = {buffer[w] : w \in PayloadAt(Position(o.cursor), o.len)}]
  /\ UNCHANGED <<shared, p, gate, history, a, result>>

\* The window once more, and the record is accepted.
Accept ==
  /\ o.pc = "copied"
  /\ IF Overrun
     THEN o' = [o EXCEPT !.pc = "lapped", !.copied = {}] /\ UNCHANGED result
     ELSE /\ o' = [o EXCEPT !.pc = "idle", !.pos = o.cursor + record_len(o.len), !.len = 0, !.copied = {}]
          /\ result' = Returned("item", <<o.len, o.copied>>)
  /\ UNCHANGED <<shared, p, gate, history, a>>

\* reposition: the tail first, and then the jump target.
RepositionTail ==
  /\ o.pc = "lapped"
  /\ o' = [o EXCEPT !.tail_cache = tail, !.pc = "jump"]
  /\ UNCHANGED <<shared, p, gate, history, a, result>>
RepositionLatest ==
  /\ o.pc = "jump"
  /\ LET new_pos == Max({latest, o.pos})
     IN  /\ o' = [o EXCEPT !.pc = "idle", !.pos = new_pos, !.len = 0]
         /\ result' = Returned("lagged", new_pos - o.pos)
  /\ UNCHANGED <<shared, p, gate, history, a>>

SkipToLatest ==
  /\ o.pc = "idle"
  /\ o' = [o EXCEPT !.tail_cache = tail, !.pos = Max({tail, @})]
  /\ result' = Returned("skipped", Max({tail, o.pos}) - o.pos)
  /\ UNCHANGED <<shared, p, gate, history, a>>

-----------------------------------------------------------------------------

Gate == (\E len \in AllLengths : Frame(len)) \/ Rescan \/ RaiseStarving \/ WaitForSpace \/ Abandon
write_frame == Declare \/ WriteLanes \/ StoreLatest \/ StoreTail
Succession == DropProducer \/ Die \/ Attach \/ Heal

Release(i) == LoadStarving(i) \/ advance(i)
Drain(i) == DrainBegin(i) \/ DrainRecord(i) \/ DrainEnd(i)
AnchorNext(i) ==
  Subscribe(i) \/ pop(i) \/ Forget(i) \/ Release(i) \/ Drain(i) \/ Detach(i)

read_record == WindowCheck \/ LoadHeader \/ SkipPadding \/ Copy \/ Accept
reposition == RepositionTail \/ RepositionLatest
ObserverNext ==
  Observe \/ Refresh \/ ObserveClosed \/ Recheck \/ read_record \/ reposition \/ SkipToLatest

Next == Gate \/ write_frame \/ Succession \/ (\E i \in Anchors : AnchorNext(i)) \/ ObserverNext

Spec == Init /\ [][Next]_vars

-----------------------------------------------------------------------------
(* Properties *)

\* The intent never passes what the anchors have released, whichever session
\* declared it: an observer at or past a live anchor fails no window check, and so
\* loses nothing (the normative order of write_frame, and the floor of a recovery).
AnchorShieldsObservers == \A i \in Anchors : Live(i) => tail_intent - slots[i] <= Capacity

\* Every anchor is lent every record in order and whole, as it was committed, over
\* all the sessions of the producer.
Lending(i) == a[i].pc \in {"holding", "releasing", "callback"}
Start(i) == IF a[i].pc = "callback" THEN a[i].read_cursor - record_len(a[i].len) ELSE a[i].read_cursor
Lent(i) ==
  IF Lending(i) THEN <<a[i].len, {buffer[w] : w \in PayloadAt(Position(Start(i)), a[i].len)}>> ELSE << >>
PastOf(cursor) == Cardinality({n \in DOMAIN frames : frames[n].end <= cursor})
Past(i) == PastOf(Start(i))
AllRecords == {Record(n, len) : n \in 1 .. MaxPushes, len \in AllLengths}
Log == [n \in DOMAIN frames |-> frames[n].record]
At == [i \in Anchors |-> [past |-> IF Live(i) THEN Past(i) ELSE -1, lent |-> Lent(i)]]
ToAnchors == INSTANCE RecordBroadcast WITH
  Consumers <- Anchors, Records <- AllRecords, log <- Log, at <- At
AnchorsLoseNothing == ToAnchors!Spec

\* What an observer sees is a lossy log of whole records, over all the sessions.
ToObserver == INSTANCE LossyRecords WITH
  Records <- AllRecords, begun <- tail_intent, next <- o.pos
ImplementsLossyRecords == ToObserver!Spec
=============================================================================
