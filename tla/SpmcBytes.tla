----------------------------- MODULE SpmcBytes -----------------------------
(***************************************************************************)
(* The gating single-producer multi-consumer byte ring                     *)
(* (src/src/spmc_bytes.rs): SpscBytes' framing over SpmcRing's registry.   *)
(*                                                                         *)
(* What is new is how the two meet: a push needs a different span each     *)
(* time, a starved producer shows that span in its flag, and a consumer    *)
(* publishes at once if it may be the one in the way.  The registry's own  *)
(* accesses are SpmcRing's: here joining, leaving and a scan are one step  *)
(* each, and what the fences leave open, how old a cursor a joiner may     *)
(* find, is a choice.                                                      *)
(***************************************************************************)
EXTENDS RingArith, Sequences, FiniteSetsExt, Functions

CONSTANTS
  Consumers,      \* consumer handles, each with its registry slot
  Capacity,       \* bytes (a power of two; its alignment is all that matters)
  BatchDivisor,   \* 8 in the code
  Lengths,        \* the payload lengths, in bytes, that the n-th record may have
  MaxPushes       \* bound on the records published

HEADER == 4
ALIGN == 4
MIN_CAPACITY == 8
PADDING == -1     \* u32::MAX, the length of no record
DETACHED == -1    \* u64::MAX, which no cursor reaches
MAX_PUBLISH_BATCH_BYTES == 4096

ASSUME SpmcBytesAssumption ==
  /\ Capacity \in Nat /\ Capacity % ALIGN = 0 /\ Capacity >= MIN_CAPACITY
  /\ BatchDivisor \in Nat \ {0} /\ MaxPushes \in Nat
  /\ Lengths \in [1 .. MaxPushes -> SUBSET Nat]

AllLengths == UNION Range(Lengths)
Batch == publish_batch(Capacity, MAX_PUBLISH_BATCH_BYTES, BatchDivisor)
max_message_len == Capacity \div 2 - HEADER
record_len(len) == ((HEADER + len + ALIGN - 1) \div ALIGN) * ALIGN

VARIABLES
  buffer,         \* the aligned words, by byte position
  write_cursor,   \* also the producer's next_seq: publish advances both
  closed, starving,
  slots,          \* each consumer's published cursor, or DETACHED
  p,              \* the producer handle, and the record it is pushing
  cached_cursors, \* the producer's copy of `slots`
  fence_seq,      \* write_cursor at the producer's last SeqCst fence
  c,              \* the consumer handles, and the records they are lent
  log, ends       \* every record ever published, and where each ends

shared == <<buffer, write_cursor, closed, starving, slots>>
producer == <<p, cached_cursors, fence_seq, log, ends>>
vars == <<shared, producer, c>>

Position(cursor) == cursor % Capacity
PayloadAt(position, len) ==
  {w \in DOMAIN buffer : position + HEADER <= w /\ w < position + record_len(len)}

NoHandle == [pc |-> "out", read_cursor |-> 0, published |-> 0, write_cache |-> 0,
             len |-> 0, limit |-> 0, span |-> 0]
Subscribed(cursor) ==
  [NoHandle EXCEPT !.pc = "live", !.read_cursor = cursor, !.published = cursor, !.write_cache = cursor]

Live(i) == slots[i] # DETACHED

\* with_wait_strategies: the ring, its producer and a first consumer.
Init ==
  /\ buffer = [w \in {ALIGN * i : i \in 0 .. Capacity \div ALIGN - 1} |-> 0]
  /\ write_cursor = 0 /\ closed = FALSE /\ starving = 0
  /\ p = [pc |-> "idle", len |-> 0, cached_min |-> 0, raised_starving |-> FALSE]
  /\ cached_cursors = [i \in Consumers |-> 0] /\ fence_seq = 0
  /\ log = << >> /\ ends = << >>
  /\ \E first \in Consumers :
       /\ slots = [i \in Consumers |-> IF i = first THEN 0 ELSE DETACHED]
       /\ c = [i \in Consumers |-> IF i = first THEN Subscribed(0) ELSE NoHandle]

-----------------------------------------------------------------------------
(* The producer: the gate *)

Pad(len) ==
  LET to_end == Capacity - Position(write_cursor)
  IN  IF record_len(len) <= to_end THEN 0 ELSE to_end
Needed(len) == Pad(len) + record_len(len)

Lacks_by_word(needed, read) == write_cursor + needed - read > Capacity + ALIGN
Lacks(needed, read) == write_cursor + needed - read > Capacity

\* has_space, when the cached minimum shows room: the flag is lowered.
Granted(len) ==
  /\ p' = [p EXCEPT !.pc = "granted", !.len = len, !.raised_starving = FALSE]
  /\ starving' = IF p.raised_starving THEN 0 ELSE starving

\* push, claim, try_push or try_claim; a longer message panics.
Frame(len) ==
  /\ p.pc = "idle" /\ Len(log) < MaxPushes /\ len \in Lengths[Len(log) + 1] /\ len <= max_message_len
  /\ IF Lacks(Needed(len), p.cached_min)
     THEN p' = [p EXCEPT !.pc = "lacking", !.len = len] /\ UNCHANGED starving
     ELSE Granted(len)
  /\ UNCHANGED <<buffer, write_cursor, closed, slots, cached_cursors, fence_seq, log, ends, c>>

\* scan_chunk_registry: only the cursors that are in the way are loaded.
Scanned(needed) ==
  [i \in Consumers |-> IF Live(i) /\ Lacks(needed, cached_cursors[i]) THEN slots[i] ELSE cached_cursors[i]]
NewMin(cursors) ==
  IF \E i \in Consumers : Live(i) THEN Min({cursors[i] : i \in {i \in Consumers : Live(i)}})
  ELSE write_cursor - 1

\* rescan, when the cached minimum shows no room: the fence, the scan and the new
\* minimum.  Room found only now leaves the flag as it is.
Rescan ==
  /\ p.pc = "lacking"
  /\ LET cursors == Scanned(Needed(p.len))
         min == NewMin(cursors)
     IN  /\ cached_cursors' = cursors
         /\ p' = [p EXCEPT !.cached_min = min,
                           !.pc = IF Lacks(Needed(p.len), min) THEN "starved" ELSE "granted"]
  /\ fence_seq' = write_cursor
  /\ UNCHANGED <<shared, log, ends, c>>

\* No room: the flag shows what this push needs.  push and claim wait, try_push
\* and try_claim give up.
RaiseStarving ==
  /\ p.pc = "starved"
  /\ starving' = Needed(p.len)
  /\ p' \in {[p EXCEPT !.raised_starving = TRUE, !.pc = pc] : pc \in {"waiting", "idle"}}
  /\ UNCHANGED <<buffer, write_cursor, closed, slots, cached_cursors, fence_seq, log, ends, c>>

\* wait_for_space: the predicate scans, and so does has_space around it.  Room that the
\* predicate found passes has_space's cached check, which lowers the flag; room that
\* has_space itself finds leaves the flag up.
WaitForSpace ==
  /\ p.pc = "waiting"
  /\ LET cursors == Scanned(Needed(p.len))
         min == NewMin(cursors)
     IN  /\ cached_cursors' = cursors
         /\ IF Lacks(Needed(p.len), min)
            THEN p' = [p EXCEPT !.cached_min = min] /\ UNCHANGED starving
            ELSE \E kept \in BOOLEAN :
                   /\ p' = [p EXCEPT !.cached_min = min, !.pc = "granted", !.raised_starving = kept]
                   /\ starving' = IF kept THEN starving ELSE 0
  /\ fence_seq' = write_cursor
  /\ UNCHANGED <<buffer, write_cursor, closed, slots, log, ends, c>>

-----------------------------------------------------------------------------
(* The producer: the record *)

\* A record as the consumers see it: its length, and what its words hold.
Record(n, len) == <<len, IF len = 0 THEN {} ELSE {n}>>

RecordAt == Position(write_cursor + Pad(p.len))

\* The payload of the n-th record is n, in every word.
WithPayload ==
  [w \in DOMAIN buffer |-> IF w \in PayloadAt(RecordAt, p.len) THEN Len(log) + 1 ELSE buffer[w]]

\* write_frame, or a commit: the payload, the headers and the publish.
write_frame ==
  /\ p.pc = "granted"
  /\ buffer' = [w \in DOMAIN buffer |->
                  IF w = RecordAt THEN p.len
                  ELSE IF w = Position(write_cursor) /\ Pad(p.len) > 0 THEN PADDING ELSE WithPayload[w]]
  /\ write_cursor' = write_cursor + Needed(p.len)
  /\ ends' = Append(ends, write_cursor') /\ log' = Append(log, Record(Len(log) + 1, p.len))
  /\ p' = [p EXCEPT !.pc = "idle", !.len = 0]
  /\ UNCHANGED <<closed, starving, slots, cached_cursors, fence_seq, c>>

\* A WriteSlot dropped uncommitted; its bytes stay where they were written.
Abandon ==
  /\ p.pc = "granted" /\ buffer' = WithPayload
  /\ p' = [p EXCEPT !.pc = "idle", !.len = 0]
  /\ UNCHANGED <<write_cursor, closed, starving, slots, cached_cursors, fence_seq, log, ends, c>>

-----------------------------------------------------------------------------
(* The producer: its end *)

DropProducer ==
  /\ p.pc = "idle" /\ closed' = TRUE
  /\ p' = [p EXCEPT !.pc = "gone"]
  /\ UNCHANGED <<buffer, write_cursor, starving, slots, cached_cursors, fence_seq, log, ends, c>>

-----------------------------------------------------------------------------
(* A consumer *)

\* subscribe: the join point is a published cursor no older than the
\* producer's last fence.
Subscribe(i) ==
  /\ c[i].pc = "out" /\ ~closed
  /\ \E joined \in {0} \union {ends[n] : n \in DOMAIN ends} :
       /\ fence_seq <= joined /\ cached_cursors[i] <= joined
       /\ slots' = [slots EXCEPT ![i] = joined]
       /\ c' = [c EXCEPT ![i] = Subscribed(joined)]
  /\ UNCHANGED <<buffer, write_cursor, closed, starving, producer>>

\* decode_record: where the record at a cursor starts, and its length.
decode_record(cursor) ==
  LET skip == IF buffer[Position(cursor)] = PADDING THEN Capacity - Position(cursor) ELSE 0
  IN  [cur |-> cursor + skip, len |-> buffer[Position(cursor + skip)]]

\* The record is decoded, and the padding before it is folded into the cursor.
next_msg(i, cache) ==
  LET msg == decode_record(c[i].read_cursor)
  IN  c' = [c EXCEPT ![i].pc = "holding", ![i].write_cache = cache,
                     ![i].read_cursor = msg.cur, ![i].len = msg.len]

\* has_item: the write cursor is loaded only when the cached one says empty.
has_item(h) == IF h.write_cache = h.read_cursor THEN write_cursor ELSE h.write_cache

\* pop and try_pop: the record, if there is one.
pop(i) ==
  /\ c[i].pc \in {"live", "closed"}
  /\ LET cache == has_item(c[i])
     IN  IF cache = c[i].read_cursor THEN c' = [c EXCEPT ![i].pc = "empty"] ELSE next_msg(i, cache)
  /\ UNCHANGED <<shared, producer>>

\* check_closed, on an empty ring: the flag, and if it is up the cursor once
\* more, which no producer moves any longer.
CheckClosed(i) ==
  /\ c[i].pc = "empty"
  /\ IF closed /\ write_cursor # c[i].read_cursor THEN next_msg(i, write_cursor)
     ELSE c' = [c EXCEPT ![i].pc = IF closed THEN "closed" ELSE "live"]
  /\ UNCHANGED <<shared, producer>>

\* mem::forget on a Msg.
Forget(i) ==
  /\ c[i].pc = "holding"
  /\ c' = [c EXCEPT ![i].pc = "live", ![i].len = 0]
  /\ UNCHANGED <<shared, producer>>

\* Msg::drop: advance looks at the flag, and then releases the record.
LoadStarving(i) ==
  /\ c[i].pc = "holding"
  /\ c' = [c EXCEPT ![i].pc = "releasing", ![i].span = starving]
  /\ UNCHANGED <<shared, producer>>

\* Might this consumer be the gate of a push that needs `span`?
MayBeTheGate_private(h) == h.span # 0 /\ h.write_cache - h.read_cursor >= Capacity - h.span
MayBeTheGate(h) == h.span # 0 /\ h.write_cache - h.published >= Capacity - h.span

MustPublish_batched(h, read) == MayBeTheGate(h) \/ read - h.published >= Batch
MustPublish(h, read) == MayBeTheGate(h) \/ read = h.write_cache \/ read - h.published >= Batch

advance(i) ==
  /\ c[i].pc = "releasing"
  /\ LET read == c[i].read_cursor + record_len(c[i].len)
         freed == [c[i] EXCEPT !.pc = "live", !.len = 0, !.span = 0, !.read_cursor = read]
     IN  IF MustPublish(c[i], read)
         THEN slots' = [slots EXCEPT ![i] = read] /\ c' = [c EXCEPT ![i] = [freed EXCEPT !.published = read]]
         ELSE UNCHANGED slots /\ c' = [c EXCEPT ![i] = freed]
  /\ UNCHANGED <<buffer, write_cursor, closed, starving, producer>>

\* drain: the cursor passes a record before the callback borrows it.
PassRecord(i, cache, limit) ==
  LET msg == decode_record(c[i].read_cursor)
  IN  c' = [c EXCEPT ![i].pc = "callback", ![i].write_cache = cache, ![i].limit = limit,
                     ![i].read_cursor = msg.cur + record_len(msg.len), ![i].len = msg.len]
DrainBegin(i) ==
  /\ c[i].pc = "live" /\ write_cursor # c[i].read_cursor
  /\ PassRecord(i, write_cursor, Min({write_cursor, c[i].read_cursor + Batch}))
  /\ UNCHANGED <<shared, producer>>
DrainRecord(i) ==
  /\ c[i].pc = "callback" /\ c[i].read_cursor < c[i].limit
  /\ PassRecord(i, c[i].write_cache, c[i].limit)
  /\ UNCHANGED <<shared, producer>>

\* The last callback returned, or one unwound: FlushOnDrop.
DrainEnd(i) ==
  /\ c[i].pc = "callback"
  /\ slots' = [slots EXCEPT ![i] = c[i].read_cursor]
  /\ c' = [c EXCEPT ![i].pc = "live", ![i].published = c[i].read_cursor, ![i].len = 0, ![i].limit = 0]
  /\ UNCHANGED <<buffer, write_cursor, closed, starving, producer>>

\* BytesConsumer::drop: what was deferred no longer matters.
Detach(i) ==
  /\ c[i].pc \in {"live", "closed"}
  /\ slots' = [slots EXCEPT ![i] = DETACHED]
  /\ c' = [c EXCEPT ![i] = [NoHandle EXCEPT !.pc = "gone"]]
  /\ UNCHANGED <<buffer, write_cursor, closed, starving, producer>>

-----------------------------------------------------------------------------

has_space == Rescan \/ RaiseStarving \/ WaitForSpace

ProducerNext ==
  \/ \E len \in AllLengths : Frame(len)
  \/ has_space \/ write_frame \/ Abandon \/ DropProducer

Release(i) == LoadStarving(i) \/ advance(i)
Drain(i) == DrainBegin(i) \/ DrainRecord(i) \/ DrainEnd(i)
ConsumerNext(i) ==
  \/ Subscribe(i) \/ pop(i) \/ CheckClosed(i) \/ Forget(i) \/ Release(i) \/ Drain(i)
  \/ Detach(i)

Next == ProducerNext \/ \E i \in Consumers : ConsumerNext(i)

Spec == Init /\ [][Next]_vars

\* A blocked push polls and a consumer keeps popping (strong: their threads may make
\* other calls in between); a call that began ends; and an application does not
\* forget every record it takes.
Fairness ==
  /\ SF_vars(WaitForSpace) /\ WF_vars(write_frame)
  /\ \A i \in Consumers :
       /\ SF_vars(pop(i)) /\ WF_vars(CheckClosed(i))
       /\ SF_vars(Release(i)) /\ WF_vars(DrainEnd(i))

LiveSpec == Spec /\ Fairness

-----------------------------------------------------------------------------
(* Properties *)

\* Every consumer is lent, in order and whole, every record from where it
\* joined: whatever the spans, the scans and the joins, and whoever pushed them.
Lending(i) == c[i].pc \in {"holding", "releasing", "callback"}
Start(i) == IF c[i].pc = "callback" THEN c[i].read_cursor - record_len(c[i].len) ELSE c[i].read_cursor
Lent(i) ==
  IF Lending(i) THEN <<c[i].len, {buffer[w] : w \in PayloadAt(Position(Start(i)), c[i].len)}>> ELSE << >>
PastOf(cursor) == Cardinality({n \in DOMAIN ends : ends[n] <= cursor})
Past(i) == PastOf(Start(i))
AllRecords == {Record(n, len) : n \in 1 .. MaxPushes, len \in AllLengths}
At == [i \in Consumers |-> [past |-> IF Live(i) THEN Past(i) ELSE -1, lent |-> Lent(i)]]
Abstract == INSTANCE RecordBroadcast WITH Records <- AllRecords, at <- At
ImplementsRecordBroadcast == Abstract!Spec

\* A release that saw the flag of the push that waits, and knows of all that is
\* published, leaves its consumer out of the way or its progress published: the
\* flag always shows the span of that push, and the threshold it gives leaves
\* out no consumer in the way (BytesConsumer::advance).
GateIsReleased ==
  [][\A i \in Consumers :
       (/\ c[i].pc = "releasing" /\ c'[i].pc = "live"
        /\ p.pc = "waiting" /\ c[i].span = starving /\ c[i].write_cache = write_cursor
        /\ Lacks(Needed(p.len), c'[i].published))
         => c'[i].published = c'[i].read_cursor]_vars

\* A push that waits gets its span in the end, whatever the batches, the skipped
\* padding and the spans of earlier pushes, and if every consumer leaves.
PushProceeds == p.pc = "waiting" ~> p.pc = "granted"
=============================================================================
