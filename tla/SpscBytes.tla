----------------------------- MODULE SpscBytes -----------------------------
(***************************************************************************)
(* The single-producer single-consumer byte ring (src/src/spsc_bytes.rs)   *)
(* over the shared cursor engine (src/src/cursor.rs): records of a length  *)
(* header and a payload, padding in place of a record that would wrap, and *)
(* the flag a starving producer raises.                                    *)
(*                                                                         *)
(* The buffer is read and written by aligned words of ALIGN bytes; a word  *)
(* is a number, and nothing but the framing tells a header from a payload. *)
(* As in SpscRing, a step is one access to what the two threads share.     *)
(***************************************************************************)
EXTENDS RingArith, Sequences

CONSTANTS
  Lengths,        \* the payload lengths pushed, in bytes
  Words,          \* what the words of a payload may be
  MinCapacity,    \* the capacity asked for, in bytes
  Capacity,       \* the capacity it is rounded to
  Modulus,        \* 2^w of the cursor word
  BatchDivisor    \* 8 in the code

HEADER == 4
ALIGN == 4
MIN_CAPACITY == 8
PADDING == -1     \* u32::MAX, the length of no record
Beyond == -2      \* what lies past the end of the buffer
MAX_PUBLISH_BATCH_BYTES == 4096

Batch == publish_batch(Capacity, MAX_PUBLISH_BATCH_BYTES, BatchDivisor)

ASSUME BytesAssumption ==
  /\ MinCapacity \in Nat \ {0} /\ Capacity = round_capacity(MinCapacity, MIN_CAPACITY)
  /\ Capacity \in Nat /\ Capacity % MIN_CAPACITY = 0 /\ Capacity >= MIN_CAPACITY
  /\ BatchDivisor \in Nat \ {0}
  /\ Modulus \in Nat /\ Modulus % Capacity = 0 /\ Modulus >= 2 * Capacity
  /\ Lengths \subseteq Nat /\ Words \subseteq Nat

VARIABLES
  buffer,         \* the aligned words, by byte position
  write_cursor,   \* shared; the producer's private copy equals it between steps
  read_cursor,    \* shared: the consumer's published progress
  starving,       \* shared: the flag beside read_cursor
  p,              \* the producer handle, and the record it is pushing
  c               \* the consumer handle, and the record it is lent

vars == <<buffer, write_cursor, read_cursor, starving, p, c>>

align_up(n) == ((n + ALIGN - 1) \div ALIGN) * ALIGN
record_len(len) == align_up(HEADER + len)

\* Mutant: a record may fill the ring.
max_message_len_whole == Capacity - HEADER
\* Half the ring; the u32 header space is out of reach here.
max_message_len == Capacity \div 2 - HEADER

Position(cursor) == cursor % Capacity
Add(cursor, n) == wrapping_add(cursor, n, Modulus)
Sub(a, b) == wrapping_sub(a, b, Modulus)
Word(position) == IF position < Capacity THEN buffer[position] ELSE Beyond

\* The words of the payload of a record at `position`.
PayloadAt(position, len) ==
  {w \in DOMAIN buffer : position + HEADER <= w /\ w < position + record_len(len)}

Init ==
  /\ buffer = [w \in {ALIGN * i : i \in 0 .. Capacity \div ALIGN - 1} |-> 0]
  /\ write_cursor = 0 /\ read_cursor = 0 /\ starving = 0
  /\ p = [pc |-> "idle", len |-> 0, blocking |-> FALSE,
          read_cursor_cache |-> 0, raised_starving |-> FALSE]
  /\ c = [pc |-> "idle", len |-> 0, read_cursor |-> 0, published |-> 0,
          write_cursor_cache |-> 0, starving |-> 0]

-----------------------------------------------------------------------------
(* The producer *)

\* frame: the padding before a record of this length, if it would wrap.
Pad_never_short(len) ==
  LET to_end == Capacity - Position(write_cursor)
  IN  IF record_len(len) <= to_end + ALIGN THEN 0 ELSE to_end
Pad(len) ==
  LET to_end == Capacity - Position(write_cursor)
  IN  IF record_len(len) <= to_end THEN 0 ELSE to_end
Total(len) == Pad(len) + record_len(len)

Lacks(cache) == lacks_space(write_cursor, Total(p.len), cache, Capacity, Modulus)

\* A call of push or claim, which block, or of try_push or try_claim; a longer
\* message panics before anything is touched.
Frame(len, blocking) ==
  /\ p.pc = "idle" /\ len <= max_message_len
  /\ p' = [p EXCEPT !.pc = "framed", !.len = len, !.blocking = blocking]
  /\ UNCHANGED <<buffer, write_cursor, read_cursor, starving, c>>

\* has_space, when the cached view of the consumer already shows room.
HasSpaceCached ==
  /\ p.pc \in {"framed", "waiting"} /\ ~Lacks(p.read_cursor_cache)
  /\ p' = [p EXCEPT !.pc = "granted", !.raised_starving = FALSE]
  /\ starving' = IF p.raised_starving THEN 0 ELSE starving
  /\ UNCHANGED <<buffer, write_cursor, read_cursor, c>>

\* has_space, when the cursor has to be reloaded.
HasSpaceReload ==
  /\ p.pc \in {"framed", "waiting"} /\ Lacks(p.read_cursor_cache)
  /\ p' = [p EXCEPT !.read_cursor_cache = read_cursor,
                    !.pc = IF Lacks(read_cursor) THEN "starved" ELSE "granted"]
  /\ UNCHANGED <<buffer, write_cursor, read_cursor, starving, c>>

\* Mutant: the flag is tested the wrong way round, and toggled.
RaiseStarving_toggled ==
  /\ p.pc = "starved"
  /\ starving' = 1 - starving
  /\ p' = [p EXCEPT !.raised_starving = TRUE, !.pc = IF p.blocking THEN "waiting" ELSE "idle"]
  /\ UNCHANGED <<buffer, write_cursor, read_cursor, c>>
\* No room: raise the flag, and wait or give up.
RaiseStarving ==
  /\ p.pc = "starved"
  /\ starving' = 1
  /\ p' = [p EXCEPT !.raised_starving = TRUE, !.pc = IF p.blocking THEN "waiting" ELSE "idle"]
  /\ UNCHANGED <<buffer, write_cursor, read_cursor, c>>

RecordAt == Position(Add(write_cursor, Pad(p.len)))

\* The payload, copied by push or serialized in place through a WriteSlot.
WritePayload(v) ==
  /\ p.pc = "granted"
  /\ buffer' = [w \in DOMAIN buffer |-> IF w \in PayloadAt(RecordAt, p.len) THEN v ELSE buffer[w]]
  /\ p' = [p EXCEPT !.pc = "filled"]
  /\ UNCHANGED <<write_cursor, read_cursor, starving, c>>

\* write_frame: the padding header, where there is padding, and the record's.
WriteFrame ==
  /\ p.pc = "filled"
  /\ buffer' = [w \in DOMAIN buffer |->
                  IF w = RecordAt THEN p.len
                  ELSE IF w = Position(write_cursor) /\ Pad(p.len) > 0 THEN PADDING ELSE buffer[w]]
  /\ p' = [p EXCEPT !.pc = "written"]
  /\ UNCHANGED <<write_cursor, read_cursor, starving, c>>

Publish ==
  /\ p.pc = "written"
  /\ write_cursor' = Add(write_cursor, Total(p.len))
  /\ p' = [p EXCEPT !.pc = "idle", !.len = 0, !.blocking = FALSE]
  /\ UNCHANGED <<buffer, read_cursor, starving, c>>

\* A WriteSlot dropped uncommitted; its bytes stay where they were written.
Abandon ==
  /\ p.pc \in {"granted", "filled"}
  /\ p' = [p EXCEPT !.pc = "idle", !.len = 0, !.blocking = FALSE]
  /\ UNCHANGED <<buffer, write_cursor, read_cursor, starving, c>>

DropProducer ==
  /\ p.pc = "idle" /\ p' = [p EXCEPT !.pc = "dropped"]
  /\ UNCHANGED <<buffer, write_cursor, read_cursor, starving, c>>

-----------------------------------------------------------------------------
(* The consumer *)

\* decode_record: where the record at a cursor starts, and its length.
decode_record(cursor) ==
  LET at == Position(cursor)
      skip == IF Word(at) = PADDING THEN Capacity - at ELSE 0
  IN  [cur |-> Add(cursor, skip), len |-> Word(Position(Add(cursor, skip)))]

has_item ==
  /\ c.pc = "idle"
  /\ LET cache == IF no_item(c.write_cursor_cache, c.read_cursor, Modulus)
                  THEN write_cursor ELSE c.write_cursor_cache
     IN  c' = [c EXCEPT
                 !.write_cursor_cache = cache,
                 !.pc = IF no_item(cache, c.read_cursor, Modulus) THEN "idle" ELSE "ready"]
  /\ UNCHANGED <<buffer, write_cursor, read_cursor, starving, p>>

next_msg ==
  /\ c.pc = "ready"
  /\ LET msg == decode_record(c.read_cursor)
     IN  c' = [c EXCEPT !.read_cursor = msg.cur, !.len = msg.len, !.pc = "holding"]
  /\ UNCHANGED <<buffer, write_cursor, read_cursor, starving, p>>

\* mem::forget on a Msg: the next pop delivers the record again.
Forget ==
  /\ c.pc = "holding"
  /\ c' = [c EXCEPT !.pc = "idle", !.len = 0]
  /\ UNCHANGED <<buffer, write_cursor, read_cursor, starving, p>>

\* Msg::drop looks at the flag, and then releases the record.
ProducerStarving ==
  /\ c.pc = "holding"
  /\ c' = [c EXCEPT !.pc = "releasing", !.starving = starving]
  /\ UNCHANGED <<buffer, write_cursor, read_cursor, starving, p>>

\* ConsumerCore::advance: when does progress up to `read` have to be published?
MustPublish(read) ==
  \/ c.starving = 1 \/ read = c.write_cursor_cache \/ Sub(read, c.published) >= Batch

Release ==
  /\ c.pc = "releasing"
  /\ LET read == Add(c.read_cursor, record_len(c.len))
         freed == [c EXCEPT !.pc = "idle", !.len = 0, !.starving = 0, !.read_cursor = read]
     IN  IF MustPublish(read)
         THEN read_cursor' = read /\ c' = [freed EXCEPT !.published = read]
         ELSE UNCHANGED read_cursor /\ c' = freed
  /\ UNCHANGED <<buffer, write_cursor, starving, p>>

\* drain: everything up to a fresh load of the cursor, a record at a time; the
\* cursor passes a record before the callback borrows it.
DrainBegin ==
  /\ c.pc = "idle"
  /\ c' = [c EXCEPT !.write_cursor_cache = write_cursor,
                    !.pc = IF no_item(write_cursor, c.read_cursor, Modulus) THEN "idle" ELSE "drain"]
  /\ UNCHANGED <<buffer, write_cursor, read_cursor, starving, p>>

\* Mutant: drain publishes before it calls back.
DrainRecord_flush_first ==
  /\ c.pc \in {"drain", "callback"} /\ ~no_item(c.write_cursor_cache, c.read_cursor, Modulus)
  /\ LET msg == decode_record(c.read_cursor)
         read == Add(msg.cur, record_len(msg.len))
     IN  /\ c' = [c EXCEPT !.read_cursor = read, !.published = read, !.len = msg.len, !.pc = "callback"]
         /\ read_cursor' = read
  /\ UNCHANGED <<buffer, write_cursor, starving, p>>
DrainRecord ==
  /\ c.pc \in {"drain", "callback"} /\ ~no_item(c.write_cursor_cache, c.read_cursor, Modulus)
  /\ LET msg == decode_record(c.read_cursor)
     IN  c' = [c EXCEPT !.read_cursor = Add(msg.cur, record_len(msg.len)), !.len = msg.len,
                        !.pc = "callback"]
  /\ UNCHANGED <<buffer, write_cursor, read_cursor, starving, p>>

flush_pending(pc) ==
  /\ read_cursor' = c.read_cursor
  /\ c' = [c EXCEPT !.published = c.read_cursor, !.pc = pc, !.len = 0]

\* The records are done, or the callback unwound.
DrainEnd ==
  /\ c.pc = "callback" /\ flush_pending("idle")
  /\ UNCHANGED <<buffer, write_cursor, starving, p>>

DropConsumer ==
  /\ c.pc = "idle" /\ flush_pending("dropped")
  /\ UNCHANGED <<buffer, write_cursor, starving, p>>

Terminated == p.pc = "dropped" /\ c.pc = "dropped" /\ UNCHANGED vars

-----------------------------------------------------------------------------

has_space == HasSpaceCached \/ HasSpaceReload \/ RaiseStarving

ProducerNext ==
  \/ \E len \in Lengths, blocking \in BOOLEAN : Frame(len, blocking)
  \/ has_space \/ (\E v \in Words : WritePayload(v)) \/ WriteFrame \/ Publish \/ Abandon

Drain == DrainBegin \/ DrainRecord \/ DrainEnd
ConsumerNext == has_item \/ next_msg \/ Forget \/ ProducerStarving \/ Release \/ Drain

Next == ProducerNext \/ DropProducer \/ ConsumerNext \/ DropConsumer \/ Terminated

Spec == Init /\ [][Next]_vars

\* A thread inside a call keeps running, a blocked push and a blocked pop keep
\* polling, and an application that pops does not forget every record.
Fairness ==
  /\ WF_vars(has_space) /\ WF_vars((\E v \in Words : WritePayload(v)) \/ WriteFrame \/ Publish)
  /\ WF_vars(has_item) /\ WF_vars(next_msg) /\ SF_vars(ProducerStarving) /\ WF_vars(Release)
  /\ WF_vars(DrainRecord \/ DrainEnd)

LiveSpec == Spec /\ Fairness

-----------------------------------------------------------------------------
(* Properties *)

\* Every field stays in its domain, and every cursor on a record boundary.
Cursor == {n \in 0 .. Modulus - 1 : n % ALIGN = 0}
TypeOK ==
  /\ \A w \in DOMAIN buffer : buffer[w] \in Nat \union {PADDING}
  /\ write_cursor \in Cursor /\ read_cursor \in Cursor /\ starving \in {0, 1}
  /\ p \in [pc : {"idle", "framed", "starved", "waiting", "granted", "filled", "written", "dropped"},
            len : Lengths \union {0}, blocking : BOOLEAN,
            read_cursor_cache : Cursor, raised_starving : BOOLEAN]
  /\ c \in [pc : {"idle", "ready", "holding", "releasing", "drain", "callback", "dropped"},
            len : Lengths \union {0}, read_cursor : Cursor, published : Cursor,
            write_cursor_cache : Cursor, starving : {0, 1}]

\* The records between two cursors, as the consumer would decode them.
Payload(position, len) ==
  [i \in 1 .. (record_len(len) - HEADER) \div ALIGN |-> Word(position + HEADER + ALIGN * (i - 1))]
Record(msg) == [len |-> msg.len, payload |-> Payload(Position(msg.cur), msg.len)]
Decoded(tail) ==
  LET record[left \in {n \in 0 .. Capacity : n % ALIGN = 0}] ==
        IF left = 0 THEN << >>
        ELSE LET msg == decode_record(Sub(tail, left))
                 after == left - Sub(msg.cur, Sub(tail, left)) - record_len(msg.len)
             IN  <<Record(msg)>> \o (IF after < 0 THEN << >> ELSE record[after])
  IN  record

\* The ring is a queue of whole records that fit its capacity: a record enters
\* at Publish, and leaves when its Msg is dropped or drain passes it.
AllRecords ==
  UNION {{[len |-> len, payload |-> [i \in 1 .. (record_len(len) - HEADER) \div ALIGN |-> v]]
           : v \in Words} : len \in Lengths}
SizeOf(record) == record_len(record.len)
Abstract == INSTANCE RecordQueue WITH
  Records <- AllRecords, Size <- SizeOf,
  queue <- Decoded(write_cursor)[Sub(write_cursor, c.read_cursor)]
ImplementsRecordQueue == Abstract!Spec

\* The record a drain callback borrows, which the cursor has already passed, is
\* still whole: the producer cannot reuse it before the flush (BytesConsumer::drain).
DrainedIsIntact ==
  c.pc = "callback" =>
    LET start == Sub(c.read_cursor, record_len(c.len))
    IN  /\ Sub(write_cursor, start) <= Capacity
        /\ Record(decode_record(start)) \in AllRecords /\ decode_record(start).len = c.len

\* A release that saw the flag of the push that waits hands over all that was read,
\* whatever is deferred and however far the batch: between the flag's raise and the
\* room for that push nothing lowers it (ProducerCore::has_space, Msg::drop).
StarvedIsReleased ==
  [][(/\ c.pc = "releasing" /\ c'.pc = "idle"
      /\ p.pc = "waiting" /\ c.starving = starving)
       => read_cursor' = c'.read_cursor]_vars

\* A blocked push of any message up to the maximum gets its space, wherever
\* the cursors sit, unless the consumer goes away (the module's documentation).
PushProceeds == (p.pc = "framed" /\ p.blocking) ~> (p.pc = "granted" \/ c.pc = "dropped")
=============================================================================
