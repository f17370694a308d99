--------------------------- MODULE BroadcastRing ---------------------------
(***************************************************************************)
(* The lossy broadcast element ring (src/src/broadcast.rs), its per-slot   *)
(* seqlock (src/src/seqlock.rs) and its word-wise payload copies           *)
(* (src/src/atomic_copy.rs).                                               *)
(*                                                                         *)
(* The producer never looks at a consumer, and a consumer only reads, so   *)
(* one consumer shows what any of them can see.                            *)
(*                                                                         *)
(* Memory is StoreLog's: all shared stores are the producer's, and a load  *)
(* returns any store of its location that the consumer may still see.      *)
(***************************************************************************)
EXTENDS RingArith, StoreLog

CONSTANTS
  Capacity,       \* slots (a power of two in the code)
  Slack,          \* the reposition slack
  Words,          \* words of a payload
  BatchDivisor,   \* 8 in the code
  MaxSeq          \* bound on the messages pushed

ASSUME BroadcastAssumption ==
  /\ Capacity \in Nat \ {0} /\ Slack \in 0 .. Capacity - 1
  /\ Words \in Nat \ {0} /\ BatchDivisor \in Nat \ {0} /\ MaxSeq \in Nat

Uninit == -1      \* a payload word never written

VARIABLES
  \* the producer
  ppc, next_seq, unpublished, tail_batch,
  \* the consumer
  cpc, pos, tail_cache,
  seen_seq,       \* the generation its read first saw
  copy, word,     \* the payload words copied so far: their values, and how many
  result          \* what its last call returned

producer == <<log, fenced, ppc, next_seq, unpublished, tail_batch>>
consumer == <<cpc, pos, tail_cache, seen_seq, copy, word, view, pending, result>>
vars == <<producer, consumer>>

slot(s) == s % Capacity
Generation(s) == <<"seq", slot(s)>>
Word(s, w) == <<"word", slot(s), w>>
TailWord == <<"tail">>
ClosedFlag == <<"closed">>

Returned(kind, what) == [kind |-> kind, what |-> what]

\* The producer has its consumer from the start; another subscribes later.
Init ==
  /\ log = << >> /\ fenced = 0
  /\ ppc = "idle" /\ next_seq = 0 /\ unpublished = 0 /\ tail_batch = 1
  /\ pos = 0 /\ tail_cache = 0
  /\ seen_seq = 0 /\ copy = {} /\ word = 0 /\ view = 0 /\ pending = 0
  /\ \/ cpc = "idle" /\ result = Returned("none", {})
     \/ cpc = "out" /\ result = Returned("out", {})

-----------------------------------------------------------------------------
(* The producer *)

Invalidate_unfenced ==
  /\ ppc = "idle" /\ next_seq < MaxSeq
  /\ log' = Append(log, Relaxed(Generation(next_seq), 2 * next_seq + 1))
  /\ ppc' = "payload"
  /\ UNCHANGED <<fenced, next_seq, unpublished, tail_batch, consumer>>

\* push: the odd generation, and the Release fence after it.
Invalidate ==
  /\ ppc = "idle" /\ next_seq < MaxSeq
  /\ log' = Append(log, Relaxed(Generation(next_seq), 2 * next_seq + 1))
  /\ fenced' = Len(log')
  /\ ppc' = "payload"
  /\ UNCHANGED <<next_seq, unpublished, tail_batch, consumer>>

\* The payload of message s is s, in every word.
WritePayload ==
  /\ ppc = "payload"
  /\ log' = log \o [w \in 1 .. Words |-> Relaxed(Word(next_seq, w), next_seq)]
  /\ ppc' = "publish"
  /\ UNCHANGED <<fenced, next_seq, unpublished, tail_batch, consumer>>

PublishSlot ==
  /\ ppc = "publish"
  /\ log' = Append(log, Release(Generation(next_seq), 2 * next_seq + 2))
  /\ next_seq' = next_seq + 1
  /\ unpublished' = unpublished + 1
  /\ ppc' = IF unpublished' >= tail_batch THEN "frontier" ELSE "idle"
  /\ UNCHANGED <<fenced, tail_batch, consumer>>

publish_tail ==
  /\ log' = Append(log, Release(TailWord, next_seq))
  /\ unpublished' = 0

PublishTail ==
  /\ ppc = "frontier" /\ publish_tail
  /\ ppc' = "idle"
  /\ UNCHANGED <<fenced, next_seq, tail_batch, consumer>>

flush == IF unpublished > 0 THEN publish_tail ELSE UNCHANGED <<log, unpublished>>

Flush ==
  /\ ppc = "idle" /\ unpublished > 0 /\ flush
  /\ UNCHANGED <<fenced, ppc, next_seq, tail_batch, consumer>>

\* What a requested batch is clamped to.
MaxBatch_unslacked ==
  IF Capacity \div BatchDivisor < 1 THEN 1 ELSE Capacity \div BatchDivisor
MaxBatch ==
  LET m == IF Capacity \div BatchDivisor < Slack THEN Capacity \div BatchDivisor ELSE Slack
  IN  IF m < 1 THEN 1 ELSE m

SetTailBatch_lazy(request) ==
  /\ ppc = "idle"
  /\ tail_batch' = Clamp(request, 1, MaxBatch)
  /\ UNCHANGED <<log, fenced, unpublished, ppc, next_seq, consumer>>
SetTailBatch(request) ==
  /\ ppc = "idle"
  /\ tail_batch' = Clamp(request, 1, MaxBatch)
  /\ IF unpublished >= tail_batch' THEN publish_tail ELSE UNCHANGED <<log, unpublished>>
  /\ UNCHANGED <<fenced, ppc, next_seq, consumer>>

\* Producer::drop: the tail debt, then the close flag.
DropProducer_unflushed ==
  /\ ppc = "idle"
  /\ ppc' = "closing"
  /\ UNCHANGED <<log, fenced, unpublished, next_seq, tail_batch, consumer>>
DropProducer ==
  /\ ppc = "idle" /\ flush
  /\ ppc' = "closing"
  /\ UNCHANGED <<fenced, next_seq, tail_batch, consumer>>

StoreClosed ==
  /\ ppc = "closing"
  /\ log' = Append(log, Release(ClosedFlag, 1))
  /\ ppc' = "closed"
  /\ UNCHANGED <<fenced, next_seq, unpublished, tail_batch, consumer>>

-----------------------------------------------------------------------------
(* What a load may return *)

Payload(t) == IF t = 0 THEN Uninit ELSE log[t].val

\* Memory makes a store visible in finite time: old values are not read for ever.
CatchUp ==
  /\ view # Now /\ view' = Now
  /\ UNCHANGED <<producer, cpc, pos, tail_cache, seen_seq, copy, word, pending, result>>

-----------------------------------------------------------------------------
(* The consumer *)

\* subscribe: on a thread that may know no more than the initial state.
Subscribe ==
  /\ cpc = "out"
  /\ \E t \in Visible(TailWord) :
       pos' = Value(t) /\ tail_cache' = Value(t) /\ view' = With(view, t)
  /\ cpc' = "idle" /\ result' = Returned("none", {})
  /\ UNCHANGED <<producer, seen_seq, copy, word, pending>>

\* has_item's reload, once the cached tail shows nothing.
Refresh_relaxed ==
  /\ cpc = "idle" /\ tail_cache <= pos
  /\ \E t \in Visible(TailWord) :
       /\ tail_cache' = Value(t)
       /\ cpc' = IF Value(t) > pos THEN "idle" ELSE "empty"
  /\ UNCHANGED <<producer, pos, seen_seq, copy, word, view, pending, result>>
Refresh ==
  /\ cpc = "idle" /\ tail_cache <= pos
  /\ \E t \in Visible(TailWord) :
       /\ tail_cache' = Value(t) /\ view' = With(view, t)
       /\ cpc' = IF Value(t) > pos THEN "idle" ELSE "empty"
  /\ UNCHANGED <<producer, pos, seen_seq, copy, word, pending, result>>

\* check_closed: the flag, and if it is up the tail once more.
CheckClosed ==
  /\ cpc = "empty"
  /\ \E t \in Visible(ClosedFlag) :
       /\ view' = With(view, t)
       /\ cpc' = IF Value(t) # 0 THEN "recheck" ELSE "idle"
  /\ UNCHANGED <<producer, pos, tail_cache, seen_seq, copy, word, pending, result>>
Recheck ==
  /\ cpc = "recheck"
  /\ \E t \in Visible(TailWord) :
       /\ tail_cache' = Value(t) /\ view' = With(view, t)
       /\ result' = IF Value(t) <= pos THEN Returned("closed", {}) ELSE result
  /\ cpc' = "idle"
  /\ UNCHANGED <<producer, pos, seen_seq, copy, word, pending>>

\* read_valid: the generation, the copy, the fence, the generation again.
LoadSeq ==
  /\ cpc = "idle" /\ tail_cache > pos
  /\ \E t \in Visible(Generation(pos)) :
       /\ seen_seq' = Value(t) /\ view' = With(view, t)
       /\ cpc' = IF Value(t) = 2 * pos + 2 THEN "copy" ELSE "lapped"
  /\ UNCHANGED <<producer, pos, tail_cache, copy, word, pending, result>>

CopyWord ==
  /\ cpc = "copy" /\ word < Words
  /\ \E t \in Visible(Word(pos, word + 1)) :
       copy' = copy \union {Payload(t)} /\ pending' = With(pending, t)
  /\ word' = word + 1
  /\ UNCHANGED <<producer, cpc, pos, tail_cache, seen_seq, view, result>>

CopyFence ==
  /\ cpc = "copy" /\ word = Words
  /\ view' = Fenced
  /\ cpc' = "revalidate"
  /\ UNCHANGED <<producer, pos, tail_cache, seen_seq, copy, word, pending, result>>

Revalidate ==
  /\ cpc = "revalidate"
  /\ \E t \in Visible(Generation(pos)) :
       IF Value(t) = seen_seq
       THEN cpc' = "idle" /\ pos' = pos + 1 /\ result' = Returned("item", copy)
       ELSE cpc' = "lapped" /\ UNCHANGED <<pos, result>>
  /\ seen_seq' = 0 /\ copy' = {} /\ word' = 0 /\ pending' = 0
  /\ UNCHANGED <<producer, tail_cache, view>>

\* The lap-recovery target, tail + slack - capacity, saturating at zero.
reposition_target(tail) == IF tail + Slack < Capacity THEN 0 ELSE tail + Slack - Capacity

Reposition ==
  /\ cpc = "lapped"
  /\ \E t \in Visible(TailWord) :
       LET target == reposition_target(Value(t))
           new_pos == IF target < pos THEN pos ELSE target
       IN  /\ tail_cache' = Value(t) /\ view' = With(view, t)
           /\ pos' = new_pos /\ result' = Returned("lagged", {new_pos - pos})
  /\ seen_seq' = 0
  /\ cpc' = "idle"
  /\ UNCHANGED <<producer, copy, word, pending>>

SkipToLatest ==
  /\ cpc = "idle"
  /\ \E t \in Visible(TailWord) :
       LET skipped == IF Value(t) < pos THEN 0 ELSE Value(t) - pos
       IN  /\ tail_cache' = Value(t) /\ view' = With(view, t)
           /\ pos' = pos + skipped /\ result' = Returned("skipped", {skipped})
  /\ UNCHANGED <<producer, cpc, seen_seq, copy, word, pending>>

-----------------------------------------------------------------------------

Pushing == WritePayload \/ PublishSlot \/ PublishTail
ProducerNext ==
  \/ Invalidate \/ Pushing \/ Flush \/ (\E n \in 1 .. Capacity : SetTailBatch(n))
  \/ DropProducer \/ StoreClosed

Pop ==
  \/ Refresh \/ CheckClosed \/ Recheck
  \/ LoadSeq \/ CopyWord \/ CopyFence \/ Revalidate \/ Reposition

Next == ProducerNext \/ CatchUp \/ Subscribe \/ Pop \/ SkipToLatest

Spec == Init /\ [][Next]_vars

\* A push that began ends, memory catches up, and the consumer keeps popping.
Fairness == WF_vars(Pushing) /\ WF_vars(CatchUp) /\ WF_vars(Pop)

LiveSpec == Spec /\ Fairness

-----------------------------------------------------------------------------
(* Properties *)

\* Every variable stays in its domain, and the debt stays below the batch.
TypeOK ==
  /\ \A t \in 1 .. Now : log[t].val \in Nat /\ log[t].rel \in 0 .. t
  /\ fenced \in 0 .. Now /\ next_seq \in 0 .. MaxSeq
  /\ ppc \in {"idle", "payload", "publish", "frontier", "closing", "closed"}
  /\ tail_batch \in 1 .. MaxBatch
  /\ ppc # "frontier" => unpublished \in 0 .. tail_batch - 1
  /\ cpc \in {"out", "idle", "empty", "recheck", "copy", "revalidate", "lapped"}
  /\ pos \in 0 .. MaxSeq /\ tail_cache \in 0 .. MaxSeq /\ seen_seq \in Nat
  /\ copy \subseteq {Uninit} \union 0 .. MaxSeq /\ word \in 0 .. Words
  /\ view \in 0 .. Now /\ pending \in 0 .. Now
  /\ result.kind \in {"out", "none", "item", "lagged", "skipped", "closed"}

\* A consumer never finds the slot behind the tail it read: an unwritten or an
\* older generation is unobservable (the debug assertion of read_valid).
SlotNotBehind ==
  cpc = "idle" /\ tail_cache > pos => \A t \in Visible(Generation(pos)) : Value(t) >= 2 * pos + 2

\* A consumer is told Closed only when the producer is gone and every message
\* pushed is behind it, whatever the tail batching still owed.
ClosedMeansDrained ==
  result.kind = "closed" => ppc = "closed" /\ pos = next_seq

\* What the consumer sees is a lossy log: whole messages in order, and a lag
\* only when the producer really began to overwrite, with its exact size.
published ==
  LET tails == {t \in 1 .. Now : log[t].loc = TailWord}
  IN  IF tails = {} THEN 0 ELSE log[CHOOSE t \in tails : \A u \in tails : u <= t].val
Abstract == INSTANCE LossyLog WITH
  begun <- IF ppc \in {"payload", "publish"} THEN next_seq + 1 ELSE next_seq,
  next <- pos
ImplementsLossyLog == Abstract!Spec

\* A consumer with something published to read moves on: no batching of the
\* tail leaves it lapped at the same position for ever (set_tail_batch).
PublishedIsReached ==
  \A q \in 0 .. MaxSeq - 1 :
    (cpc # "out" /\ pos = q /\ q < published) ~> pos # q
=============================================================================
