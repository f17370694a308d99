------------------------------ MODULE SpmcRing ------------------------------
(***************************************************************************)
(* The gating single-producer multi-consumer element ring                  *)
(* (src/src/spmc.rs) over the consumer registry (src/src/registry.rs).     *)
(*                                                                         *)
(* Every consumer receives every message published after it joined, and    *)
(* the producer reuses a slot only when all of them have passed it.  The   *)
(* producer learns of consumers by scanning the registry, and only when    *)
(* its cached minimum leaves no space; consumers join and leave at any     *)
(* time.  Each step is one access to shared memory.                        *)
(*                                                                         *)
(* Memory model.  Ordinary loads and stores of the protocol are Relaxed,   *)
(* Acquire or Release, so a joiner may read an old write cursor while the  *)
(* scan misses its registration.  What bounds both is the pair of SeqCst   *)
(* fences, modelled by two rules: a joiner's re-read returns a cursor no   *)
(* older than the one before the last producer fence that precedes its own *)
(* fence (`floor`), and a scan cannot miss a registration whose fence      *)
(* precedes the scan's fence (`must_see`); any other it may miss.          *)
(***************************************************************************)
EXTENDS RingArith, FiniteSets, TLC

CONSTANTS
  Consumers,      \* consumer handles that may exist at some time
  Slots,          \* registry slots, over all chunks
  Capacity,       \* slots of the buffer (a power of two in the code)
  BatchDivisor,   \* 8 in the code
  MaxSeq          \* bound on the messages published

ASSUME SpmcAssumption ==
  /\ Capacity \in Nat /\ Capacity >= 2      \* round_capacity's floor
  /\ BatchDivisor \in Nat \ {0} /\ MaxSeq \in Nat

DETACHED == -1    \* u64::MAX, which no cursor reaches
Uninit == -1      \* a buffer slot without a live element

VARIABLES
  \* shared memory
  buffer,           \* the sequence whose element a slot holds, or Uninit
  write_cursor,     \* also the producer's next_seq: publish advances both
  closed,
  dropped_through,  \* all elements below it are dropped
  bitmap,           \* the registry slots whose bit is set
  slots,            \* registry slot -> published cursor, or DETACHED
  \* the producer
  ppc, cached_min, cached_cursors,
  scan,             \* the scan in progress
  fence_seq,        \* write_cursor at the producer's last SeqCst fence
  \* the consumers
  cpc,
  caller,           \* a joining handle -> the handle whose subscribe creates it
  free,             \* the slots a claiming subscriber saw free
  slot, read_cursor, published, write_cache,
  floor,            \* a fenced joiner re-reads no older cursor than this
  limit,            \* where the drain in progress ends
  left_at,          \* free registry slot -> what its last occupant had read
  torn_down

ring     == <<buffer, write_cursor, closed, dropped_through, torn_down>>
registry == <<bitmap, slots, left_at>>
producer == <<ppc, cached_min, cached_cursors, scan, fence_seq>>
handles  == <<cpc, caller, free, slot, read_cursor, published, write_cache, floor, limit>>
vars     == <<ring, registry, producer, handles>>

mask == Capacity - 1
Batch == publish_batch(Capacity, 64, BatchDivisor)
Index(seq) == seq % Capacity
Larger(a, b) == IF a < b THEN b ELSE a

\* The u64 gate: cursors are far from 2^64, so the difference is exact.
Gated_off_by_one(write, read) == write + 1 - read > Capacity + 1
Gated(write, read) == write + 1 - read > Capacity

NoScan == [todo |-> {}, any_active |-> FALSE, max_lag |-> 0, must_see |-> {}]

\* A consumer handle with a joined cursor, up to its Drop's DETACHED store.
LiveStates == {"live", "empty", "recheck", "holding", "draining", "closed", "dropping"}
Live(c) == cpc[c] \in LiveStates

\* A handle is idle unless its thread is inside a subscribe call on it.
Idle(handle) == \A c \in Consumers : caller[c] # handle

\* RingBuffer::new: the first consumer is subscribed before anything runs.
Init ==
  /\ buffer = [i \in 0 .. mask |-> Uninit]
  /\ write_cursor = 0 /\ closed = FALSE /\ dropped_through = 0 /\ torn_down = FALSE
  /\ ppc = "idle" /\ cached_min = 0 /\ fence_seq = 0 /\ scan = NoScan
  /\ cached_cursors = [s \in Slots |-> 0]
  /\ left_at = [s \in Slots |-> 0]
  /\ \E first \in Consumers, s0 \in Slots :
       /\ bitmap = {s0}
       /\ slots = [s \in Slots |-> IF s = s0 THEN 0 ELSE DETACHED]
       /\ cpc = [c \in Consumers |-> IF c = first THEN "live" ELSE "out"]
       /\ slot = [c \in Consumers |-> s0]
  /\ caller = [c \in Consumers |-> "none"]
  /\ free = [c \in Consumers |-> {}]
  /\ read_cursor = [c \in Consumers |-> 0] /\ published = [c \in Consumers |-> 0]
  /\ write_cache = [c \in Consumers |-> 0]
  /\ floor = [c \in Consumers |-> 0] /\ limit = [c \in Consumers |-> 0]

-----------------------------------------------------------------------------
(* The producer: the gate *)

HasSpaceCached ==
  /\ ppc = "idle" /\ Idle("producer") /\ write_cursor < MaxSeq
  /\ ~Gated(write_cursor, cached_min)
  /\ ppc' = "granted"
  /\ UNCHANGED <<ring, registry, cached_min, cached_cursors, scan, fence_seq, handles>>

\* rescan_gate: the fence before the walk.
ScanFence ==
  /\ ppc = "idle" /\ Idle("producer") /\ write_cursor < MaxSeq
  /\ Gated(write_cursor, cached_min)
  /\ ppc' = "scan"
  /\ fence_seq' = write_cursor
  /\ scan' = [todo |-> Slots, any_active |-> FALSE, max_lag |-> 0,
              must_see |-> {c \in Consumers : Live(c) \/ cpc[c] = "fenced"}]
  /\ UNCHANGED <<ring, registry, cached_min, cached_cursors, handles>>

\* Fold one active slot's cursor into the scan.
Saw(s, cursor) ==
  scan' = [scan EXCEPT !.todo = @ \ {s}, !.any_active = TRUE,
                       !.max_lag = Larger(@, write_cursor - cursor)]

\* scan_chunk_registry's visit of one slot.  The bit is missed, or the slot
\* still reads DETACHED, for a registration the fences do not order.
ScanSlot(s) ==
  /\ ppc = "scan" /\ s \in scan.todo
  /\ \/ /\ s \notin bitmap \/ ~\E c \in scan.must_see : slot[c] = s
        /\ scan' = [scan EXCEPT !.todo = @ \ {s}]
        /\ UNCHANGED cached_cursors
     \/ /\ s \in bitmap
        /\ ~Gated(write_cursor, cached_cursors[s])
        /\ Saw(s, cached_cursors[s])
        /\ UNCHANGED cached_cursors
     \/ /\ s \in bitmap /\ slots[s] # DETACHED
        /\ Gated(write_cursor, cached_cursors[s])
        /\ Saw(s, slots[s])
        /\ cached_cursors' = [cached_cursors EXCEPT ![s] = slots[s]]
  /\ UNCHANGED <<ring, registry, ppc, cached_min, fence_seq, handles>>

\* The new gate.  An empty registry gates at the producer's own position
\* minus one, which forces a scan at least once per lap (mutant: a lap below).
NewMin_lap == IF scan.any_active THEN write_cursor - scan.max_lag ELSE write_cursor - Capacity - 1
NewMin == IF scan.any_active THEN write_cursor - scan.max_lag ELSE write_cursor - 1

ScanFinish ==
  /\ ppc = "scan" /\ scan.todo = {}
  /\ cached_min' = NewMin
  /\ ppc' = IF Gated(write_cursor, NewMin) THEN "idle" ELSE "granted"
  /\ scan' = NoScan
  /\ UNCHANGED <<ring, registry, cached_cursors, fence_seq, handles>>

-----------------------------------------------------------------------------
(* The producer: the granted slot *)

\* Mutant: the watermark is left to be moved after the drop.
PrepareSlot_watermark_late ==
  /\ ppc = "granted"
  /\ ppc' = IF write_cursor - dropped_through > mask THEN "drop" ELSE "claimed"
  /\ UNCHANGED <<ring, registry, cached_min, cached_cursors, scan, fence_seq, handles>>

\* prepare_slot: the watermark moves past the old occupant before its drop.
PrepareSlot ==
  /\ ppc = "granted"
  /\ IF write_cursor - dropped_through > mask
     THEN ppc' = "drop" /\ dropped_through' = write_cursor - Capacity + 1
     ELSE ppc' = "claimed" /\ UNCHANGED dropped_through
  /\ UNCHANGED <<buffer, write_cursor, closed, torn_down, registry,
                 cached_min, cached_cursors, scan, fence_seq, handles>>

\* drop_overwritten's drop_in_place; a panic in it unwinds out of the call.
DropOverwritten ==
  /\ ppc = "drop"
  /\ buffer' = [buffer EXCEPT ![Index(write_cursor)] = Uninit]
  /\ ppc' \in {"claimed", "idle"}
  /\ UNCHANGED <<write_cursor, closed, dropped_through, torn_down, registry,
                 cached_min, cached_cursors, scan, fence_seq, handles>>

Write ==
  /\ ppc = "claimed"
  /\ buffer' = [buffer EXCEPT ![Index(write_cursor)] = write_cursor]
  /\ ppc' = "written"
  /\ UNCHANGED <<write_cursor, closed, dropped_through, torn_down, registry,
                 cached_min, cached_cursors, scan, fence_seq, handles>>

Publish ==
  /\ ppc = "written"
  /\ write_cursor' = write_cursor + 1
  /\ ppc' = "idle"
  /\ UNCHANGED <<buffer, closed, dropped_through, torn_down, registry,
                 cached_min, cached_cursors, scan, fence_seq, handles>>

\* A WriteSlot dropped uncommitted: what it held is forgotten, not dropped.
Abandon ==
  /\ ppc \in {"claimed", "written"}
  /\ buffer' = [buffer EXCEPT ![Index(write_cursor)] = Uninit]
  /\ ppc' = "idle"
  /\ UNCHANGED <<write_cursor, closed, dropped_through, torn_down, registry,
                 cached_min, cached_cursors, scan, fence_seq, handles>>

DropProducer ==
  /\ ppc = "idle" /\ Idle("producer")
  /\ ppc' = "dropped" /\ closed' = TRUE
  /\ UNCHANGED <<buffer, write_cursor, dropped_through, torn_down, registry,
                 cached_min, cached_cursors, scan, fence_seq, handles>>

-----------------------------------------------------------------------------
(* A consumer joins: registry::subscribe_slot *)

\* A call of subscribe on some handle: the closed check, then the bitmap load,
\* which gives the candidates.
LookForSlot(c) ==
  /\ cpc[c] = "out" /\ ~closed
  /\ \E h \in {"producer"} \union Consumers :
       /\ IF h = "producer" THEN ppc = "idle" ELSE cpc[h] = "live"
       /\ Idle(h)
       /\ caller' = [caller EXCEPT ![c] = h]
  /\ free' = [free EXCEPT ![c] = Slots \ bitmap]
  /\ cpc' = [cpc EXCEPT ![c] = "claim"]
  /\ UNCHANGED <<ring, registry, producer, slot, read_cursor, published, write_cache, floor, limit>>

\* The write cursor the calling thread already knows of.
Known(c) == IF caller[c] = "producer" THEN write_cursor ELSE write_cache[caller[c]]

\* Mutant: a plain store in the place of the CAS.
Claim_no_cas(c) ==
  /\ cpc[c] = "claim"
  /\ \E s \in free[c] :
       /\ slots' = [slots EXCEPT ![s] = Known(c)]
       /\ slot' = [slot EXCEPT ![c] = s]
  /\ free' = [free EXCEPT ![c] = {}]
  /\ cpc' = [cpc EXCEPT ![c] = "claimed"]
  /\ UNCHANGED <<ring, bitmap, left_at, producer, caller, read_cursor, published, write_cache,
                 floor, limit>>

\* The CAS from DETACHED to a provisional cursor, no older than what the
\* slot's last occupant had read.  The bitmap is not loaded again: the slot's
\* bit may have been set since, and its leaver may have still to clear it.
Claim(c) ==
  /\ cpc[c] = "claim"
  /\ \E s \in free[c] :
       /\ slots[s] = DETACHED
       /\ \E provisional \in Larger(left_at[s], Known(c)) .. write_cursor :
            slots' = [slots EXCEPT ![s] = provisional]
       /\ slot' = [slot EXCEPT ![c] = s]
       /\ left_at' = [left_at EXCEPT ![s] = 0]
  /\ free' = [free EXCEPT ![c] = {}]
  /\ cpc' = [cpc EXCEPT ![c] = "claimed"]
  /\ UNCHANGED <<ring, bitmap, producer, caller, read_cursor, published, write_cache,
                 floor, limit>>

\* The CAS lost: the next candidate; or, with none left, the bitmap of the next
\* chunk.
ClaimFails(c) ==
  /\ cpc[c] = "claim"
  /\ IF free[c] = {} THEN free' = [free EXCEPT ![c] = Slots \ bitmap]
     ELSE \E s \in free[c] : slots[s] # DETACHED /\ free' = [free EXCEPT ![c] = @ \ {s}]
  /\ UNCHANGED <<ring, registry, producer, cpc, caller, slot, read_cursor, published, write_cache,
                 floor, limit>>

SetBit(c) ==
  /\ cpc[c] = "claimed"
  /\ bitmap' = bitmap \union {slot[c]}
  /\ cpc' = [cpc EXCEPT ![c] = "active"]
  /\ UNCHANGED <<ring, slots, left_at, producer, caller, free, slot, read_cursor, published, write_cache,
                 floor, limit>>

JoinFence_missing(c) ==
  /\ cpc[c] = "active"
  /\ cpc' = [cpc EXCEPT ![c] = "fenced"]
  /\ UNCHANGED <<ring, registry, producer, caller, free, slot, read_cursor, published, write_cache,
                 floor, limit>>
JoinFence(c) ==
  /\ cpc[c] = "active"
  /\ floor' = [floor EXCEPT ![c] = fence_seq]
  /\ cpc' = [cpc EXCEPT ![c] = "fenced"]
  /\ UNCHANGED <<ring, registry, producer, caller, free, slot, read_cursor, published, write_cache, limit>>

\* The join point: the re-read after the fence, stored as the slot's cursor.
Join(c) ==
  /\ cpc[c] = "fenced"
  /\ \E joined \in Larger(Larger(slots[slot[c]], floor[c]), Known(c)) .. write_cursor :
       /\ slots' = [slots EXCEPT ![slot[c]] = joined]
       /\ read_cursor' = [read_cursor EXCEPT ![c] = joined]
       /\ published' = [published EXCEPT ![c] = joined]
       /\ write_cache' = [write_cache EXCEPT ![c] = joined]
  /\ floor' = [floor EXCEPT ![c] = 0]
  /\ caller' = [caller EXCEPT ![c] = "none"]
  /\ cpc' = [cpc EXCEPT ![c] = "live"]
  /\ UNCHANGED <<ring, bitmap, left_at, producer, free, slot, limit>>

-----------------------------------------------------------------------------
(* A consumer consumes *)

\* has_item, for pop, try_pop, pop_ref and try_pop_ref.
has_item(c) ==
  /\ cpc[c] = "live" /\ Idle(c)
  /\ LET cache == IF write_cache[c] = read_cursor[c] THEN write_cursor ELSE write_cache[c]
     IN  /\ write_cache' = [write_cache EXCEPT ![c] = cache]
         /\ cpc' = [cpc EXCEPT ![c] = IF cache = read_cursor[c] THEN "empty" ELSE "holding"]
  /\ UNCHANGED <<ring, registry, producer, caller, free, slot, read_cursor, published, floor, limit>>

\* check_closed's load of the closed word.
CheckClosed_final(c) ==
  /\ cpc[c] = "empty"
  /\ cpc' = [cpc EXCEPT ![c] = IF closed THEN "closed" ELSE "live"]
  /\ UNCHANGED <<ring, registry, producer, caller, free, slot, read_cursor, published, write_cache,
                 floor, limit>>
CheckClosed(c) ==
  /\ cpc[c] = "empty"
  /\ cpc' = [cpc EXCEPT ![c] = IF closed THEN "recheck" ELSE "live"]
  /\ UNCHANGED <<ring, registry, producer, caller, free, slot, read_cursor, published, write_cache,
                 floor, limit>>

\* check_closed's refresh, once the ring was seen closed.
Recheck(c) ==
  /\ cpc[c] = "recheck"
  /\ write_cache' = [write_cache EXCEPT ![c] = write_cursor]
  /\ cpc' = [cpc EXCEPT ![c] = IF write_cursor = read_cursor[c] THEN "closed" ELSE "holding"]
  /\ UNCHANGED <<ring, registry, producer, caller, free, slot, read_cursor, published, floor, limit>>

MustPublish(c, was_full) ==
  \/ was_full
  \/ read_cursor[c] + 1 = write_cache[c]
  \/ read_cursor[c] + 1 - published[c] >= Batch

\* flush: publish a read cursor in the registry slot.
flush(c, read) ==
  /\ slots' = [slots EXCEPT ![slot[c]] = read]
  /\ published' = [published EXCEPT ![c] = read]

\* The end of a pop (the element was cloned) or of a PopRef: advance_one.
advance_one(c) ==
  /\ cpc[c] = "holding"
  /\ IF MustPublish(c, write_cache[c] - read_cursor[c] > mask)
     THEN flush(c, read_cursor[c] + 1) ELSE UNCHANGED <<slots, published>>
  /\ read_cursor' = [read_cursor EXCEPT ![c] = @ + 1]
  /\ cpc' = [cpc EXCEPT ![c] = "live"]
  /\ UNCHANGED <<ring, bitmap, left_at, producer, caller, free, slot, write_cache, floor, limit>>

\* A PopRef forgotten, or a Clone that panics: nothing is consumed.
Forget(c) ==
  /\ cpc[c] = "holding"
  /\ cpc' = [cpc EXCEPT ![c] = "live"]
  /\ UNCHANGED <<ring, registry, producer, caller, free, slot, read_cursor, published, write_cache,
                 floor, limit>>

\* drain up to its first callback: refresh, bound the batch, advance over the
\* element before lending it.
DrainBegin(c) ==
  /\ cpc[c] = "live" /\ Idle(c) /\ write_cursor # read_cursor[c]
  /\ write_cache' = [write_cache EXCEPT ![c] = write_cursor]
  /\ limit' = [limit EXCEPT ![c] =
                 read_cursor[c] + Clamp(write_cursor - read_cursor[c], 1, Batch)]
  /\ read_cursor' = [read_cursor EXCEPT ![c] = @ + 1]
  /\ cpc' = [cpc EXCEPT ![c] = "draining"]
  /\ UNCHANGED <<ring, registry, producer, caller, free, slot, published, floor>>

DrainItem(c) ==
  /\ cpc[c] = "draining" /\ read_cursor[c] < limit[c]
  /\ read_cursor' = [read_cursor EXCEPT ![c] = @ + 1]
  /\ UNCHANGED <<ring, registry, producer, cpc, caller, free, slot, published, write_cache, floor, limit>>

\* The last callback returned, or one unwound: FlushOnDrop.
DrainEnd(c) ==
  /\ cpc[c] = "draining"
  /\ flush(c, read_cursor[c])
  /\ limit' = [limit EXCEPT ![c] = 0]
  /\ cpc' = [cpc EXCEPT ![c] = "live"]
  /\ UNCHANGED <<ring, bitmap, left_at, producer, caller, free, slot, read_cursor, write_cache, floor>>

-----------------------------------------------------------------------------
(* A consumer leaves: Consumer::drop *)

FlushPending(c) ==
  /\ cpc[c] \in {"live", "closed"} /\ Idle(c)
  /\ flush(c, read_cursor[c])
  /\ cpc' = [cpc EXCEPT ![c] = "dropping"]
  /\ UNCHANGED <<ring, bitmap, left_at, producer, caller, free, slot, read_cursor, write_cache,
                 floor, limit>>

StoreDetached(c) ==
  /\ cpc[c] = "dropping"
  /\ slots' = [slots EXCEPT ![slot[c]] = DETACHED]
  /\ left_at' = [left_at EXCEPT ![slot[c]] = read_cursor[c]]
  /\ scan' = [scan EXCEPT !.must_see = @ \ {c}]
  /\ read_cursor' = [read_cursor EXCEPT ![c] = 0]
  /\ published' = [published EXCEPT ![c] = 0]
  /\ write_cache' = [write_cache EXCEPT ![c] = 0]
  /\ cpc' = [cpc EXCEPT ![c] = "detached"]
  /\ UNCHANGED <<ring, bitmap, ppc, cached_min, cached_cursors, fence_seq, caller, free, slot, floor, limit>>

Deactivate(c) ==
  /\ cpc[c] = "detached"
  /\ bitmap' = bitmap \ {slot[c]}
  /\ cpc' = [cpc EXCEPT ![c] = "out"]
  /\ UNCHANGED <<ring, slots, left_at, producer, caller, free, slot, read_cursor, published, write_cache,
                 floor, limit>>

\* Shared::drop, when the last handle is gone.
TearDown ==
  /\ ppc = "dropped" /\ (\A c \in Consumers : cpc[c] = "out") /\ ~torn_down
  /\ torn_down' = TRUE
  /\ buffer' = [i \in 0 .. mask |->
                  IF \E q \in dropped_through .. write_cursor - 1 : Index(q) = i
                  THEN Uninit ELSE buffer[i]]
  /\ UNCHANGED <<write_cursor, closed, dropped_through, registry, producer, handles>>

Terminated == torn_down /\ UNCHANGED vars

-----------------------------------------------------------------------------

Scan == ScanFence \/ (\E s \in Slots : ScanSlot(s)) \/ ScanFinish

ProducerNext ==
  \/ HasSpaceCached \/ Scan
  \/ PrepareSlot \/ DropOverwritten \/ Write \/ Publish \/ Abandon \/ DropProducer

JoinNext(c) == LookForSlot(c) \/ Claim(c) \/ ClaimFails(c) \/ SetBit(c) \/ JoinFence(c) \/ Join(c)

ConsumeNext(c) ==
  \/ has_item(c) \/ CheckClosed(c) \/ Recheck(c) \/ advance_one(c) \/ Forget(c)
  \/ DrainBegin(c) \/ DrainItem(c) \/ DrainEnd(c)

LeaveNext(c) == FlushPending(c) \/ StoreDetached(c) \/ Deactivate(c)

Next ==
  \/ ProducerNext
  \/ \E c \in Consumers : JoinNext(c) \/ ConsumeNext(c) \/ LeaveNext(c)
  \/ TearDown \/ Terminated

Spec == Init /\ [][Next]_vars

\* A blocked push scans again and a consumer keeps popping (strong: their threads
\* may make other calls in between), an application does not forget every guard,
\* and a scan, a subscribe, a drain and a drop that began run on.
Fairness ==
  /\ SF_vars(ScanFence) /\ WF_vars((\E s \in Slots : ScanSlot(s)) \/ ScanFinish)
  /\ \A c \in Consumers :
       /\ SF_vars(has_item(c)) /\ WF_vars(CheckClosed(c))
       /\ SF_vars(advance_one(c)) /\ WF_vars(DrainEnd(c))
       /\ WF_vars(Claim(c) \/ ClaimFails(c) \/ SetBit(c) \/ JoinFence(c) \/ Join(c))
       /\ WF_vars(StoreDetached(c) \/ Deactivate(c))

LiveSpec == Spec /\ Fairness

-----------------------------------------------------------------------------
(* Properties *)

\* Every variable stays in its domain.
RingTypeOK ==
  /\ buffer \in [0 .. mask -> Nat \union {Uninit}]
  /\ write_cursor \in Nat /\ closed \in BOOLEAN /\ dropped_through \in Nat /\ torn_down \in BOOLEAN
RegistryTypeOK ==
  /\ bitmap \in SUBSET Slots
  /\ slots \in [Slots -> Nat \union {DETACHED}]
  /\ left_at \in [Slots -> Nat]
ProducerTypeOK ==
  /\ ppc \in {"idle", "scan", "granted", "drop", "claimed", "written", "dropped"}
  /\ cached_min \in Nat /\ cached_cursors \in [Slots -> Nat] /\ fence_seq \in Nat
  /\ scan \in [todo : SUBSET Slots, any_active : BOOLEAN, max_lag : Nat,
               must_see : SUBSET Consumers]
HandlesTypeOK ==
  /\ cpc \in [Consumers -> LiveStates \union
                {"out", "claim", "claimed", "active", "fenced", "detached"}]
  /\ caller \in [Consumers -> Consumers \union {"none", "producer"}]
  /\ free \in [Consumers -> SUBSET Slots]
  /\ slot \in [Consumers -> Slots]
  /\ read_cursor \in [Consumers -> Nat] /\ published \in [Consumers -> Nat]
  /\ write_cache \in [Consumers -> Nat]
  /\ floor \in [Consumers -> Nat] /\ limit \in [Consumers -> Nat]
TypeOK == RingTypeOK /\ RegistryTypeOK /\ ProducerTypeOK /\ HandlesTypeOK

\* Its bit is set, so that a scan finds the joined consumer.
Registered(c) == Live(c) /\ slot[c] \in bitmap

\* While the producer owns a slot -- dropping, lending or writing it -- no
\* registered consumer is a full ring behind, however the scan and the join
\* raced (the SAFETY comments of drop_overwritten and Producer::write).
Owning == ppc \in {"granted", "drop", "claimed", "written"}
GateHolds ==
  Owning => \A c \in Consumers : Registered(c) => write_cursor < published[c] + Capacity

\* An element a registered consumer has borrowed stays in its slot, whole, for as
\* long as the borrow lasts (PopRef::deref, Consumer::read, drain's callback).
Borrowed(c) ==
  CASE cpc[c] = "holding"  -> {read_cursor[c]}
    [] cpc[c] = "draining" -> {read_cursor[c] - 1}
    [] OTHER               -> {}
BorrowedIsIntact ==
  \A c \in Consumers : Registered(c) =>
    \A q \in Borrowed(c) : buffer[Index(q)] = q

\* No consumer un-gates another, except a leaver that has stored DETACHED and
\* has its own bit still to clear: a registered consumer on whose slot no such
\* clear is pending stays registered until it leaves, and none becomes pending
\* (Claim's compare-and-swap, the order of detach's store and clear).
Settled(c) ==
  Registered(c) /\ \A d \in Consumers : cpc[d] = "detached" => slot[d] # slot[c]
RegistrationIsKept ==
  [][\A c \in Consumers : Settled(c) /\ Live(c)' => Settled(c)']_vars

\* A joined consumer is registered: its bit is set from its subscription to
\* its drop (claim_registry_slot: no belated clear may un-gate a newcomer).
RegisteredIsVisible ==
  \A c \in Consumers : Live(c) => slot[c] \in bitmap

\* A cursor the producer cached for a registry slot stays a lower bound, for
\* the slot's later occupants too (the selective refresh of the scan).
CachedIsLowerBound ==
  \A s \in Slots : slots[s] # DETACHED => cached_cursors[s] <= slots[s]

\* Producer::len never under-counts what a registered consumer has to read.
LenNeverUndercounts ==
  \A c \in Consumers : Registered(c) => cached_min <= read_cursor[c]

\* A consumer is told Closed only when the producer is gone and all that was
\* published has been consumed.
ClosedOnlyWhenDrained ==
  \A c \in Consumers : cpc[c] = "closed" => closed /\ read_cursor[c] = write_cursor

\* Every element is dropped exactly once: the occupant the producer drops is
\* a live one, and teardown drops all that is left, whichever overwrite-drops
\* panicked and whichever claims were abandoned.
DroppedOnce ==
  /\ ppc = "drop" => buffer[Index(write_cursor)] = write_cursor - Capacity
  /\ ppc \in {"idle", "dropped"} /\ ~torn_down =>
       \A i \in 0 .. mask :
         buffer[i] # Uninit <=> \E q \in dropped_through .. write_cursor - 1 : Index(q) = i

\* A push that the gate stops gets its slot in the end, however the consumers in
\* its way drain, forget, leave and are replaced, and if none is left (the full
\* rescan that wait_for_space repeats, and rescan_gate's value for no consumer).
PushProceeds ==
  ppc = "scan" ~> ppc \in {"granted", "dropped"}

\* A registry slot holds the cursor of the one joined consumer that owns it.
CursorIsOwn == \A c \in Consumers : Live(c) => slots[slot[c]] = published[c]
=============================================================================
