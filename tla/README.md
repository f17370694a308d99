# TLA+ models of rust-rb

This directory models the ring buffers of the crate, model-checks them on small
instances with TLC, and proves some of what they promise, for every size, with
TLAPS. Paths such as `cursor.rs` are below `src/src/`.

## 1. The system

Lock-free queues between one producer and one or more consumers, as threads of
one process (heap) or processes that map one region (shm). Shared memory is a
handful of atomic cursors and a buffer; every handle keeps private copies.

| Component | State | Operations | What makes it correct |
|---|---|---|---|
| cursor engine (`cursor.rs`) | two published cursors (wrapping `usize`), the starving flag, per-handle caches | space check, publish, item check, adaptive flush, waits, teardown | a slot has one owner at a time, whatever is cached, deferred or wrapped |
| SPSC element ring (`spsc.rs`) | the engine over slots of `T` | push, claim/commit/abandon, pop, pop_ref, drops | a bounded FIFO queue; each element dropped once; no mutual waiting |
| SPSC byte ring (`spsc_bytes.rs`) | the engine over bytes | records with header and wrap padding; consumes the starving flag | whole records in order; a push within the documented maximum always fits eventually |
| wait strategies (`wait.rs`) | only `CvWait`: flag, mutex, condition variable | wait, notify | no wake-up lost |
| consumer registry (`registry.rs`) | bitmap and cursor words per chunk; the producer's cached cursors and minimum | claim, activate, join, detach, gate rescan | every joined consumer gates the producer |
| SPMC element ring (`spmc.rs`) | registry, buffer, drop watermark, close flag | push, claim, subscribe, pop, pop_ref, drain, drops | borrows stay intact; each element dropped once; close loses nothing |
| SPMC byte ring (`spmc_bytes.rs`) | the same over bytes, and the starving span | the same over records | as above, and the span releases a blocked push |
| seqlock and copies (`seqlock.rs`, `atomic_copy.rs`) | a generation per slot | validated read, word-wise copies | never a mixture of two messages |
| broadcast element ring (`broadcast.rs`) | slots, tail, close flag; private positions | push, flush, set_tail_batch, subscribe, pop, skip, reposition | a lossy log: whole, in order, exact lag counts; no livelock |
| broadcast byte ring (`broadcast_bytes.rs`) | bytes, intent, latest, tail | push, pop into, reposition to latest | the same with record boundaries |
| anchored rings (`anchored.rs`, `anchored_bytes.rs`) | a registry of gating anchors over a broadcast ring | both kinds of consumer | anchors lose nothing, observers see no torn record |
| shared memory (`shm.rs`) | header, generation, role leases, consumer table with epochs | create, attach, recover, claim, detach, force-detach, reset | one holder per role; a dead consumer can be retired without retiring a live one |

**Interactions.** A producer and a consumer meet only in the atomics: the
producer's cursor is stored `Release` after the slot, the consumer's after its
last read. `subscribe` runs on any handle's thread, concurrently with the
producer's scan. The wait strategies are called with a predicate over those
atomics and are notified after each publish, flush and detach.

**What is hard.** Work that is deferred (cursor publishes, tail publishes)
against a side that waits for it; caches of the other side's cursor across
wrap-around and across changes of a registry slot's owner; the two
store-buffering races (join against scan, wait against notify); reading a slot
that is being overwritten; user `Drop` code that unwinds in the middle; the last
message against the close flag. `PROJECT.json` lists them under `hazards`, each
at its line, with the properties that would be violated.

## 2. The modules

| Module | Models | How it corresponds |
|---|---|---|
| `RingArith` | the arithmetic of `cursor.rs` | modular `wrapping_add`/`wrapping_sub`, `lacks_space`, `no_item`, `round_capacity`, `publish_batch` |
| `BoundedQueue` | abstract | a FIFO of at most `Capacity` elements, which may be torn down |
| `SpscRing` | `spsc.rs` on `cursor.rs` | one record per handle (its private fields) and the shared words; one action per access to shared memory |
| `RingArithProofs` | | what the wrapping arithmetic of `RingArith` computes |
| `SpscRingProofs` | | the inductive invariant of `SpscRing`, its two invariants and the refinement of `BoundedQueue`; in its last section, the invariant of the `CvWait` its two sides may block in |
| `RecordQueue` | abstract | a FIFO of whole records that take up at most `Capacity` bytes |
| `SpscBytes` | `spsc_bytes.rs` on `cursor.rs` | the buffer as its aligned words, which nothing but the framing tells apart; the records of `RecordQueue` are what `decode_record` finds between the cursors |
| `SpscBytesProofs` | | the inductive invariant of `SpscBytes`, its two invariants, the action property and the refinement of `RecordQueue` |
| `SpmcRing` | `spmc.rs` on `registry.rs` | bitmap, slots and cursors; one program counter for the producer, one per consumer handle; a scan visits the slots one step at a time, in any order |
| `RecordBroadcast` | abstract | one log of whole records, of which each consumer is lent every one from where it joined |
| `SpmcBytes` | `spmc_bytes.rs` on `registry.rs` | the gate over bytes: a scan is one step, the starving span and the lag-filtered release are steps of their own |
| `SpmcBytesProofs` | | the inductive invariant of `SpmcBytes`, the refinement of `RecordBroadcast` and the action property |
| `SpmcRingProofs` | | the inductive invariant of `SpmcRing` and eight theorems; every element is dropped once |
| `CvWait` | `CvWait` of `wait.rs` inside the two loops that use it | the two threads' steps, with store buffers for the flag and the progress word (its specification is `WaitSpec`, so that a ring's module can extend it) |
| `LossyLog` | abstract | what one consumer of a lossy ring may observe |
| `LossyRecords` | abstract | what one consumer of a lossy byte ring may observe, over all sessions of its producers |
| `StoreLog` | weakly ordered memory with one writing thread | the producer's stores as a log, the consumer's loads as choices among the stores it may still see |
| `BroadcastBytes` | `broadcast_bytes.rs`, the lane copies of `atomic_copy.rs`, the healing in `shm.rs` | one action per store or load of a lane or counter, over `StoreLog` (its specification is `BytesSpec`, so that one module of proofs can extend both broadcast rings) |
| `AnchoredBytes` | `anchored_bytes.rs`, with its attach and healing in `shm.rs` | `SpmcBytes`' gate and `BroadcastBytes`' counters on one buffer; anchors with a slot each, one observer, producers one after the other |
| `AnchoredBytesProofs` | | the inductive invariant of `AnchoredBytes`, its invariant and its two refinements |
| `BroadcastRing` | `broadcast.rs`, `seqlock.rs`, `atomic_copy.rs` | one action per store of the producer, and per load of a consumer, over `StoreLog` |
| `BroadcastProofs` | | two parts: the inductive invariant of `BroadcastRing`, its invariants and the refinement of `LossyLog`; the inductive invariant of `BroadcastBytes`, its invariant and the refinement of `LossyRecords` |
| `GateTable` | the table, lease and recovery code of `shm.rs`, with the shm halves of `spmc.rs` and `registry.rs` | the words of the region; a record per producer handle and per consumer handle; the `recover_shm` in progress |
| `ShmRegion` | creation, validation and the role leases of `shm.rs` | the header as four words over `StoreLog`, the two lease words, the length of the file; one record per call that creates, attaches, forces or recovers, and for the handle that comes of it |
| `ShmProofs` | | two parts. The inductive invariant of `GateTable`: types, one producer, one occupant per slot and epoch; on top of it, the gate, the slots that a holder keeps and the backlogs a recovery delivers. The inductive invariant of `ShmRegion` (whose specification is `RegionSpec`, so that one module can extend both): what creators leave and who holds a lease; on top of it, what an attacher may conclude from the header |
| `MCSpscRing`, `MCSpmcRing`, `MCBroadcastRing`, `MCSpscBytes`, `MCSpmcBytes`, `MCBroadcastBytes`, `MCAnchoredBytes`, `MCGateTable`, `MCShmRegion` | | the instances, symmetry, and what each push may carry |

Definitions carry the names of the functions they translate. An operator whose
name extends another's with an underscore and a word (`Publish_early`) is a
*mutant*: a plausible bug in that code, which is no part of the specification;
putting it in the place of the original violates the property `PROJECT.json`
lists beside it.

**Steps and memory order.** An action is one access to shared memory together
with the private computation it leads to. What the weak memory model adds is
modelled where the code relies on a fence for it:

* *SPSC and SPMC slots and cursors* are ordered by Release/Acquire pairs on the
  cursors, so a load of a cursor is a step of its own, taken at any time, and the
  handle goes on with what it cached.
* *Join against scan* (`SpmcRing`). `ScanFence` and `JoinFence` are the two
  `SeqCst` fences. The fence that comes first in their order publishes what its
  thread stored: `fence_seq` is the write cursor at the last scan fence, and a
  joiner whose fence follows it re-reads a cursor no older (`floor`); a joiner
  whose fence came first is in the scan's `must_see`. Any other registration the
  scan may see or miss. The provisional cursor and the join point are any value
  from what the calling thread already knew up to the current one, so stale
  loads are covered.
* *Wait against notify* (`CvWait`). A plain store is drained to memory by a step
  of its own; a fence, and an unlock, wait for the drain.
* *Seqlock and window* (`BroadcastRing`, `BroadcastBytes`). The producer's stores are a log. Each one carries
  the last store a reader learns of with it: itself for `Release`, the last one
  before the producer's Release fence for `Relaxed`. A load returns any store of
  its location that the consumer does not know to be overwritten; an Acquire load
  adds to what it knows, a Relaxed load only once an Acquire fence follows.

**Cursors.** In `SpscRing` they are `usize` and wrap: `Modulus` is the size of
the word, and `SpscAssumption` needs it to exceed `Capacity + 1`, without which
"full" and "one past full" are the same difference. The `u64` cursors of the
other rings do not wrap in practice and are natural numbers.

**Bytes.** A word of `SpscBytes` is a number: a length, `PADDING`, or payload,
so a misplaced header is read as whatever lies there. `Capacity` is a constant
that `BytesAssumption` ties to the one asked for by `round_capacity`; a message
beyond `max_message_len` panics before it touches anything, so it is no step.

The other byte rings address the buffer by aligned lane: a lane holds a length,
`PADDING`, or the number of the push whose payload it carries, so a payload read
as a header is seen for what it is, and a record made of two pushes shows both
numbers. `Lengths` gives, for `SpmcBytes` and `AnchoredBytes`, what the n-th push
may carry: every padding and every overlap of two laps occurs in the few pushes
there are.

*`SpmcBytes`.* What a scan meets step by step, and what its fences are for, is
`SpmcRing`'s subject; here `Scanned` looks at all the slots at once, and a
subscriber joins in one step at the published write cursor. The flag keeps its own
steps: it is raised after the scan, and a release loads it before it decides. A
consumer that leaves publishes and detaches in one step, as nothing is gained by
seeing the first store alone.

*`BroadcastBytes`.* Every header, lane and counter is a store of its own in the log, of which a consumer
may have seen any part, and each lane that a consumer copies is a load of its own.
`Die` ends the producer at any stage of a push (the lanes of a payload, which follow
one another in the log, are one stage); `Attach` and `Heal` are its successor, which samples the
intent as its floor. A successor that attaches has seen its predecessor's stores: the
lease it takes over is what orders them, and the consumer's knowledge goes on.

*`AnchoredBytes`.* Memory is sequentially consistent: the fences of both protocols
are checked where they are at home. One observer stands for any number, as it
stores nothing; an anchor handle that left may join again, as another. A scan is one
step, and both registries (`scan_chunk_registry`, `scan_shm_table`) are `Scanned`;
an anchor joins at any published tail that is no older than the producer's last
fence (`fence_seq`). Slot leases, forced detaches and recoveries are `GateTable`'s,
which checks them for the table that all gating kinds share. The lanes of one record
are one step: `BroadcastBytes` has them apart. Closing is seen by the observer only;
an anchor's close check is that of `SpmcBytes`.

**Membership and takeover** (`GateTable`). A handle lives once and its lease token
is its name. Each access to the mapped region is a step, in the order of the
program: what the two fences of a join and of a scan allow beyond that is the
business of `SpmcRing`. Merged into one step are loads of which the second only
narrows the first: the provisional cursor's load with its store, the closed check
with the snapshot of the generation, the control word and cursor of one scan
visit, the lease check and the store or the next step of a drop. When a consumer
publishes is a choice (`SpmcRing` has the rule), an abandoned `WriteSlot` is left
to `SpmcRing`, and `fork` is not modelled. A death may come between any two steps
of any handle.

The `unsafe` constructors come with a contract, and the model keeps it: whoever
takes over asserts that the holders it replaces are gone. `Settled` and
`HoldersGone` say that none of them is inside a call at that time; they may still
be dropped later, and a consumer may go on reading at its own risk (`revoked`). A
process that is attaching is no holder yet, and `shm.rs` means attaches to be safe
against a reset. Two races of this kind are not, and `Races` lets them in:

* `claim_across_reset`: an attach that won its compare-and-swap before a reset, or
  in the middle of one, stores the rest afterwards (see Findings);
* `open_in_recovery`: an attach begins between the two resets of one
  `reset_and_claim_gate_table` (`shm.rs:3612`) and completes before the second,
  which then frees the slot of a consumer that was told it had joined.

With `Races = {}` an attach claims only under an even generation and is past its
stores, or not at its claim yet, when a reset opens; none opens during a recovery.
An attach that opened before still claims after the reset closed, which is the
phantom that `RecheckClaim` and `RetryReset` are about. The body of
`release_table_claim` is never reached: it runs after the generation was seen to
differ, and the generation never comes back to an old value.

**Creation and leases** (`ShmRegion`). A creation writes over whatever the file
held, also a ring still in use or the half-written header of a creator that died.
The header is what validation tells apart: generation, magic, kind, and one word for
the geometry that the length of the mapping comes from; each holds the number of the
creation that wrote it. The element size, the architecture and the plausibility of
cursors are refusals like any other and left out. The four `create_*_region` differ
in the leases they take (both, or the producer's) and in when they zero the buffer
(before the magic, or for the point-to-point rings, whose cursors already bound what
is read, after the generation has closed); the four `open_*_region` do the same
steps. Consumers of the gating rings claim in the table, which is `GateTable`'s.
`InOrder` makes every load return the newest store, as x86 does for
this code; without it `StoreLog` gives each handle a view of its own, and the stores
carry with them only what their orderings say. The lease words are one location each
on which only read-modify-writes and the creator's store act, and stay sequentially
consistent, as does the length of the file. The contracts of the `unsafe`
constructors are kept: one process creates at a time, and whoever forces a role
answers for nobody else taking the role, and for nobody creating, meanwhile. Whoever
lost a role, or a whole ring to a new creation, may drop its handle at any later time.

**Small liberties.** The producer's `cached_cursors` block starts at 0 where the
code seeds it with "always gating" (`next_seq - capacity`); both force a load on
first use, as the cursor of a real consumer is never below either. A second
registry chunk is not distinct from the first: `Slots` is any set, and a
claim that runs out of candidates looks at the bitmap again, where the code goes on
to the next chunk and appends one if need be. A panicking element `Drop` is the choice of
`DropOverwritten` to end the call. Calls to `notify` are not steps of the ring
models: a blocked caller there is one that tries again, which `CvWait` justifies
for the parking strategy.

## 3. The runs

| Run | Shows | Bounds and why they are enough |
|---|---|---|
| `spsc` | teardown drops exactly the rest, the ring implements `BoundedQueue`, a blocked push and a blocked pop proceed | 4 slots, batch 2, 3-bit cursors: deferral, fullness and wrap-around overlap; two values tell an element from its neighbour |
| `spsc_bytes` | a record that a `drain` callback borrows is whole although the cursor has passed it, the ring implements `RecordQueue`, a release that saw the flag of a waiting push publishes, a blocked push proceeds | 16 bytes; payloads of 0 and 3 bytes at every aligned offset, with padding of 4 before the end, and one of 8, which only the mutated maximum admits; 5-bit cursors that wrap after two laps |
| `spmc` | the gate and the borrows of every registered consumer, who may take its bit away, the close and the drops | 3 handles, 2 registry slots, 2 ring slots, 4 messages: two full laps, slots change owner, two `subscribe` calls race for one slot, also for one whose leaver has still to clear its bit; a join overlaps every stage of a scan |
| `spmc_claim_race` | **violation**: see Findings | 3 handles and 3 registry slots: one leaves the slot that two others claim |
| `spmc_bytes` | every consumer is lent every record whole and in order (`RecordBroadcast`), the exact span releases the gate, a blocked push proceeds | 16 bytes, 2 handles, 4 pushes of up to 3 bytes: the third wraps, with and without padding, so a lap and a half; batch as large as the ring, so that nothing but the span and catching up publishes; one initial state, as symmetry is off |
| `cv_wait` | no wake-up is lost, every publish is seen without the timer | 3 publishes: park, wake, park again |
| `broadcast` | the slot is never behind the tail, Closed means drained, the ring implements `LossyLog`, a consumer with something published to read moves on | 4 slots, slack 2, two-word payloads (two words are needed to tear), 5 messages: lapped, with tail debt |
| `broadcast_bytes` | an accepted window was never declared away, the ring implements `LossyRecords`, a consumer that keeps popping a closed ring is told Closed | 32 bytes, payloads of 0 and 16 bytes (one or three aligned words), 3 pushes, 2 sessions: padding at the end, two laps and more, a death at every stage of a push, a consumer that jumps to the record of a push that is never finished, and a successor that declares less than the dead one; messages up to half of the ring for the code's eighth, which leaves less of the window |
| `anchored_bytes` | the intent never passes a live anchor, anchors are lent every record over both sessions, an observer sees `LossyRecords` | a ring of 32 bytes, four pushes in up to two sessions, payloads of 0 or 8 bytes with the first three lengths fixed (`OneLap`): the third record wraps over the first two; one anchor slot that is joined and left again |
| `gate` | without the races of section 2 (`Races = {}`): a joined consumer keeps its slot, the gate holds across takeovers, the producer is alone, an epoch is one occupancy, recovery is at-least-once | 2 producer and 3 consumer handles on one slot, capacity 2, 3 messages, one death or forced detach: a predecessor, a successor and a recoverer meet on one slot; 2 attempts for the code's 16, so that a recovery can give up |
| `gate_torn_resume` | **violation**: see Findings | two deaths: a consumer forced out, and the producer |
| `region` | whoever gets in is in the ring the region holds, on a header one creation wrote whole; leases are neither lost to a late drop nor left behind; a lossy ring opens zeroed; a finished creation opens | 3 calls, 2 creations of either kind and length: a creation over a ring in use, one over a dead creator's, two attachers or a holder and an attacher across it |

Four configurations beside these are not listed as runs of the project. TLC finds the
property of the first three violated, as Findings tells; the last one passes.

| Configuration | Property | Differs from |
|---|---|---|
| `MCGateTableClobber.cfg` | `HolderKeepsItsSlot` | `gate`, by `Races = {"claim_across_reset"}` |
| `MCShmRegionWeak.cfg` | `OpenedIsWhole` | `region`, by `InOrder = FALSE` |
| `MCShmRegionTruncate.cfg` | `AttachedIsBacked` | `region`, by the property (and no symmetry) |
| `MCSpmcRingLive.cfg` | `PushProceeds` | `spmc`, by fairness, 2 handles and 3 messages (and no symmetry): the third waits for two consumers, for one, for one that replaced another, and for none |

`MaxSeq`, `MaxFaults` and `Attempts` bound `GateTable`; three messages lap a ring of
two. Deadlock is off there and in
`ShmRegion`: every handle may be gone. `MaxCreations` bounds `ShmRegion`.
The types of `GateTable` and `SpscBytes` are in no run: `TypeCorrect` proves them.

`BatchDivisor` is the code's 8 in `cursor.rs`/`set_tail_batch`; the small rings
use a smaller one to have the batches of a ring of 16 slots and more.
`LengthDivisor` is the 8 of `max_message_len`, smaller for the same reason. Deadlock
is off in the runs of the byte rings with bounded pushes, which stop when they run out. `MaxSeq`
and `MaxProgress` are bounds of the checking only, in the guards of the actions
that start a push.

**Fairness.** A thread inside a call keeps running (`WF` on the steps that
continue a call); a blocked push and a blocked pop are called again (`SF`, as the
thread may do other things in between). An application may forget guards, but not
all of them (`SF` on taking an element). Nobody has to subscribe, start a push
(beyond the polling of a blocked one) or drop a handle. In `CvWait`, stores reach
memory and the mutex and condition variable work, but the timer owes nothing, so
`PublishedIsSeen` does not lean on it. In `BroadcastRing` a push that began ends
(`WF`), and memory catches up; the producer need not start another, which is the
case `set_tail_batch`'s clamp is for. In `SpmcBytes` a waiting push polls and a
consumer keeps popping (`SF`), a call that began ends, and the borrow of a record
is returned rather than forgotten if it is lent again and again; nobody has to
subscribe, leave or push. `SpmcRing` is as `SpmcBytes`, with a `subscribe` and a
drop that began run to their end; a scan that found no room is repeated, as
`wait_for_space` does. In `BroadcastBytes` memory catches up and the consumer keeps
popping; of the producers nothing is asked, neither that one attaches nor that one
closes, so `CloseIsReported` begins where the last one has.

## 4. The proofs

`SpscRingProofs`, under `SpscAssumption` (the capacity is positive and divides the
cursor word, which is more than a ring and one), for every capacity, every width of
the word, every batch and every set of elements:

* `ImplementsBoundedQueue`: the ring implements `BoundedQueue`, so no element is
  lost, duplicated, reordered or overwritten before it is taken; `TeardownIsExact`:
  `Shared::drop` finds exactly the elements left; `TypeCorrect`.
* `IInv` gives each wrapped cursor the unbounded count it is the remainder of. The
  counts are in order (cached by the producer <= published <= read <= cached by the
  consumer <= written <= cached by the producer + `Capacity`), and the full slots
  are those of the counts not taken yet, with the one being written. The order
  alone is no invariant of the words, which wrap; the words alone do not say which
  of two cursors is ahead.
* `RingArithProofs` turns every comparison of the code into one of counts:
  `WrappedAdd`, `WrappedSub` for counts less than a word apart, `ModOfMod` for the
  slot of a wrapped cursor when the ring divides the word, `ModDistinct` for two
  counts less than a ring apart.
* The capacity is assumed positive: `round_capacity` chooses a power of two in an
  interval, and that there is one takes an induction. TLC evaluates the assumption.

`SpmcRingProofs`, under `SpmcAssumption` (the sizes are positive), for every number of handles, registry slots, ring slots and
messages:

* `Invariance` is `Spec => []IInv`, and eight properties follow from `IInv`:
  `TypeCorrect`, `GateIsSafe`, `BorrowsAreIntact`, `OnlyALateClearUngates`,
  `CachesAreLowerBounds`, `LenIsUpperBound`, `ClosedMeansDrained`,
  `SlotHoldsItsOwnersCursor`.
* `IInv` is a conjunction because none of its parts stands alone:
  `RegistryInv` (an occupied registry slot has one owner and, from claim to detach,
  a cursor; of its bit it says nothing), `CacheInv` (what is cached for a slot is at or below every cursor the slot
  can still come to hold), `ConsumerInv` (published <= read <= cache <= written),
  `GateInv` (`cached_min` is at most the last scan's fence and the bound of every
  consumer that joined *or has passed its fence*, as long as its bit is set; an owned
  slot is within it),
  `ScanInv` (in a scan, a consumer of `must_see` is still to be visited or is within
  `max_lag`, and any other stands at the scan's fence or later),
  `WatermarkInv` (what was overwritten is behind the fence and every consumer),
  `ContentsInv` (the slots from the watermark to the write cursor hold their
  messages) and `ClosedInv`.
* The argument of the join race: a joiner is either in `must_see` of the next
  scan, or its floor is at least the write cursor at the last scan fence, and the
  gate of a producer with no consumer is below that. This is what the `- 1` of
  `rescan_gate` is for.

In the same module, under `SpmcAssumption` alone: `DropsOnce`. The argument is the
producer's (the watermark has passed the occupant of the slot at work, the other
live elements are those from the watermark on), needs nothing of the gate, and so
holds also of overlapping `subscribe` calls and of drops that unwind.

`ShmProofs`, in its first part, under `GateTableAssumption` and for every `Races`: `TypeCorrect`,
`OneProducer` and `EpochsDiffer`. Its `IInv` adds to the types who has the lease
(`LeaseInv`: a handle from its re-check or takeover to its drop), where the two
handles of a recovery are at each of its stages (`RecoveryInv`), the parity of the
generation (`ParityInv`) and that no claim's epoch is ahead of its slot's
(`EpochInv`). The last is delicate between the load and the store of a reset: a claim
may slip in between them, and the reset then writes back the very epoch of that
claim; it is a claim that its re-check dooms, as the generation is odd.

In the same module, under `Races = {}` (a recovery does not overlap an attach, which
is when all are false; see the findings): `GateIsHonoured`, `SlotsAreKept` and
`RecoversAll`, for every number of handles, slots, faults and messages and every
capacity. The invariant is `TableInv /\ GateInv /\ OwedInv` on top of `IInv`:

* a handle is *current* from its claim on while its re-check would succeed, and
  then until it leaves or is asserted gone. A reset makes none of the earlier ones
  current (`SnapshotInv`, `ResetInv`), so it clears slots under nobody's feet;
* a current handle occupies its slot, and no other handle that may still store to a
  slot, a leaving or revoked one included, shares it (`HoldInv`, lemma `Apart`, which
  rests on `EpochsDiffer`); so its cursor is its own (`CursorInv`);
* `GateInv`: what the producer has cached, and what its scan has found so far, is at
  or below the stored cursor of everyone *standing*, which is whoever is current with a
  cursor in its slot, and whoever died so until a recovery has the producer's
  role. One that joins behind a scan does so at the write cursor, which any gate
  allows, and a recovered one comes when no handle has a gate yet, within a ring of
  the write cursor (`ResumeInv`). `GateHolds` needs read positions only; that the
  stored cursors themselves are within a ring is what a reset relies on, which passes
  over a cursor that is further behind;
* `OwedInv`: the backlog of a dead consumer stays in its slot, within a ring, until the
  first pass of a reset has come by it; from there the slowest cursor seen so far, and
  then the resume point, is at or before what it has read. No later reset of the same
  recovery computes it again.

`BroadcastProofs`, in its first part, under `BroadcastAssumption` (a slot, a word and a batch divisor
at least, the slack below the capacity), for every capacity, slack, payload size,
batch divisor and number of messages: `ImplementsLog`, `NeverBehind`,
`ClosedIsDrained` and `TypeCorrect`. No message is torn whatever stores the weak
memory lets the loads return. The invariant has a half for the log of stores and one
for what the consumer can make of it:

* `Stores` says of every store in the log which of the five kinds it is and what an
  acquire of it makes known; `Rising` that generations rise, and neither
  payloads nor the tail fall, in program order; `InHand` what the push at work has stored;
* `TailIsKnown`: every message below the cached tail is known written, from its first
  word to its even generation, so a load of its slot returns that store or a later one
  (`NeverBehind`: the branch the code calls unreachable is);
* `CopyIsHonest`: a copied word that is not the message's own was stored by a later
  lap, after the odd generation of that lap and the fence behind it. So the fence the
  consumer passes before its second look makes that generation, or a later one, the
  least it can load, and the revalidation fails. This is the pairing of the two fences,
  and the reason that neither can go;
* `LapIsReal` and `CloseIsKnown` carry what an overrun or the close flag told from
  the load to the answer.

In its second part, under `BroadcastBytesAssumption` (the capacity is a multiple of eight
and no less than eight, as every power of two is that `round_capacity` returns, and
`LengthDivisor` is at least 2), for every such capacity and divisor, every set of
lengths and any number of pushes and sessions: `WindowIsIntact` and
`ImplementsLossyRecords`. Neither is inductive: both are about the newest values, and a
consumer may load any older one it does not know to be gone. `BytesInv` therefore speaks
of every prefix of the log of stores:

* `FramesOk`: the committed frames abut and rise, and a record lies in one piece;
  `IntentOk`, `TailsOk`, `LatestOk` and `ClosesOk` say of each store of a counter what
  whoever reads it learns. A tail publishes its frames (`Publishes`): they are written,
  and declared, before it;
* a frame is *held* by a prefix of the log (`HoldsFrame`) when each of its lanes was
  written there and every later store to such a lane comes with the knowledge that the
  frame was `Passed`: that the intent went more than a ring beyond it. This is the order
  of `push`: intent, Release fence, lanes. It goes on being true of a frame that has long
  been overwritten, and that is what makes it inductive;
* `PusherOk`: the frame in hand is held as far as it is written, so its tail may
  publish it; a death leaves what it declared as the successor's `intent_floor`, and a
  healed intent is one more store of the same kind;
* `ReaderOk`: a consumer stands at a `Place` (a record, its padding, the end of what is
  committed, or a start of a lap that is only declared), and in the middle of a read it
  is at a frame that its knowledge holds. What it has of that frame is right *unless* the
  knowledge of its next Acquire fence includes that the frame was passed
  (`Reading`): a lane that was not the frame's own brought just that with it. So the
  check of the window after that fence either fails or certifies the copy, at both of
  its places, after the header and after the payload.

`WindowIsIntact` is what this says of the newest values: while the intent is within a ring
of a frame, no store to its lanes is later than its own. TLC checked `BytesInv` as an
invariant of `broadcast_bytes` before it was proved.

`AnchoredBytesProofs`, under `AnchoredBytesAssumption` (the capacity is a multiple of the
alignment and no less than `MIN_CAPACITY`, which every power of two is that
`round_capacity` returns), for every such capacity, set of anchors and number of
records and sessions: `AnchorsShield`, `LosesNothing` and
`ObserversLoseWholeRecords`. Memory is sequentially consistent in it (section 2); the
weak orders are `BroadcastProofs`'. Its parts:

* `FramesInv`: the frames written so far abut and rise, and a record lies in one piece;
* `ContentsInv`: the lanes of a frame hold it until the intent has passed them, also
  those of the frame in hand, which `Heal` makes a published one of after a death;
* `GateInv` and `ProducerInv`: what is cached of a slot is at most the cursor of
  whoever is in it, or the producer's last fence if it is still free; the intent is at
  most a ring ahead of that fence and of every live anchor. A successor's intent floor
  may be ahead of its tail, and its first pushes lie within what is declared already;
* `AnchorInv`: an anchor stands at a record or has caught up. With the gate, no lane of
  its record has been passed, so the record is intact while it is lent;
* for the refinement of `RecordBroadcast`, the frames are the log, and an anchor has had
  those that end at or before its cursor (`AbstractInv`); each action maps to the
  abstract one, or to a stutter, in a lemma of its own;
* for the observer, `ObserverInv`: `Place` says where a frame can be read from at all, as
  every lap of the buffer begins with one (a healed intent included); `Reading` that
  the observer is at a frame and has what it has of it right *unless* it has been overrun.
  The intent only grows, so a second look that finds no overrun certifies the copy.

`SpscBytesProofs`, under `BytesAssumption` (the capacity is a positive multiple of
eight, as every power of two is that `round_capacity` returns, and divides the cursor
word), for every capacity, every width of the word and
every set of lengths: `TypeCorrect`, `DrainedIsWhole`, `ImplementsQueue` and
`ReleasesTheStarved` (from its own invariant, that a waiting push has its flag up:
`WaitingIsFlagged`). The buffer is untyped: a
header is a word like those of the payloads, and `decode_record` would take any of
them for one. So none of the first three is inductive, and `IInv` says that there is a
history of frames, one for each publish (`\E F`), with the counts behind the wrapped
cursors as in `SpscRingProofs`:

* `FramesAt`: the frames abut, rise, each lies in one piece after padding to the end
  where it would wrap, and the last ends at the write cursor;
* `ContentsAt`: the words of a frame that is not released hold its header, its padding
  and its payload; a push writes between the write cursor and one ring past the cache
  of the consumer, and so over none of them (`WriteSpares`);
* `ProducerAt`: the push in hand fits what it was granted, and what it has written is
  the frame that its publish will append;
* `ConsumerAt`: the consumer stands at a frame that it knows of, or has caught up with
  what it knows; a forgotten `Msg` leaves it past the padding of a frame, which is why
  it may stand at a record as well as at the start of a frame. In a callback of `drain`
  it is past the borrowed record, which the published cursor is not.

`Decode` then says that what is decoded at such a place is the frame's record.

`ImplementsQueue` has the queue of `RecordQueue` decoded from the buffer, between the
consumer's cursor and the write cursor, by the recursive function `Decoded`, and bounded
by the recursive sum `Used`. Neither computes anything until the function is known to
exist. The induction theorems of the library are out of reach, so each of these
arguments supposes that it fails somewhere and goes to the least number where it does
(`Least`, from `WFMin`):

* `DecoderExists`: each step of the decoder leaves fewer bytes, whatever the words are,
  as a length is at least -1 and a record so at least a word (`DecoderGoesDown`); hence
  `DecodedSteps`, that `Decoded` does what its definition says;
* `QueueIsRest`: under `IInv` the queue is the records of the frames that the consumer
  has not passed (`StandsAfter`, `Rest`), whether it stands before the padding of the
  next one or past it;
* `QueueStep`: a publish appends its frame's record (`Enqueued`), `Release` and
  `DrainRecord` take the first off (`Dequeued`), and every other step leaves the consumer
  after the same frames (`QueueStays`);
* `RestFits`: each record lies in a frame of its own before the write cursor, so the
  sum of their sizes is at most the distance from the consumer, at most the capacity.

`SpmcBytesProofs`, under `SpmcBytesAssumption` (the capacity is as for
`AnchoredBytesProofs`, the batch divisor positive), for every such capacity, set of consumers and number of
records: `Implements` and `Releases`. Its parts:

* `FramesInv`: as above, the frames of the log abut, rise, and end at the write cursor;
* `ContentsInv`: the words of a frame hold it as long as it is *gated* (`Gated`), that
  is, as long as it is at or past the cursor of a live consumer, or past the write
  cursor at the last scan's fence, where one that joins now may still find it;
* `GateInv`: what is cached of a slot, and the minimum the push in hand was granted
  against, is at most the cursor of whoever is in the slot, and at most that fence;
  so a push writes behind every gated frame, and a frame the gate has let go of is
  never gated again;
* `ConsumerInv`: a consumer stands at a frame or has caught up (`Placed`), with its
  published cursor at or before where it reads; in a callback of a drain it is past the
  frame that the callback borrows, which its published cursor still gates;
* for `Implements`, a consumer has had the frames that end at or before its cursor
  (`AbstractInv`): the padding it skips, a deferred or an early publish and a scan are
  stutters;
* for `Releases`, a waiting push shows exactly what it needs (`ProducerInv`), and the
  threshold computed from it leaves out no cursor the push is blocked by (`InTheWay`).
  That the producer then gets its bytes is liveness, and TLC's.

`ShmProofs`, in its second part, under `ShmRegionAssumption`. `RegionInv` holds for every order of loads:
what the log of header stores says (`LogInv`), how far the creator has come
(`CreatorInv`), that an even generation is that of the newest ring, whole
(`RingsInv`), and which handles may hold a lease (`HolderInv`). From it
`FinishedOpens`, and `LeasesAreHeld`, which is in no run of its own (it is half of
`LeasesMatchHolders`). What an attacher makes of what it read is `ReaderInv`: as long
as the generation it read stands, every field it has validated is that
generation's. That takes `InOrder`, and so do `AttachesToTheRing`, `LeasesMatch`
and `LossyOpensZeroed`; `MCShmRegionWeak.cfg` is why. That no lease token reads as a
free lease is part of the assumption: `lease_token` (`shm.rs:615`) never returns 0. `AttachedIsBacked` is false (see the findings).

In the last section of `SpscRingProofs`, under `CvWaitAssumption`: `NoWakeupIsLost`,
from the owner of the mutex (`MutexInv`) and the two-fence dichotomy (`FenceInv`).

What `SpmcRingProofs` says of the claim race. `Claim` is the code's compare-and-swap,
which may land on a slot whose last owner has still to clear its bit, so
`RegisteredIsVisible` is false (below). The gate, the borrows and `len` are therefore
about *registered* consumers: joined, and their bit set. They hold in every
behaviour, the racing ones included: an un-gated consumer harms itself, and no other.
`OnlyALateClearUngates` says when a consumer stops being registered: one on whose
slot no leaver has its clear still to come (`Settled`) stays so until it leaves, as
nobody can then win its slot. What it leaves open is the one pending clear that
`spmc_claim_race` exhibits. That a consumer with its bit taken away is safe is not
claimed: it may be lapped while it borrows.

**Model-checked only.** Liveness (`PushProceeds`, `PublishedIsConsumed`,
`PublishedIsSeen`, `PublishedIsReached`, `CloseIsReported`), which TLAPS cannot treat under fairness.
`CachedIsLowerBound` and `LenNeverUndercounts` are proved and in no run: their
theorems cover every instance.

## 5. Findings

The first two are runs of `PROJECT.json`; the others are the configurations listed
beside the runs in section 3.

*A claim that outlives its look at the bitmap* (`registry.rs:168`, run
`spmc_claim_race`). `claim_registry_slot` loads the bitmap once and then tries a
compare-and-swap on each clear slot. Between the two, another subscriber may
claim such a slot, join and begin to drop: cursor `DETACHED`, bit still set. The
late swap succeeds on a slot mid-detach, and the leaver's `fetch_and` then clears
the newcomer's bit. The comment at `registry.rs:156` says that the observation of
a clear bit rules this out; the bit observed was that of an earlier time. It takes
two overlapping `subscribe` calls. The newcomer no longer gates the producer, which may
overwrite what it borrows; every consumer that keeps its bit is safe all the same
(`GateIsSafe`, `BorrowsAreIntact`), and this late clear is the only way to lose the
bit (`OnlyALateClearUngates`).

*A recovery that resumes at a torn element* (`shm.rs:3545`, run
`gate_torn_resume`). The resume point is the slowest cursor within one capacity of
the write cursor, of any slot that is not `FREE`. A force-detached slot is
`RETIRED`: the producer no longer waits for it. If it is exactly one capacity
behind, the producer may die while it writes over the element at that cursor. The
guide (`docs/guide/shm_ipc.md:195`) promises that a death in mid-write leaves
everything published drainable; here the first element of the recovered consumer
is half of the unpublished one. Skipping `RETIRED` slots, or a bound of less than
one capacity, would do.

*A claim that outlives a reset* (`shm.rs:3398`, `MCGateTableClobber.cfg`).
`claim_table_slot` stores the cursor and the lease after its compare-and-swap and
before anyone looks at the generation. A reset in between hands the slot to the
recoverer, whose cursor and lease are then overwritten: its flushes stop for ever.
`shm.rs:3432` speaks of "a leak, never a clobber". It takes an attach that overlaps
`recover_shm` in another process.

*An odd generation that does not come first* (`shm.rs:717`, `MCShmRegionWeak.cfg`). A
creation stores the odd generation and the cleared magic `SeqCst` and the fields
`Relaxed`. A `SeqCst` store keeps what precedes it before it and lets what follows
pass, although the comment at `shm.rs:718` says that it cannot "sink past the field
stores"; and the attacher's second look at the generation is an `Acquire` load, which
lets earlier loads pass. So on a weakly ordered machine an attacher may validate new
fields under the old generation. A `Release` fence after the first store and an
`Acquire` fence before the second look, as `seqlock.rs:54` has one, would do. In
program order all is well (`region`).

*A file resized before the generation is odd* (`shm.rs:700`, `MCShmRegionTruncate.cfg`).
The comment at `shm.rs:710` makes the generation odd "BEFORE touching anything"; the
file is resized first. An attacher that had measured it passes every check and maps
pages that are gone. It takes a creation of a smaller ring over one in use, within
an attach.

Three lesser facts that no document denies: a recoverer that dies between its two
generation stores leaves a region that every open refuses; one that dies after its
first reset has lost the resume point; and so has one that gave up with
`AddrInUse`, whose message says to retry. `RecoveryIsAtLeastOnce` excepts the last
two through `interrupted`.

## 6. Not modelled, and the plan

Not modelled at all: mapping and file descriptors of `shm.rs` (I/O), the
plausibility checks of cursors and tails at an open, what a role that is taken over
finds in a point-to-point or broadcast element ring; alignment and layout (`padded.rs`, `cache_padded.rs`); the spinning,
sleeping and backing-off strategies, which have no shared state; ZST handling,
`Display` and `Debug` implementations; tests, examples and benchmarks.

The anchored element ring (`anchored.rs`) has no module: its gate is
`SpmcRing`'s, its seqlock `BroadcastRing`'s, and the question its composition raises,
whether the writes an observer must survive and the gate an anchor relies on keep
out of each other's way, is asked of the byte ring, where the order of gate
and intent makes it harder. A module of it would add the slot generation as the thing
observers validate.
