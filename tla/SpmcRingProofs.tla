--------------------------- MODULE SpmcRingProofs ---------------------------
(***************************************************************************)
(* The gate of SpmcRing is safe for every capacity, every number of        *)
(* consumers and every number of messages: a consumer whose bit is set     *)
(* gates the producer, however subscribers race for its registry slot, and *)
(* only a leaver's late clear can take the bit away.  And every element is *)
(* dropped exactly once.                                                   *)
(***************************************************************************)
EXTENDS SpmcRing, RingArithProofs

\* From the claim of its registry slot to the DETACHED store.
Holds(c) == cpc[c] \notin {"out", "claim", "detached"}
\* From the join's fence to the DETACHED store; and with its bit still set.
PastFence(c) == Live(c) \/ cpc[c] = "fenced"
Joined(c) == PastFence(c) /\ slot[c] \in bitmap

\* The oldest cursor a joined consumer can still turn out to stand at.
Bound(c) == IF Live(c) THEN published[c] ELSE Larger(slots[slot[c]], floor[c])

\* A registry slot has one holder, and its cursor for as long as it is held; its
\* bit may be taken away by a leaver of the slot, but not its cursor.
OneOwner == \A c, d \in Consumers : Holds(c) /\ Holds(d) /\ slot[c] = slot[d] => c = d
CursorIsStored == \A c \in Consumers : Holds(c) => slots[slot[c]] # DETACHED
\* In the middle of subscribe.
Joining(c) == cpc[c] \in {"claim", "claimed", "active", "fenced"}
CallerIsKnown == \A c \in Consumers : Joining(c) => caller[c] \in Consumers \union {"producer"}
RegistryInv == OneOwner /\ CursorIsStored /\ CallerIsKnown

\* What the producer cached for a slot is at or below every cursor that the
\* slot can hold from now on.
CacheInv ==
  \A s \in Slots :
    /\ left_at[s] <= write_cursor /\ slots[s] <= write_cursor
    /\ cached_cursors[s] <= IF slots[s] = DETACHED THEN left_at[s] ELSE slots[s]

\* A joined consumer's own cursors are in order.
ConsumerInv ==
  \A c \in Consumers :
    /\ Live(c) =>
         /\ slots[slot[c]] = published[c]
         /\ published[c] <= read_cursor[c] /\ read_cursor[c] <= write_cache[c]
         /\ write_cache[c] <= write_cursor
    /\ cpc[c] = "holding" => read_cursor[c] < write_cache[c]
    /\ cpc[c] = "draining" =>
         published[c] < read_cursor[c] /\ read_cursor[c] <= limit[c] /\ limit[c] <= write_cache[c]

\* The gate: the cached minimum is at or below every joined consumer, and the
\* producer's last fence covers it for consumers about to join.
GateInv ==
  /\ cached_min <= fence_seq /\ fence_seq <= write_cursor
  /\ \A c \in Consumers : Joined(c) => cached_min <= Bound(c)
  /\ Owning => write_cursor < cached_min + Capacity

\* A scan in progress: a consumer it must see is still to be visited or is
\* accounted for; any other joined consumer joined at or past this scan's fence.
ScanInv ==
  ppc = "scan" =>
    /\ fence_seq = write_cursor /\ scan.max_lag <= write_cursor
    /\ write_cursor >= Capacity
    /\ \A c \in scan.must_see : PastFence(c)
    /\ \A c \in Consumers : Joined(c) =>
         IF c \in scan.must_see
         THEN slot[c] \in scan.todo
              \/ (scan.any_active /\ write_cursor - scan.max_lag <= Bound(c))
         ELSE write_cursor <= Bound(c)

\* What was overwritten: less than a ring behind, and behind every joined consumer.
WatermarkInv ==
  /\ dropped_through <= fence_seq
  /\ write_cursor - dropped_through <= Capacity
  /\ ppc \in {"drop", "claimed", "written"} => write_cursor - dropped_through < Capacity
  /\ \A c \in Consumers : Joined(c) => dropped_through <= Bound(c)

\* The live window of the buffer.
ContentsInv ==
  /\ ~torn_down => \A q \in Nat : dropped_through <= q /\ q < write_cursor => buffer[Index(q)] = q
  /\ ppc = "written" => buffer[Index(write_cursor)] = write_cursor

\* The end of the ring.
ClosedInv ==
  /\ closed <=> ppc = "dropped"
  /\ torn_down => ppc = "dropped" /\ \A c \in Consumers : cpc[c] = "out"
  /\ \A c \in Consumers : cpc[c] \in {"recheck", "closed"} => closed
  /\ \A c \in Consumers : cpc[c] = "closed" => read_cursor[c] = write_cursor

IInv ==
  /\ TypeOK /\ RegistryInv /\ CacheInv /\ ConsumerInv
  /\ GateInv /\ ScanInv /\ WatermarkInv /\ ContentsInv /\ ClosedInv
-----------------------------------------------------------------------------
(* The registry *)

\* A step that takes no registry slot leaves its invariant, if every slot still
\* held keeps a cursor.
LEMMA RegistryFrame ==
  ASSUME RegistryInv,
         \A d \in Consumers : Holds(d)' =>
           Holds(d) /\ slot'[d] = slot[d] /\ slots'[slot[d]] # DETACHED,
         \A d \in Consumers : Joining(d)' => caller'[d] \in Consumers \union {"producer"}
  PROVE  RegistryInv'
<1>1. OneOwner'
  BY DEF RegistryInv, OneOwner
<1>2. CursorIsStored' /\ CallerIsKnown'
  BY DEF CursorIsStored, CallerIsKnown, DETACHED
<1> QED BY <1>1, <1>2 DEF RegistryInv

\* What RegistryInv says of one handle.
LEMMA RegistryOf ==
  ASSUME RegistryInv, NEW d \in Consumers
  PROVE  /\ Holds(d) => slots[slot[d]] # DETACHED
         /\ Joining(d) => caller[d] \in Consumers \union {"producer"}
         /\ \A c \in Consumers : Holds(c) /\ Holds(d) /\ slot[c] = slot[d] => c = d
BY DEF RegistryInv, OneOwner, CursorIsStored, CallerIsKnown

\* Every proof below may use the state's structure and its types.
USE SpmcAssumption DEF IInv, TypeOK, RingTypeOK, RegistryTypeOK, ProducerTypeOK, HandlesTypeOK,
  ring, registry, producer, handles, Live, LiveStates, DETACHED, Uninit

-----------------------------------------------------------------------------
(* The producer's steps *)

\* The fields of the scan record.
LEMMA ScanType ==
  ASSUME ProducerTypeOK
  PROVE  /\ scan.todo \in SUBSET Slots /\ scan.must_see \in SUBSET Consumers
         /\ scan.any_active \in BOOLEAN /\ scan.max_lag \in Nat
  OBVIOUS

\* The bound of a consumer past its fence is a cursor.
LEMMA FencedType ==
  ASSUME RegistryInv, TypeOK, NEW c \in Consumers, PastFence(c)
  PROVE  slots[slot[c]] # DETACHED /\ Bound(c) \in Nat
BY DEF RegistryInv, CursorIsStored, PastFence, Holds, Bound, Larger

\* A joined consumer is registered, and its bound is a cursor.
LEMMA JoinedType ==
  ASSUME RegistryInv, TypeOK, NEW c \in Consumers, Joined(c)
  PROVE  /\ slot[c] \in bitmap /\ slots[slot[c]] # DETACHED
         /\ Bound(c) \in Nat
BY FencedType DEF Joined, PastFence

\* A visit of slot s passes it by, and no joined consumer the scan must see is there.
Passed(s) ==
  /\ \A c \in scan.must_see : Joined(c) => slot[c] # s
  /\ scan'.any_active = scan.any_active /\ scan'.max_lag = scan.max_lag
  /\ cached_cursors' = cached_cursors

\* A visit of slot s folds in a cursor, which becomes the cached one.
Folded(s, cursor) ==
  /\ cursor \in 0 .. write_cursor
  /\ cursor <= IF slots[s] = DETACHED THEN left_at[s] ELSE slots[s]
  /\ scan'.any_active
  /\ scan'.max_lag \in 0 .. write_cursor
  /\ scan'.max_lag >= scan.max_lag /\ scan'.max_lag >= write_cursor - cursor
  /\ cached_cursors' = [cached_cursors EXCEPT ![s] = cursor]

\* What Saw does to the scan and to the cache.
LEMMA SawFolds ==
  ASSUME IInv, NEW s \in Slots, ppc = "scan", NEW cursor \in 0 .. write_cursor, Saw(s, cursor),
         cursor <= IF slots[s] = DETACHED THEN left_at[s] ELSE slots[s],
         cached_cursors' = [cached_cursors EXCEPT ![s] = cursor]
  PROVE  /\ Folded(s, cursor)
         /\ scan' \in [todo : SUBSET Slots, any_active : BOOLEAN, max_lag : Nat,
                       must_see : SUBSET Consumers]
         /\ scan'.todo = scan.todo \ {s} /\ scan'.must_see = scan.must_see
<1>1. /\ scan'.todo = scan.todo \ {s} /\ scan'.must_see = scan.must_see
      /\ scan'.any_active = TRUE
      /\ scan'.max_lag = Larger(scan.max_lag, write_cursor - cursor)
  BY DEF Saw
<1>2. Larger(scan.max_lag, write_cursor - cursor) \in Nat
  BY ScanType DEF Larger
<1>3. scan' \in [todo : SUBSET Slots, any_active : BOOLEAN, max_lag : Nat, must_see : SUBSET Consumers]
  BY <1>2, ScanType DEF Saw
<1>4. Folded(s, cursor)
  BY <1>1, ScanType DEF Folded, Larger, ScanInv
<1> QED BY <1>1, <1>3, <1>4

\* scan_chunk_registry's visit of a slot passes it by or folds in a cursor that is
\* at or below every cursor the slot can hold from now on.
LEMMA ScanSlotCases ==
  ASSUME IInv, NEW s \in Slots, ScanSlot(s)
  PROVE  /\ scan' \in [todo : SUBSET Slots, any_active : BOOLEAN, max_lag : Nat,
                       must_see : SUBSET Consumers]
         /\ scan'.todo = scan.todo \ {s} /\ scan'.must_see = scan.must_see
         /\ Passed(s) \/ \E cursor \in 0 .. write_cursor : Folded(s, cursor)
<1>0. ppc = "scan"
  BY DEF ScanSlot
<1>1. CASE /\ s \notin bitmap \/ ~\E c \in scan.must_see : slot[c] = s
           /\ scan' = [scan EXCEPT !.todo = @ \ {s}]
           /\ UNCHANGED cached_cursors
  <2>1. \A c \in scan.must_see : Joined(c) => slot[c] # s
    BY <1>1 DEF Joined, PastFence
  <2> QED BY <1>1, <2>1, ScanType DEF Passed
<1>2. CASE Saw(s, cached_cursors[s]) /\ UNCHANGED cached_cursors
  <2>1. cached_cursors' = [cached_cursors EXCEPT ![s] = cached_cursors[s]]
    BY <1>2
  <2>2. /\ cached_cursors[s] \in 0 .. write_cursor
        /\ cached_cursors[s] <= IF slots[s] = DETACHED THEN left_at[s] ELSE slots[s]
    BY DEF CacheInv
  <2> QED BY <1>0, <1>2, <2>1, <2>2, SawFolds
<1>3. CASE /\ slots[s] # DETACHED /\ Saw(s, slots[s])
           /\ cached_cursors' = [cached_cursors EXCEPT ![s] = slots[s]]
  <2>1. slots[s] \in 0 .. write_cursor
    BY <1>3 DEF CacheInv
  <2>2. slots[s] <= IF slots[s] = DETACHED THEN left_at[s] ELSE slots[s]
    BY <1>3, <2>1
  <2> QED BY <1>0, <1>3, <2>1, <2>2, SawFolds
<1> QED BY <1>1, <1>2, <1>3 DEF ScanSlot

\* The visit of one slot: a consumer the scan must see is not missed.
LEMMA ScanSlotStep ==
  ASSUME IInv, NEW s \in Slots, ScanSlot(s)
  PROVE  IInv'
<1>1. ppc = "scan" /\ UNCHANGED <<ring, registry, ppc, cached_min, fence_seq, handles>>
  BY DEF ScanSlot
<1>2. CacheInv' /\ cached_cursors' \in [Slots -> Nat]
  <2>1. CASE Passed(s)
    BY <1>1, <2>1 DEF CacheInv, Passed
  <2>2. ASSUME NEW cursor \in 0 .. write_cursor, Folded(s, cursor)
        PROVE  CacheInv' /\ cached_cursors' \in [Slots -> Nat]
    BY <1>1, <2>2 DEF CacheInv, Folded
  <2> QED BY <2>1, <2>2, ScanSlotCases
<1>3. ScanInv'
  <2>1. scan'.max_lag <= write_cursor
    BY <1>1, ScanSlotCases DEF Passed, Folded, ScanInv
  <2>2. ASSUME NEW c \in Consumers, Joined(c), c \in scan.must_see
        PROVE  \/ slot[c] \in scan'.todo
               \/ scan'.any_active /\ write_cursor - scan'.max_lag <= Bound(c)
    <3>1. Bound(c) \in Nat /\ slots[slot[c]] # DETACHED /\ slots[slot[c]] <= Bound(c)
      <4>1. Bound(c) \in Nat /\ slots[slot[c]] # DETACHED /\ slots[slot[c]] \in Nat
        BY <2>2, JoinedType
      <4>2. CASE Live(c)
        BY <4>1, <4>2 DEF ConsumerInv, Bound
      <4>3. CASE ~Live(c)
        BY <4>1, <4>3 DEF Bound, Larger
      <4> QED BY <4>1, <4>2, <4>3
    <3>0. /\ scan'.todo = scan.todo \ {s} /\ slot[c] \in Slots
          /\ scan.max_lag \in Nat /\ write_cursor \in Nat
      BY ScanSlotCases, ScanType
    <3>2. \/ slot[c] \in scan.todo
          \/ scan.any_active /\ write_cursor - scan.max_lag <= Bound(c)
      BY <1>1, <2>2 DEF ScanInv
    <3>3. CASE Passed(s)
      <4>1. slot[c] # s /\ scan'.any_active = scan.any_active /\ scan'.max_lag = scan.max_lag
        BY <2>2, <3>3 DEF Passed
      <4> QED BY <3>0, <3>2, <4>1
    <3>4. ASSUME NEW cursor \in 0 .. write_cursor, Folded(s, cursor)
          PROVE  \/ slot[c] \in scan'.todo
                 \/ scan'.any_active /\ write_cursor - scan'.max_lag <= Bound(c)
      <4>0. /\ cursor \in Nat /\ scan'.any_active /\ scan'.max_lag \in Nat
            /\ scan'.max_lag >= scan.max_lag /\ scan'.max_lag >= write_cursor - cursor
        BY <3>4 DEF Folded
      <4>1. CASE slot[c] = s
        <5>1. cursor <= slots[slot[c]] /\ slots[slot[c]] \in Nat
          BY <3>1, <3>4, <4>1 DEF Folded
        <5> QED BY <3>0, <3>1, <4>0, <5>1
      <4>2. CASE slot[c] # s /\ slot[c] \in scan.todo
        BY <3>0, <4>2
      <4>3. CASE scan.any_active /\ write_cursor - scan.max_lag <= Bound(c)
        BY <3>0, <3>1, <4>0, <4>3
      <4> QED BY <3>2, <4>1, <4>2, <4>3
    <3> QED BY <3>3, <3>4, ScanSlotCases
  <2> QED BY <1>1, <2>1, <2>2, ScanSlotCases DEF ScanInv, Joined, PastFence, Bound
<1>4. RegistryInv' /\ ConsumerInv'
  BY <1>1 DEF RegistryInv, OneOwner, CursorIsStored, CallerIsKnown, Joining,
              Holds, ConsumerInv
<1>5. GateInv' /\ WatermarkInv' /\ ContentsInv' /\ ClosedInv'
  BY <1>1 DEF GateInv, WatermarkInv, ContentsInv, ClosedInv, Joined, PastFence, Bound, Owning, Index
<1> QED BY <1>1, <1>2, <1>3, <1>4, <1>5, ScanSlotCases

\* Live sequences have slots of their own.
LEMMA IndexDistinct ==
  ASSUME NEW a \in Nat, NEW b \in Nat, a < b, b - a < Capacity
  PROVE  Index(a) # Index(b)
<1>1. Capacity \in Nat \ {0}
  OBVIOUS
<1>2. a % Capacity # b % Capacity
  BY <1>1, ModDistinct
<1> QED BY <1>2 DEF Index

\* A slot index is in range (SlotBuffer::get_unchecked).
LEMMA IndexType ==
  ASSUME NEW a \in Nat
  PROVE  Index(a) \in 0 .. mask
BY ModInterval DEF Index, mask

\* What the producer does to its own slot leaves the live window alone.
LEMMA OwnSlotOnly ==
  ASSUME IInv, ppc \in {"drop", "claimed", "written"},
         NEW x \in Nat \union {Uninit}, buffer' = [buffer EXCEPT ![Index(write_cursor)] = x],
         UNCHANGED <<write_cursor, dropped_through>>
  PROVE  /\ buffer' \in [0 .. mask -> Nat \union {Uninit}]
         /\ buffer'[Index(write_cursor)] = x
         /\ \A q \in Nat : dropped_through' <= q /\ q < write_cursor' => buffer'[Index(q)] = q
<1>1. Index(write_cursor) \in 0 .. mask /\ ~torn_down
  BY IndexType DEF ClosedInv
<1>2. ASSUME NEW q \in Nat, dropped_through <= q, q < write_cursor
      PROVE  buffer'[Index(q)] = q
  <2>1. Index(q) # Index(write_cursor) /\ Index(q) \in 0 .. mask
    BY <1>2, IndexDistinct, IndexType DEF WatermarkInv
  <2>2. buffer[Index(q)] = q
    BY <1>1, <1>2 DEF ContentsInv
  <2> QED BY <2>1, <2>2
<1> QED BY <1>1, <1>2

\* has_space, granted from the cached minimum.
LEMMA HasSpaceCachedStep ==
  ASSUME IInv, HasSpaceCached
  PROVE  IInv'
<1>1. TypeOK'
  BY DEF HasSpaceCached
<1>2. GateInv' /\ WatermarkInv' /\ ContentsInv' /\ ClosedInv' /\ ScanInv'
  BY DEF HasSpaceCached, GateInv, ScanInv, WatermarkInv, ContentsInv, ClosedInv, Joined, PastFence, Bound, Owning,
         Gated, Index
<1>3. RegistryInv' /\ CacheInv' /\ ConsumerInv'
  BY DEF HasSpaceCached, RegistryInv, OneOwner, CursorIsStored,
         CallerIsKnown, Joining, Holds, CacheInv, ConsumerInv
<1> QED BY <1>1, <1>2, <1>3

\* The scan starts: the gate's fence is now the write cursor.
LEMMA ScanFenceStep ==
  ASSUME IInv, ScanFence
  PROVE  IInv'
<1>1. TypeOK'
  BY DEF ScanFence
<1>2. ScanInv'
  BY DEF ScanFence, ScanInv, Gated, Joined, PastFence, Bound
<1>3. GateInv' /\ WatermarkInv' /\ ContentsInv' /\ ClosedInv'
  BY DEF ScanFence, GateInv, WatermarkInv, ContentsInv, ClosedInv, Joined, PastFence, Bound, Owning, Index
<1>4. RegistryInv' /\ CacheInv' /\ ConsumerInv'
  BY DEF ScanFence, RegistryInv, OneOwner, CursorIsStored,
         CallerIsKnown, Joining, Holds, CacheInv, ConsumerInv
<1> QED BY <1>1, <1>2, <1>3, <1>4

\* The scan ends: its minimum is at or below every joined consumer.
LEMMA ScanFinishStep ==
  ASSUME IInv, ScanFinish
  PROVE  IInv'
<1>1. ppc = "scan" /\ NewMin \in Nat /\ NewMin <= write_cursor
  BY ScanType DEF ScanFinish, NewMin, ScanInv
<1>2. TypeOK'
  BY <1>1 DEF ScanFinish, NoScan
<1>3. ASSUME NEW c \in Consumers, Joined(c)
      PROVE  NewMin <= Bound(c)
  <2>1. \/ scan.any_active /\ write_cursor - scan.max_lag <= Bound(c)
        \/ write_cursor <= Bound(c)
    BY <1>1, <1>3, ScanType DEF ScanFinish, ScanInv
  <2>2. Bound(c) \in Nat /\ scan.max_lag \in Nat /\ scan.max_lag <= write_cursor
    BY <1>1, <1>3, ScanType, JoinedType DEF ScanInv
  <2> QED BY <1>1, <2>1, <2>2 DEF NewMin
<1>4. GateInv' /\ WatermarkInv' /\ ScanInv'
  BY <1>1, <1>3 DEF ScanFinish, GateInv, ScanInv, WatermarkInv, Joined, PastFence, Bound, Owning, Gated
<1>5. ContentsInv' /\ ClosedInv'
  BY DEF ScanFinish, ContentsInv, ClosedInv, Index
<1>6. RegistryInv' /\ CacheInv' /\ ConsumerInv'
  BY DEF ScanFinish, RegistryInv, OneOwner, CursorIsStored,
         CallerIsKnown, Joining, Holds, CacheInv, ConsumerInv
<1> QED BY <1>2, <1>4, <1>5, <1>6

\* prepare_slot moves the watermark no further than the cached minimum.
LEMMA PrepareSlotStep ==
  ASSUME IInv, PrepareSlot
  PROVE  IInv'
<1>1. write_cursor < cached_min + Capacity /\ cached_min <= fence_seq
  BY DEF PrepareSlot, GateInv, Owning
<1>2. \A c \in Consumers : Joined(c) => cached_min <= Bound(c) /\ Bound(c) \in Nat
  BY JoinedType DEF GateInv
<1>3. TypeOK'
  BY DEF PrepareSlot, mask
<1>4. WatermarkInv'
  BY <1>1, <1>2 DEF PrepareSlot, WatermarkInv, Joined, PastFence, Bound, mask
<1>5. ContentsInv'
  BY DEF PrepareSlot, ContentsInv, Index, mask
<1>6. GateInv' /\ ScanInv' /\ ClosedInv'
  BY DEF PrepareSlot, GateInv, ScanInv, ClosedInv, Joined, PastFence, Bound, Owning
<1>7. RegistryInv' /\ CacheInv' /\ ConsumerInv'
  BY DEF PrepareSlot, RegistryInv, OneOwner, CursorIsStored,
         CallerIsKnown, Joining, Holds, CacheInv, ConsumerInv
<1> QED BY <1>3, <1>4, <1>5, <1>6, <1>7

\* The producer's steps inside its own slot: drop_overwritten, write, abandon.
LEMMA OwnSlotStep ==
  ASSUME IInv, DropOverwritten \/ Write \/ Abandon
  PROVE  IInv'
<1>1. PICK x \in Nat \union {Uninit} :
        /\ buffer' = [buffer EXCEPT ![Index(write_cursor)] = x]
        /\ ppc' = "written" => x = write_cursor
  BY DEF DropOverwritten, Write, Abandon
<1>2. /\ ppc \in {"drop", "claimed", "written"}
      /\ ppc' \in {"claimed", "written", "idle"}
      /\ UNCHANGED <<write_cursor, closed, dropped_through, torn_down, registry,
                     cached_min, cached_cursors, scan, fence_seq, handles>>
  BY DEF DropOverwritten, Write, Abandon
<1>3. TypeOK' /\ ContentsInv'
  BY <1>1, <1>2, OwnSlotOnly DEF ContentsInv, Index
<1>4. GateInv' /\ ScanInv' /\ WatermarkInv' /\ ClosedInv'
  BY <1>2 DEF GateInv, ScanInv, WatermarkInv, ClosedInv, Joined, PastFence, Bound, Owning
<1>5. RegistryInv' /\ CacheInv' /\ ConsumerInv'
  BY <1>2 DEF RegistryInv, OneOwner, CursorIsStored,
              CallerIsKnown, Joining, Holds, CacheInv, ConsumerInv
<1> QED BY <1>3, <1>4, <1>5

\* publish: the written element joins the window.
LEMMA PublishStep ==
  ASSUME IInv, Publish
  PROVE  IInv'
<1>1. TypeOK'
  BY DEF Publish
<1>2. ContentsInv'
  <2>1. buffer' = buffer /\ buffer[Index(write_cursor)] = write_cursor /\ write_cursor' = write_cursor + 1
        /\ dropped_through' = dropped_through /\ torn_down' = torn_down /\ ppc' = "idle"
    BY DEF Publish, ContentsInv
  <2>2. ASSUME ~torn_down, NEW q \in Nat, dropped_through <= q, q < write_cursor + 1
        PROVE  buffer[Index(q)] = q
    <3>1. CASE q = write_cursor
      BY <2>1, <3>1
    <3>2. CASE q < write_cursor
      BY <2>2, <3>2 DEF ContentsInv
    <3> QED BY <2>2, <3>1, <3>2
  <2> QED BY <2>1, <2>2 DEF ContentsInv, Index
<1>3. GateInv' /\ ScanInv' /\ WatermarkInv' /\ ClosedInv'
  BY DEF Publish, GateInv, ScanInv, WatermarkInv, ClosedInv, Joined, PastFence, Bound, Owning
<1>4. RegistryInv' /\ CacheInv' /\ ConsumerInv'
  BY DEF Publish, RegistryInv, OneOwner, CursorIsStored,
         CallerIsKnown, Joining, Holds, CacheInv, ConsumerInv
<1> QED BY <1>1, <1>2, <1>3, <1>4

\* The producer's drop.
LEMMA DropProducerStep ==
  ASSUME IInv, DropProducer
  PROVE  IInv'
<1>1. TypeOK'
  BY DEF DropProducer
<1>2. GateInv' /\ ScanInv' /\ WatermarkInv' /\ ContentsInv' /\ ClosedInv'
  BY DEF DropProducer, GateInv, ScanInv, WatermarkInv, ContentsInv, ClosedInv, Joined, PastFence, Bound, Owning, Index
<1>3. RegistryInv' /\ CacheInv' /\ ConsumerInv'
  BY DEF DropProducer, RegistryInv, OneOwner, CursorIsStored,
         CallerIsKnown, Joining, Holds, CacheInv, ConsumerInv
<1> QED BY <1>1, <1>2, <1>3

\* Shared::drop.
LEMMA TearDownStep ==
  ASSUME IInv, TearDown
  PROVE  IInv'
<1>1. TypeOK'
  BY DEF TearDown
<1>2. GateInv' /\ ScanInv' /\ WatermarkInv' /\ ContentsInv' /\ ClosedInv'
  BY DEF TearDown, GateInv, ScanInv, WatermarkInv, ContentsInv, ClosedInv, Joined, PastFence, Bound, Owning
<1>3. RegistryInv' /\ CacheInv' /\ ConsumerInv'
  BY DEF TearDown, RegistryInv, OneOwner, CursorIsStored,
         CallerIsKnown, Joining, Holds, CacheInv, ConsumerInv
<1> QED BY <1>1, <1>2, <1>3

-----------------------------------------------------------------------------
(* The consumers' steps *)

\* A step of a handle that adds no consumer to those the gate counts and moves
\* none of them back leaves the gate as it was.
LEMMA BoundsRise ==
  ASSUME IInv, UNCHANGED <<ring, producer>>,
         \A d \in Consumers :
           /\ PastFence(d) => PastFence(d)'
           /\ Joined(d)' =>
                Joined(d) /\ slot'[d] = slot[d] /\ Bound(d)' \in Nat /\ Bound(d) <= Bound(d)'
  PROVE  GateInv' /\ ScanInv' /\ WatermarkInv' /\ ContentsInv'
<1>1. \A d \in Consumers : Joined(d) => Bound(d) \in Nat
  BY JoinedType
<1>2. GateInv'
  BY <1>1 DEF GateInv, Owning
<1>3. ScanInv'
  <2> SUFFICES ASSUME ppc = "scan" PROVE ScanInv'
    BY DEF ScanInv
  <2>1. ASSUME NEW d \in Consumers, Joined(d)'
        PROVE  IF d \in scan.must_see
               THEN slot'[d] \in scan.todo
                    \/ (scan.any_active /\ write_cursor - scan.max_lag <= Bound(d)')
               ELSE write_cursor <= Bound(d)'
    <3>1. Joined(d) /\ slot'[d] = slot[d] /\ Bound(d) \in Nat /\ Bound(d)' \in Nat /\ Bound(d) <= Bound(d)'
      BY <1>1, <2>1
    <3>2. write_cursor \in Nat /\ scan.max_lag \in Nat
      BY ScanType
    <3>3. IF d \in scan.must_see
          THEN slot[d] \in scan.todo \/ (scan.any_active /\ write_cursor - scan.max_lag <= Bound(d))
          ELSE write_cursor <= Bound(d)
      BY <3>1 DEF ScanInv
    <3> QED BY <3>1, <3>2, <3>3
  <2>2. \A d \in scan.must_see : PastFence(d)'
    BY ScanType DEF ScanInv
  <2> QED BY <2>1, <2>2 DEF ScanInv
<1>4. WatermarkInv'
  <2>1. ASSUME NEW d \in Consumers, Joined(d)'
        PROVE  dropped_through <= Bound(d)'
    BY <1>1, <2>1 DEF WatermarkInv
  <2> QED BY <2>1 DEF WatermarkInv
<1>5. ContentsInv'
  BY DEF ContentsInv, Index
<1> QED BY <1>2, <1>3, <1>4, <1>5

\* The step of a joined consumer that leaves its registry slot alone.
LEMMA PrivateStep ==
  ASSUME IInv, NEW c \in Consumers, Live(c), UNCHANGED <<ring, registry, producer, caller, free, slot, published, floor>>,
         \E pc \in LiveStates : cpc' = [cpc EXCEPT ![c] = pc]
  PROVE  RegistryInv' /\ CacheInv' /\ GateInv' /\ ScanInv' /\ WatermarkInv' /\ ContentsInv'
<1>1. PICK pc \in LiveStates : cpc' = [cpc EXCEPT ![c] = pc]
  OBVIOUS
<1>2. \A d \in Consumers : d # c => cpc'[d] = cpc[d]
  BY <1>1
<1>3. Live(c) /\ Live(c)'
  BY <1>1
<1>4. RegistryInv'
  <2>1. ASSUME NEW d \in Consumers
        PROVE  (Holds(d)' <=> Holds(d)) /\ (Joining(d)' <=> Joining(d))
    BY <1>1, <1>3 DEF Holds, Joining
  <2> QED BY <2>1, RegistryOf, RegistryFrame
<1>5. CacheInv'
  BY DEF CacheInv
<1>6. \A d \in Consumers :
        /\ PastFence(d)' <=> PastFence(d)
        /\ Joined(d)' => Joined(d) /\ Bound(d)' = Bound(d)
  BY <1>2, <1>3 DEF PastFence, Joined, Bound
<1>7. GateInv' /\ ScanInv' /\ WatermarkInv' /\ ContentsInv'
  <2>1. \A d \in Consumers : Joined(d) => Bound(d) \in Nat
    BY JoinedType
  <2>2. \A d \in Consumers :
          /\ PastFence(d) => PastFence(d)'
          /\ Joined(d)' =>
               Joined(d) /\ slot'[d] = slot[d] /\ Bound(d)' \in Nat /\ Bound(d) <= Bound(d)'
    BY <1>6, <2>1
  <2> QED BY <2>2, BoundsRise
<1> QED BY <1>4, <1>5, <1>7

\* has_item touches nothing shared.
LEMMA has_itemStep ==
  ASSUME IInv, NEW c \in Consumers, has_item(c)
  PROVE  IInv'
<1>1. TypeOK' /\ ConsumerInv' /\ ClosedInv'
  BY DEF has_item, ConsumerInv, ClosedInv
<1>2. Live(c) /\ \E pc \in LiveStates : cpc' = [cpc EXCEPT ![c] = pc]
  BY DEF has_item
<1> QED BY <1>1, <1>2, PrivateStep DEF has_item

\* check_closed's load of the closed word.
LEMMA CheckClosedStep ==
  ASSUME IInv, NEW c \in Consumers, CheckClosed(c)
  PROVE  IInv'
<1>1. TypeOK' /\ ConsumerInv' /\ ClosedInv'
  BY DEF CheckClosed, ConsumerInv, ClosedInv
<1>2. Live(c) /\ \E pc \in LiveStates : cpc' = [cpc EXCEPT ![c] = pc]
  BY DEF CheckClosed
<1> QED BY <1>1, <1>2, PrivateStep DEF CheckClosed

\* check_closed's refresh: Closed is final because closed is set after the last publish.
LEMMA RecheckStep ==
  ASSUME IInv, NEW c \in Consumers, Recheck(c)
  PROVE  IInv'
<1>1. TypeOK' /\ ConsumerInv' /\ ClosedInv'
  BY DEF Recheck, ConsumerInv, ClosedInv
<1>2. Live(c) /\ \E pc \in LiveStates : cpc' = [cpc EXCEPT ![c] = pc]
  BY DEF Recheck
<1> QED BY <1>1, <1>2, PrivateStep DEF Recheck

\* A borrow abandoned.
LEMMA ForgetStep ==
  ASSUME IInv, NEW c \in Consumers, Forget(c)
  PROVE  IInv'
<1>1. TypeOK' /\ ConsumerInv' /\ ClosedInv'
  BY DEF Forget, ConsumerInv, ClosedInv
<1>2. Live(c) /\ \E pc \in LiveStates : cpc' = [cpc EXCEPT ![c] = pc]
  BY DEF Forget
<1> QED BY <1>1, <1>2, PrivateStep DEF Forget

\* A batch of drain is never empty and never past the refreshed cursor.
LEMMA DrainBatch ==
  ASSUME NEW n \in Nat, n # 0
  PROVE  Clamp(n, 1, Batch) \in 1 .. n
<1>1. Batch \in 1 .. 64
  BY DEF Batch, publish_batch, Clamp
<1> QED BY <1>1 DEF Clamp

\* drain's refresh and first element.
LEMMA DrainBeginStep ==
  ASSUME IInv, NEW c \in Consumers, DrainBegin(c)
  PROVE  IInv'
<1>1. PICK n \in 1 .. write_cursor - read_cursor[c] :
        limit' = [limit EXCEPT ![c] = read_cursor[c] + n]
  <2>1. write_cursor - read_cursor[c] \in Nat /\ write_cursor - read_cursor[c] # 0
    BY DEF DrainBegin, ConsumerInv
  <2> QED BY <2>1, DrainBatch DEF DrainBegin
<1>2. TypeOK' /\ ClosedInv'
  <2>1. limit' \in [Consumers -> Nat] /\ read_cursor' \in [Consumers -> Nat]
    BY <1>1 DEF DrainBegin
  <2> QED BY <2>1 DEF DrainBegin, ClosedInv
<1>3. ConsumerInv'
  BY <1>1 DEF DrainBegin, ConsumerInv
<1>4. Live(c) /\ \E pc \in LiveStates : cpc' = [cpc EXCEPT ![c] = pc]
  BY DEF DrainBegin
<1> QED BY <1>2, <1>3, <1>4, PrivateStep DEF DrainBegin

\* drain's next element.
LEMMA DrainItemStep ==
  ASSUME IInv, NEW c \in Consumers, DrainItem(c)
  PROVE  IInv'
<1>1. TypeOK' /\ ClosedInv'
  BY DEF DrainItem, ClosedInv
<1>2. ConsumerInv'
  BY DEF DrainItem, ConsumerInv
<1>3. Live(c) /\ cpc' = [cpc EXCEPT ![c] = "draining"]
  BY DEF DrainItem
<1>4. \E pc \in LiveStates : cpc' = [cpc EXCEPT ![c] = pc]
  BY <1>3
<1> QED BY <1>1, <1>2, <1>3, <1>4, PrivateStep DEF DrainItem

\* The step of a joined consumer that publishes a cursor in its registry slot.
LEMMA FlushStep ==
  ASSUME IInv, NEW c \in Consumers, Live(c), NEW read \in Nat,
         published[c] <= read, read <= write_cursor,
         UNCHANGED <<ring, bitmap, left_at, producer, caller, free, slot, floor>>,
         flush(c, read), \E pc \in LiveStates : cpc' = [cpc EXCEPT ![c] = pc]
  PROVE  /\ slots' \in [Slots -> Nat \union {DETACHED}] /\ published' \in [Consumers -> Nat]
         /\ slots'[slot[c]] = read /\ published'[c] = read
         /\ \A d \in Consumers : Live(d) /\ d # c =>
              slots'[slot[d]] = slots[slot[d]] /\ published'[d] = published[d]
         /\ RegistryInv' /\ CacheInv' /\ GateInv' /\ ScanInv' /\ WatermarkInv' /\ ContentsInv'
<1>1. PICK pc \in LiveStates : cpc' = [cpc EXCEPT ![c] = pc]
  OBVIOUS
<1>2. /\ \A d \in Consumers : d # c => cpc'[d] = cpc[d]
      /\ Live(c) /\ Live(c)' /\ Holds(c)
  BY <1>1 DEF Holds
<1>3. /\ slots' = [slots EXCEPT ![slot[c]] = read]
      /\ published' = [published EXCEPT ![c] = read]
      /\ slots[slot[c]] = published[c]
  BY DEF flush, ConsumerInv
<1>4. \A d \in Consumers : Holds(d) /\ d # c => slot[d] # slot[c]
  BY <1>2 DEF RegistryInv, OneOwner
<1>5. \A d \in Consumers : Holds(d) /\ d # c => slots'[slot[d]] = slots[slot[d]]
  BY <1>3, <1>4
<1>6. RegistryInv'
  <2>1. ASSUME NEW d \in Consumers, d # c
        PROVE  /\ Holds(d)' <=> Holds(d)
               /\ Holds(d) => slots'[slot[d]] # DETACHED
               /\ Joining(d)' <=> Joining(d)
    BY <1>2, <1>5, <2>1, RegistryOf DEF Holds, Joining
  <2>2. slots'[slot[c]] # DETACHED /\ ~Joining(c)'
    <3>1. slot[c] \in Slots /\ slots'[slot[c]] = read
      BY <1>3
    <3>2. ~Joining(c)'
      BY <1>2 DEF Joining
    <3> QED BY <3>1, <3>2
  <2> QED BY <1>2, <2>1, <2>2, RegistryOf, RegistryFrame
<1>7. CacheInv'
  BY <1>3 DEF CacheInv
<1>8. \A d \in Consumers :
        /\ PastFence(d) => PastFence(d)'
        /\ Joined(d)' =>
             Joined(d) /\ slot'[d] = slot[d] /\ Bound(d)' \in Nat /\ Bound(d) <= Bound(d)'
  <2>1. /\ Bound(c)' = read /\ Bound(c) = published[c]
        /\ PastFence(c) /\ PastFence(c)' /\ (Joined(c)' <=> Joined(c))
    BY <1>2, <1>3 DEF PastFence, Joined, Bound
  <2>2. ASSUME NEW d \in Consumers, d # c
        PROVE  /\ (PastFence(d)' <=> PastFence(d)) /\ (Joined(d)' <=> Joined(d))
               /\ Joined(d) => Bound(d)' = Bound(d)
    <3>1. cpc'[d] = cpc[d] /\ slot'[d] = slot[d] /\ floor'[d] = floor[d] /\ published'[d] = published[d]
      BY <1>2, <1>3, <2>2
    <3>2. Joined(d) => slots'[slot[d]] = slots[slot[d]]
      BY <1>5, <2>2 DEF Joined, PastFence, Holds
    <3> QED BY <3>1, <3>2 DEF PastFence, Joined, Bound
  <2>3. \A d \in Consumers : Joined(d) => Bound(d) \in Nat
    BY JoinedType
  <2> QED BY <1>3, <2>1, <2>2, <2>3
<1>9. GateInv' /\ ScanInv' /\ WatermarkInv' /\ ContentsInv'
  BY <1>8, BoundsRise
<1> QED BY <1>3, <1>5, <1>6, <1>7, <1>9 DEF Holds

\* advance_one, whether it publishes or defers.
LEMMA advance_oneStep ==
  ASSUME IInv, NEW c \in Consumers, advance_one(c)
  PROVE  IInv'
<1>1. /\ Live(c) /\ cpc' = [cpc EXCEPT ![c] = "live"] /\ "live" \in LiveStates
      /\ read_cursor' = [read_cursor EXCEPT ![c] = read_cursor[c] + 1]
      /\ UNCHANGED <<ring, bitmap, left_at, producer, caller, free, slot, write_cache, floor, limit>>
  BY DEF advance_one
<1>2. published[c] <= read_cursor[c] /\ read_cursor[c] < write_cache[c] /\ write_cache[c] <= write_cursor
  BY DEF advance_one, ConsumerInv
<1>3. CASE UNCHANGED <<slots, published>>
  <2>1. TypeOK' /\ ConsumerInv' /\ ClosedInv'
    BY <1>1, <1>2, <1>3 DEF ConsumerInv, ClosedInv
  <2> QED BY <1>1, <1>3, <2>1, PrivateStep
<1>4. CASE flush(c, read_cursor[c] + 1)
  <2>0. /\ read_cursor[c] + 1 \in Nat
        /\ published[c] <= read_cursor[c] + 1 /\ read_cursor[c] + 1 <= write_cursor
    BY <1>2
  <2>1. /\ slots' \in [Slots -> Nat \union {DETACHED}] /\ published' \in [Consumers -> Nat]
        /\ slots'[slot[c]] = read_cursor[c] + 1 /\ published'[c] = read_cursor[c] + 1
        /\ \A d \in Consumers : Live(d) /\ d # c =>
             slots'[slot[d]] = slots[slot[d]] /\ published'[d] = published[d]
        /\ RegistryInv' /\ CacheInv' /\ GateInv' /\ ScanInv' /\ WatermarkInv' /\ ContentsInv'
    BY <1>1, <1>4, <2>0, FlushStep
  <2>2. TypeOK' /\ ClosedInv'
    BY <1>1, <2>1 DEF ClosedInv
  <2>3. ConsumerInv'
    <3>1. /\ cpc'[c] \notin {"holding", "draining"} /\ slots'[slot'[c]] = published'[c]
          /\ published'[c] = read_cursor'[c] /\ read_cursor'[c] <= write_cache'[c]
          /\ write_cache'[c] <= write_cursor'
      BY <1>1, <1>2, <2>1
    <3>2. ASSUME NEW d \in Consumers, d # c
          PROVE  /\ cpc'[d] = cpc[d] /\ slot'[d] = slot[d] /\ read_cursor'[d] = read_cursor[d]
                 /\ write_cache'[d] = write_cache[d] /\ limit'[d] = limit[d]
                 /\ Live(d) => slots'[slot[d]] = slots[slot[d]] /\ published'[d] = published[d]
      BY <1>1, <2>1, <3>2
    <3>3. ASSUME NEW d \in Consumers, d # c
          PROVE  /\ Live(d)' =>
                      /\ slots'[slot'[d]] = published'[d]
                      /\ published'[d] <= read_cursor'[d] /\ read_cursor'[d] <= write_cache'[d]
                      /\ write_cache'[d] <= write_cursor'
                 /\ cpc'[d] = "holding" => read_cursor'[d] < write_cache'[d]
                 /\ cpc'[d] = "draining" =>
                      published'[d] < read_cursor'[d] /\ read_cursor'[d] <= limit'[d] /\ limit'[d] <= write_cache'[d]
      BY <1>1, <3>2, <3>3 DEF ConsumerInv
    <3>4. /\ slots'[slot'[c]] = published'[c] /\ published'[c] <= read_cursor'[c]
          /\ cpc'[c] # "holding" /\ cpc'[c] # "draining"
      BY <1>1, <1>2, <2>1, <3>1
    <3>5. ASSUME NEW d \in Consumers
          PROVE  /\ Live(d)' =>
                      /\ slots'[slot'[d]] = published'[d]
                      /\ published'[d] <= read_cursor'[d] /\ read_cursor'[d] <= write_cache'[d]
                      /\ write_cache'[d] <= write_cursor'
                 /\ cpc'[d] = "holding" => read_cursor'[d] < write_cache'[d]
                 /\ cpc'[d] = "draining" =>
                      published'[d] < read_cursor'[d] /\ read_cursor'[d] <= limit'[d] /\ limit'[d] <= write_cache'[d]
      <4>1. CASE d = c
        BY <3>1, <3>4, <4>1
      <4>2. CASE d # c
        BY <3>3, <4>2
      <4> QED BY <4>1, <4>2
    <3> QED BY <3>5 DEF ConsumerInv
  <2> QED BY <2>1, <2>2, <2>3
<1> QED BY <1>3, <1>4 DEF advance_one

\* FlushOnDrop at the end of drain.
LEMMA DrainEndStep ==
  ASSUME IInv, NEW c \in Consumers, DrainEnd(c)
  PROVE  IInv'
<1>1. /\ Live(c) /\ cpc' = [cpc EXCEPT ![c] = "live"] /\ "live" \in LiveStates
      /\ limit' = [limit EXCEPT ![c] = 0] /\ flush(c, read_cursor[c])
      /\ UNCHANGED <<ring, bitmap, left_at, producer, caller, free, slot, read_cursor, write_cache, floor>>
  BY DEF DrainEnd
<1>2. published[c] <= read_cursor[c] /\ read_cursor[c] <= write_cursor
  BY <1>1 DEF ConsumerInv
<1>3. /\ slots' \in [Slots -> Nat \union {DETACHED}] /\ published' \in [Consumers -> Nat]
      /\ slots'[slot[c]] = read_cursor[c] /\ published'[c] = read_cursor[c]
      /\ \A d \in Consumers : Live(d) /\ d # c =>
           slots'[slot[d]] = slots[slot[d]] /\ published'[d] = published[d]
      /\ RegistryInv' /\ CacheInv' /\ GateInv' /\ ScanInv' /\ WatermarkInv' /\ ContentsInv'
  BY <1>1, <1>2, FlushStep
<1>4. TypeOK' /\ ClosedInv'
  BY <1>1, <1>3 DEF ClosedInv
<1>5. ConsumerInv'
  BY <1>1, <1>2, <1>3 DEF ConsumerInv
<1> QED BY <1>3, <1>4, <1>5

\* flush_pending, first step of a consumer's drop.
LEMMA FlushPendingStep ==
  ASSUME IInv, NEW c \in Consumers, FlushPending(c)
  PROVE  IInv'
<1>1. /\ Live(c) /\ cpc' = [cpc EXCEPT ![c] = "dropping"] /\ "dropping" \in LiveStates
      /\ flush(c, read_cursor[c])
      /\ UNCHANGED <<ring, bitmap, left_at, producer, caller, free, slot, read_cursor, write_cache,
                     floor, limit>>
  BY DEF FlushPending
<1>2. published[c] <= read_cursor[c] /\ read_cursor[c] <= write_cursor
  BY <1>1 DEF ConsumerInv
<1>3. /\ slots' \in [Slots -> Nat \union {DETACHED}] /\ published' \in [Consumers -> Nat]
      /\ slots'[slot[c]] = read_cursor[c] /\ published'[c] = read_cursor[c]
      /\ \A d \in Consumers : Live(d) /\ d # c =>
           slots'[slot[d]] = slots[slot[d]] /\ published'[d] = published[d]
      /\ RegistryInv' /\ CacheInv' /\ GateInv' /\ ScanInv' /\ WatermarkInv' /\ ContentsInv'
  BY <1>1, <1>2, FlushStep
<1>4. TypeOK' /\ ClosedInv'
  BY <1>1, <1>3 DEF ClosedInv
<1>5. ConsumerInv'
  BY <1>1, <1>2, <1>3 DEF ConsumerInv
<1> QED BY <1>3, <1>4, <1>5

\* The step of a consumer on its way in or out that the gate does not see.  A
\* bit cleared on the way un-gates the slot's holder, and adds no one.
LEMMA UncountedStep ==
  ASSUME IInv, NEW c \in Consumers, ~PastFence(c), ~PastFence(c)',
         UNCHANGED <<ring, producer, read_cursor, published, write_cache, floor, limit>>,
         \A d \in Consumers : d # c =>
           /\ cpc'[d] = cpc[d] /\ slot'[d] = slot[d]
           /\ PastFence(d) => slots'[slot[d]] = slots[slot[d]]
           /\ PastFence(d) /\ slot[d] \in bitmap' => slot[d] \in bitmap
  PROVE  GateInv' /\ ScanInv' /\ WatermarkInv' /\ ContentsInv' /\ ConsumerInv'
<1>1. \A d \in Consumers : PastFence(d) => Bound(d) \in Nat
  BY FencedType
<1>2. ASSUME NEW d \in Consumers
      PROVE  /\ PastFence(d)' <=> PastFence(d)
             /\ Joined(d)' => Joined(d) /\ slot'[d] = slot[d] /\ Bound(d)' = Bound(d)
  <2>1. CASE d = c
    BY <2>1 DEF Joined, PastFence
  <2>2. CASE d # c
    BY <2>2 DEF Joined, PastFence, Bound
  <2> QED BY <2>1, <2>2
<1>3. \A d \in Consumers :
        /\ PastFence(d) => PastFence(d)'
        /\ Joined(d)' =>
             Joined(d) /\ slot'[d] = slot[d] /\ Bound(d)' \in Nat /\ Bound(d) <= Bound(d)'
  BY <1>1, <1>2 DEF Joined, PastFence
<1>4. GateInv' /\ ScanInv' /\ WatermarkInv' /\ ContentsInv'
  BY <1>3, BoundsRise
<1>5. ConsumerInv'
  BY DEF ConsumerInv, PastFence
<1> QED BY <1>4, <1>5

\* subscribe's bitmap load: what it saw clear are the candidates.
LEMMA LookForSlotStep ==
  ASSUME IInv, NEW c \in Consumers, LookForSlot(c)
  PROVE  IInv'
<1>1. /\ cpc[c] = "out" /\ ~closed /\ cpc' = [cpc EXCEPT ![c] = "claim"]
      /\ free' = [free EXCEPT ![c] = Slots \ bitmap]
      /\ \E h \in {"producer"} \union Consumers : caller' = [caller EXCEPT ![c] = h]
      /\ UNCHANGED <<ring, registry, producer, slot, read_cursor, published, write_cache, floor, limit>>
  BY DEF LookForSlot
<1>2. TypeOK' /\ CacheInv' /\ ClosedInv'
  <2>1. TypeOK'
    BY <1>1
  <2>2. CacheInv'
    BY <1>1 DEF CacheInv
  <2>3. ClosedInv'
    BY <1>1 DEF ClosedInv
  <2> QED BY <2>1, <2>2, <2>3
<1>3. RegistryInv'
  <2>1. ASSUME NEW d \in Consumers
        PROVE  /\ Holds(d)' <=> Holds(d)
               /\ Holds(d) => cpc'[d] = cpc[d]
               /\ Joining(d)' => caller'[d] \in Consumers \union {"producer"}
    <3>1. CASE d = c
      BY <1>1, <3>1 DEF Holds
    <3>2. CASE d # c
      BY <1>1, <3>2, RegistryOf DEF Holds, Joining
    <3> QED BY <3>1, <3>2
  <2> QED BY <1>1, <2>1, RegistryOf, RegistryFrame
<1>4. GateInv' /\ ScanInv' /\ WatermarkInv' /\ ContentsInv' /\ ConsumerInv'
  BY <1>1, UncountedStep DEF PastFence
<1> QED BY <1>2, <1>3, <1>4

\* The claim: the slot has no holder, and nothing cached for it is newer.  Its
\* last holder may have its bit still to clear.
LEMMA ClaimStep ==
  ASSUME IInv, NEW c \in Consumers, Claim(c)
  PROVE  IInv'
<1>1. PICK s \in free[c] :
        /\ slots[s] = DETACHED
        /\ \E provisional \in Larger(left_at[s], Known(c)) .. write_cursor :
             slots' = [slots EXCEPT ![s] = provisional]
        /\ slot' = [slot EXCEPT ![c] = s]
        /\ left_at' = [left_at EXCEPT ![s] = 0]
  BY DEF Claim
<1>2. PICK provisional \in Nat :
        /\ left_at[s] <= provisional /\ provisional <= write_cursor
        /\ slots' = [slots EXCEPT ![s] = provisional]
  <2>1. s \in Slots /\ Known(c) \in Nat
    BY <1>1 DEF Known, Claim, RegistryInv, CallerIsKnown, Joining
  <2>2. Larger(left_at[s], Known(c)) \in Nat /\ left_at[s] <= Larger(left_at[s], Known(c))
    BY <2>1 DEF Larger
  <2>3. PICK provisional \in Larger(left_at[s], Known(c)) .. write_cursor :
          slots' = [slots EXCEPT ![s] = provisional]
    BY <1>1
  <2>4. left_at[s] \in Nat /\ provisional \in Nat /\ left_at[s] <= provisional /\ provisional <= write_cursor
    BY <2>1, <2>2, <2>3
  <2> QED BY <2>3, <2>4
<1>3. /\ cpc[c] = "claim" /\ cpc' = [cpc EXCEPT ![c] = "claimed"] /\ free' = [free EXCEPT ![c] = {}]
      /\ UNCHANGED <<ring, bitmap, producer, caller, read_cursor, published, write_cache,
                     floor, limit>>
  BY DEF Claim
<1>4. s \in Slots
  BY <1>1
<1>5. \A d \in Consumers : Holds(d) => slot[d] # s /\ d # c
  BY <1>1, <1>3 DEF RegistryInv, CursorIsStored, Holds
<1>6. TypeOK' /\ ClosedInv'
  BY <1>1, <1>2, <1>3, <1>4 DEF ClosedInv
<1>7. CacheInv'
  BY <1>1, <1>2, <1>3, <1>4 DEF CacheInv
<1>8. OneOwner' /\ CursorIsStored'
  <2>1. /\ \A d \in Consumers : Holds(d)' <=> Holds(d) \/ d = c
        /\ \A d \in Consumers : Holds(d) => cpc'[d] = cpc[d] /\ slot'[d] = slot[d]
        /\ slot'[c] = s /\ slots'[s] = provisional
        /\ \A d \in Consumers : Holds(d) => slots'[slot[d]] = slots[slot[d]]
    BY <1>1, <1>2, <1>3, <1>4, <1>5 DEF Holds
  <2>2. OneOwner'
    <3>1. ASSUME NEW d \in Consumers, NEW e \in Consumers, Holds(d)', Holds(e)',
                 slot'[d] = slot'[e], d # e
          PROVE  FALSE
      <4>1. CASE d = c
        BY <1>5, <2>1, <3>1, <4>1
      <4>2. CASE e = c
        BY <1>5, <2>1, <3>1, <4>2
      <4>3. CASE d # c /\ e # c
        BY <2>1, <3>1, <4>3 DEF RegistryInv, OneOwner
      <4> QED BY <4>1, <4>2, <4>3
    <3> QED BY <3>1 DEF OneOwner
  <2>3. CursorIsStored'
    <3>1. ASSUME NEW d \in Consumers, Holds(d)'
          PROVE  slots'[slot'[d]] # DETACHED
      <4>1. CASE d = c
        BY <2>1, <4>1
      <4>2. CASE d # c
        BY <2>1, <3>1, <4>2 DEF RegistryInv, CursorIsStored
      <4> QED BY <4>1, <4>2
    <3> QED BY <3>1 DEF CursorIsStored
  <2> QED BY <2>2, <2>3
<1>9. CallerIsKnown'
  BY <1>3 DEF RegistryInv, CallerIsKnown, Joining
<1>10. GateInv' /\ ScanInv' /\ WatermarkInv' /\ ContentsInv' /\ ConsumerInv'
  <2>1. \A d \in Consumers : d # c => cpc'[d] = cpc[d] /\ slot'[d] = slot[d]
    BY <1>1, <1>3
  <2>2. \A d \in Consumers : PastFence(d) => slots'[slot[d]] = slots[slot[d]]
    BY <1>2, <1>5 DEF PastFence, Holds
  <2>3. ~PastFence(c) /\ ~PastFence(c)'
    BY <1>3 DEF PastFence
  <2> QED BY <1>3, <2>1, <2>2, <2>3, UncountedStep
<1> QED BY <1>6, <1>7, <1>8, <1>9, <1>10 DEF RegistryInv

\* A lost claim tries another slot.
LEMMA ClaimFailsStep ==
  ASSUME IInv, NEW c \in Consumers, ClaimFails(c)
  PROVE  IInv'
<1>1. /\ cpc[c] = "claim"
      /\ UNCHANGED <<ring, registry, producer, cpc, caller, slot, read_cursor, published, write_cache,
                     floor, limit>>
  BY DEF ClaimFails
<1>2. PICK F \in SUBSET Slots : free' = [free EXCEPT ![c] = F]
  <2>1. CASE free[c] = {}
    BY <2>1 DEF ClaimFails
  <2>2. CASE free[c] # {}
    <3>1. PICK s \in free[c] : free' = [free EXCEPT ![c] = free[c] \ {s}]
      BY <2>2 DEF ClaimFails
    <3>2. free[c] \ {s} \in SUBSET Slots
      OBVIOUS
    <3> QED BY <3>1, <3>2
  <2> QED BY <2>1, <2>2
<1>3. TypeOK' /\ CacheInv' /\ ClosedInv'
  BY <1>1, <1>2 DEF CacheInv, ClosedInv
<1>4. RegistryInv'
  BY <1>1, <1>2 DEF RegistryInv, OneOwner, CursorIsStored,
                    CallerIsKnown, Joining, Holds
<1>5. GateInv' /\ ScanInv' /\ WatermarkInv' /\ ContentsInv' /\ ConsumerInv'
  BY <1>1, UncountedStep DEF PastFence
<1> QED BY <1>3, <1>4, <1>5

\* The bit of the claimed slot is set.
LEMMA SetBitStep ==
  ASSUME IInv, NEW c \in Consumers, SetBit(c)
  PROVE  IInv'
<1>1. /\ cpc[c] = "claimed" /\ cpc' = [cpc EXCEPT ![c] = "active"]
      /\ bitmap' = bitmap \union {slot[c]}
      /\ UNCHANGED <<ring, slots, left_at, producer, caller, free, slot, read_cursor, published,
                     write_cache, floor, limit>>
  BY DEF SetBit
<1>2. TypeOK' /\ CacheInv' /\ ClosedInv'
  BY <1>1 DEF CacheInv, ClosedInv
<1>3. RegistryInv'
  BY <1>1 DEF RegistryInv, OneOwner, CursorIsStored, CallerIsKnown, Joining, Holds
<1>4. GateInv' /\ ScanInv' /\ WatermarkInv' /\ ContentsInv' /\ ConsumerInv'
  <2>1. ~PastFence(c) /\ ~PastFence(c)' /\ Holds(c)
    BY <1>1 DEF PastFence, Holds
  <2>2. \A d \in Consumers : d # c /\ PastFence(d) => slot[d] # slot[c]
    BY <2>1, RegistryOf DEF PastFence, Holds
  <2> QED BY <1>1, <2>1, <2>2, UncountedStep
<1> QED BY <1>2, <1>3, <1>4

\* deactivate: the bit of the slot is cleared, whoever holds the slot by now.
LEMMA DeactivateStep ==
  ASSUME IInv, NEW c \in Consumers, Deactivate(c)
  PROVE  IInv'
<1>1. /\ cpc[c] = "detached" /\ cpc' = [cpc EXCEPT ![c] = "out"]
      /\ bitmap' = bitmap \ {slot[c]}
      /\ UNCHANGED <<ring, slots, left_at, producer, caller, free, slot, read_cursor, published,
                     write_cache, floor, limit>>
  BY DEF Deactivate
<1>2. TypeOK' /\ CacheInv' /\ ClosedInv'
  BY <1>1 DEF CacheInv, ClosedInv
<1>3. RegistryInv'
  BY <1>1 DEF RegistryInv, OneOwner, CursorIsStored, CallerIsKnown, Joining, Holds
<1>4. GateInv' /\ ScanInv' /\ WatermarkInv' /\ ContentsInv' /\ ConsumerInv'
  BY <1>1, UncountedStep DEF PastFence
<1> QED BY <1>2, <1>3, <1>4

\* A joiner's fence comes after the producer's last one, and in a scan under
\* way that is the scan's own: the joiner will stand at or past it.
LEMMA JoinFenceStep ==
  ASSUME IInv, NEW c \in Consumers, JoinFence(c)
  PROVE  IInv'
<1>1. /\ cpc[c] = "active" /\ cpc' = [cpc EXCEPT ![c] = "fenced"]
      /\ floor' = [floor EXCEPT ![c] = fence_seq]
      /\ UNCHANGED <<ring, registry, producer, caller, free, slot, read_cursor, published,
                     write_cache, limit>>
  BY DEF JoinFence
<1>2. TypeOK' /\ CacheInv' /\ ConsumerInv' /\ ClosedInv' /\ ContentsInv'
  BY <1>1 DEF CacheInv, ConsumerInv, ClosedInv, ContentsInv, Index
<1>3. RegistryInv'
  BY <1>1 DEF RegistryInv, OneOwner, CursorIsStored,
              CallerIsKnown, Joining, Holds
<1>4. ~PastFence(c) /\ PastFence(c)' /\ Bound(c)' \in Nat /\ fence_seq <= Bound(c)'
  <2>1. ~PastFence(c) /\ PastFence(c)' /\ ~Live(c)'
    BY <1>1 DEF PastFence
  <2>2. slots[slot[c]] \in Nat
    BY <1>1 DEF RegistryInv, CursorIsStored, Holds
  <2>3. Bound(c)' = Larger(slots[slot[c]], fence_seq)
    BY <1>1, <2>1 DEF Bound
  <2> QED BY <2>1, <2>2, <2>3 DEF Larger
<1>5. ASSUME NEW d \in Consumers, d # c
      PROVE  /\ (PastFence(d)' <=> PastFence(d)) /\ (Joined(d)' <=> Joined(d))
             /\ Bound(d)' = Bound(d)
  BY <1>1, <1>5 DEF PastFence, Joined, Bound
<1>6. \A d \in Consumers : Joined(d) => Bound(d) \in Nat
  BY JoinedType
<1>7. ASSUME NEW d \in Consumers, Joined(d)'
      PROVE  cached_min <= Bound(d)' /\ dropped_through <= Bound(d)'
  <2>1. CASE d = c
    BY <1>4, <2>1 DEF GateInv, WatermarkInv
  <2>2. CASE d # c
    BY <1>5, <1>7, <2>2 DEF GateInv, WatermarkInv
  <2> QED BY <2>1, <2>2
<1>8. GateInv' /\ WatermarkInv'
  BY <1>1, <1>7 DEF GateInv, WatermarkInv, Owning
<1>9. ScanInv'
  <2>1. ppc = "scan" => c \notin scan.must_see
    BY <1>4 DEF ScanInv
  <2> QED BY <1>1, <1>4, <1>5, <1>6, <2>1, ScanType DEF ScanInv
<1> QED BY <1>2, <1>3, <1>8, <1>9

\* The join point is at or past the bound the gate keeps for the joiner.
LEMMA JoinStep ==
  ASSUME IInv, NEW c \in Consumers, Join(c)
  PROVE  IInv'
<1>1. PastFence(c) /\ slot[c] \in Slots /\ slots[slot[c]] \in Nat /\ Holds(c) /\ Known(c) \in Nat
  <2>1. cpc[c] = "fenced"
    BY DEF Join
  <2>2. PastFence(c) /\ Holds(c)
    BY <2>1 DEF PastFence, Holds
  <2>3. slot[c] \in Slots /\ slots[slot[c]] \in Nat
    BY <2>2, FencedType
  <2>4. caller[c] \in Consumers \union {"producer"}
    BY <2>1 DEF RegistryInv, CallerIsKnown, Joining
  <2> QED BY <2>2, <2>3, <2>4 DEF Known
<1>2. PICK joined \in Larger(Larger(slots[slot[c]], floor[c]), Known(c)) .. write_cursor :
        /\ slots' = [slots EXCEPT ![slot[c]] = joined]
        /\ read_cursor' = [read_cursor EXCEPT ![c] = joined]
        /\ published' = [published EXCEPT ![c] = joined]
        /\ write_cache' = [write_cache EXCEPT ![c] = joined]
  BY DEF Join
<1>3. /\ cpc[c] = "fenced" /\ cpc' = [cpc EXCEPT ![c] = "live"]
      /\ floor' = [floor EXCEPT ![c] = 0] /\ caller' = [caller EXCEPT ![c] = "none"]
      /\ UNCHANGED <<ring, bitmap, left_at, producer, free, slot, limit>>
  BY DEF Join
<1>4. joined \in Nat /\ joined <= write_cursor /\ slots[slot[c]] <= joined /\ Bound(c) <= joined
  <2>1. Bound(c) = Larger(slots[slot[c]], floor[c])
    BY <1>3 DEF Bound
  <2> QED BY <1>1, <1>2, <2>1 DEF Larger
<1>5. \A d \in Consumers : Holds(d) /\ d # c => slots'[slot[d]] = slots[slot[d]]
  BY <1>1, <1>2 DEF RegistryInv, OneOwner
<1>6. TypeOK' /\ ClosedInv'
  BY <1>2, <1>3, <1>4 DEF ClosedInv
<1>7. CacheInv'
  BY <1>1, <1>2, <1>3, <1>4 DEF CacheInv
<1>8. ConsumerInv'
  <2>1. /\ cpc'[c] = "live" /\ slots'[slot'[c]] = joined /\ published'[c] = joined
        /\ read_cursor'[c] = joined /\ write_cache'[c] = joined
    BY <1>1, <1>2, <1>3
  <2>2. ASSUME NEW d \in Consumers, d # c, Live(d)
        PROVE  /\ cpc'[d] = cpc[d] /\ slots'[slot'[d]] = slots[slot[d]] /\ published'[d] = published[d]
               /\ read_cursor'[d] = read_cursor[d] /\ write_cache'[d] = write_cache[d]
    BY <1>2, <1>3, <1>5, <2>2 DEF Holds
  <2>3. \A d \in Consumers : d # c => cpc'[d] = cpc[d]
    BY <1>3
  <2>4. ASSUME NEW d \in Consumers
        PROVE  /\ Live(d)' =>
                    /\ slots'[slot'[d]] = published'[d]
                    /\ published'[d] <= read_cursor'[d] /\ read_cursor'[d] <= write_cache'[d]
                    /\ write_cache'[d] <= write_cursor'
               /\ cpc'[d] = "holding" => read_cursor'[d] < write_cache'[d]
               /\ cpc'[d] = "draining" =>
                    published'[d] < read_cursor'[d] /\ read_cursor'[d] <= limit'[d] /\ limit'[d] <= write_cache'[d]
    <3>1. CASE d = c
      BY <1>3, <1>4, <2>1, <3>1
    <3>2. CASE d # c
      BY <1>3, <2>2, <2>3, <3>2 DEF ConsumerInv
    <3> QED BY <3>1, <3>2
  <2> QED BY <2>4 DEF ConsumerInv
<1>9. RegistryInv'
  <2>1. ASSUME NEW d \in Consumers, d # c
        PROVE  /\ Holds(d)' <=> Holds(d)
               /\ Holds(d) => slots'[slot[d]] # DETACHED
               /\ Joining(d)' => Joining(d) /\ caller'[d] = caller[d]
    BY <1>3, <1>5, <2>1, RegistryOf DEF Holds, Joining
  <2>2. slots'[slot[c]] # DETACHED /\ ~Joining(c)'
    <3>1. slots'[slot[c]] = joined
      BY <1>1, <1>2
    <3>2. ~Joining(c)'
      BY <1>3 DEF Joining
    <3> QED BY <1>4, <3>1, <3>2
  <2>3. ASSUME NEW d \in Consumers, Holds(d)'
        PROVE  Holds(d) /\ slot'[d] = slot[d] /\ slots'[slot[d]] # DETACHED
    <3>1. CASE d = c
      BY <1>1, <1>3, <2>2, <3>1
    <3>2. CASE d # c
      BY <1>3, <2>1, <2>3, <3>2, RegistryOf
    <3> QED BY <3>1, <3>2
  <2>4. \A d \in Consumers : Joining(d)' => caller'[d] \in Consumers \union {"producer"}
    <3>1. ASSUME NEW d \in Consumers, Joining(d)'
          PROVE  caller'[d] \in Consumers \union {"producer"}
      <4>1. d # c
        BY <2>2, <3>1
      <4>2. Joining(d) /\ caller'[d] = caller[d]
        BY <2>1, <3>1, <4>1
      <4> QED BY <4>2, RegistryOf
    <3> QED BY <3>1
  <2> QED BY <2>3, <2>4, RegistryFrame
<1>10. \A d \in Consumers :
         /\ PastFence(d) => PastFence(d)'
         /\ Joined(d)' =>
              Joined(d) /\ slot'[d] = slot[d] /\ Bound(d)' \in Nat /\ Bound(d) <= Bound(d)'
  <2>1. PastFence(c)' /\ (Joined(c)' <=> Joined(c)) /\ Bound(c)' = joined
    BY <1>1, <1>2, <1>3 DEF PastFence, Joined, Bound
  <2>2. ASSUME NEW d \in Consumers, d # c
        PROVE  /\ (PastFence(d)' <=> PastFence(d)) /\ (Joined(d)' <=> Joined(d))
               /\ Joined(d) => Bound(d)' = Bound(d)
    <3>1. cpc'[d] = cpc[d] /\ slot'[d] = slot[d] /\ floor'[d] = floor[d] /\ published'[d] = published[d]
      BY <1>2, <1>3, <2>2
    <3>2. Joined(d) => slots'[slot[d]] = slots[slot[d]]
      BY <1>5, <2>2 DEF Joined, PastFence, Holds
    <3> QED BY <1>3, <3>1, <3>2 DEF PastFence, Joined, Bound
  <2>3. \A d \in Consumers : Joined(d) => Bound(d) \in Nat
    BY JoinedType
  <2>4. ASSUME NEW d \in Consumers
        PROVE  /\ PastFence(d) => PastFence(d)'
               /\ Joined(d)' =>
                    Joined(d) /\ slot'[d] = slot[d] /\ Bound(d)' \in Nat /\ Bound(d) <= Bound(d)'
    <3>1. CASE d = c
      BY <1>1, <1>3, <1>4, <2>1, <3>1
    <3>2. CASE d # c
      BY <1>3, <2>2, <2>3, <3>2
    <3> QED BY <3>1, <3>2
  <2> QED BY <2>4
<1>11. GateInv' /\ ScanInv' /\ WatermarkInv' /\ ContentsInv'
  BY <1>3, <1>10, BoundsRise
<1> QED BY <1>6, <1>7, <1>8, <1>9, <1>11

\* A consumer leaves: what it had read bounds the slot's next occupant.
LEMMA StoreDetachedStep ==
  ASSUME IInv, NEW c \in Consumers, StoreDetached(c)
  PROVE  IInv'
<1>1. /\ cpc[c] = "dropping" /\ cpc' = [cpc EXCEPT ![c] = "detached"]
      /\ slots' = [slots EXCEPT ![slot[c]] = DETACHED]
      /\ left_at' = [left_at EXCEPT ![slot[c]] = read_cursor[c]]
      /\ scan' = [scan EXCEPT !.must_see = @ \ {c}]
      /\ read_cursor' = [read_cursor EXCEPT ![c] = 0]
      /\ published' = [published EXCEPT ![c] = 0] /\ write_cache' = [write_cache EXCEPT ![c] = 0]
      /\ UNCHANGED <<ring, bitmap, ppc, cached_min, cached_cursors, fence_seq, caller, free, slot,
                     floor, limit>>
  BY DEF StoreDetached
<1>2. Holds(c) /\ slots[slot[c]] = published[c] /\ published[c] <= read_cursor[c] /\ read_cursor[c] <= write_cursor
  BY <1>1 DEF Holds, ConsumerInv
<1>3. \A d \in Consumers : Holds(d) /\ d # c => slots'[slot[d]] = slots[slot[d]]
  BY <1>1, <1>2 DEF RegistryInv, OneOwner
<1>4. scan' \in [todo : SUBSET Slots, any_active : BOOLEAN, max_lag : Nat, must_see : SUBSET Consumers]
      /\ scan'.todo = scan.todo /\ scan'.any_active = scan.any_active /\ scan'.max_lag = scan.max_lag
      /\ scan'.must_see = scan.must_see \ {c}
  BY <1>1, ScanType
<1>5. TypeOK' /\ ClosedInv' /\ ContentsInv'
  BY <1>1, <1>4 DEF ClosedInv, ContentsInv, Index
<1>6. CacheInv'
  <2>1. ASSUME NEW s \in Slots
        PROVE  /\ left_at'[s] <= write_cursor /\ slots'[s] <= write_cursor
               /\ cached_cursors[s] <= IF slots'[s] = DETACHED THEN left_at'[s] ELSE slots'[s]
    <3>1. CASE s = slot[c]
      <4>1. slots'[s] = DETACHED /\ left_at'[s] = read_cursor[c]
        BY <1>1, <3>1
      <4>2. cached_cursors[s] <= published[c] /\ cached_cursors[s] \in Nat
        BY <1>2, <3>1 DEF CacheInv
      <4> QED BY <1>2, <4>1, <4>2
    <3>2. CASE s # slot[c]
      BY <1>1, <3>2 DEF CacheInv
    <3> QED BY <3>1, <3>2
  <2> QED BY <1>1, <2>1 DEF CacheInv
<1>7. ConsumerInv'
  BY <1>1, <1>3 DEF ConsumerInv, Holds
<1>8. RegistryInv'
  <2>1. ASSUME NEW d \in Consumers, d # c
        PROVE  /\ Holds(d)' <=> Holds(d)
               /\ Holds(d) => slots'[slot[d]] # DETACHED
               /\ Joining(d)' => Joining(d)
    BY <1>1, <1>3, <2>1, RegistryOf DEF Holds, Joining
  <2>2. ~Holds(c)' /\ ~Joining(c)'
    BY <1>1 DEF Holds, Joining
  <2>3. ASSUME NEW d \in Consumers, Holds(d)'
        PROVE  Holds(d) /\ slot'[d] = slot[d] /\ slots'[slot[d]] # DETACHED
    <3>1. CASE d = c
      BY <2>2, <2>3, <3>1
    <3>2. CASE d # c
      BY <1>1, <2>1, <2>3, <3>2, RegistryOf
    <3> QED BY <3>1, <3>2
  <2>4. \A d \in Consumers : Joining(d)' => caller'[d] \in Consumers \union {"producer"}
    BY <1>1, <2>1, <2>2, RegistryOf
  <2> QED BY <2>3, <2>4, RegistryFrame
<1>9. ~Joined(c)'
  BY <1>1 DEF Joined, PastFence
<1>10. ASSUME NEW d \in Consumers, d # c
       PROVE  /\ (PastFence(d)' <=> PastFence(d)) /\ (Joined(d)' <=> Joined(d))
              /\ Joined(d) => Bound(d)' = Bound(d)
  <2>1. cpc'[d] = cpc[d] /\ slot'[d] = slot[d] /\ floor'[d] = floor[d] /\ published'[d] = published[d]
    BY <1>1, <1>10
  <2>2. Joined(d) => slots'[slot[d]] = slots[slot[d]]
    BY <1>3, <1>10 DEF Joined, PastFence, Holds
  <2> QED BY <1>1, <2>1, <2>2 DEF PastFence, Joined, Bound
<1>11. ASSUME NEW d \in Consumers, Joined(d)'
       PROVE  cached_min <= Bound(d)' /\ dropped_through <= Bound(d)'
  BY <1>9, <1>10, <1>11 DEF GateInv, WatermarkInv
<1>12. GateInv' /\ WatermarkInv'
  BY <1>1, <1>11 DEF GateInv, WatermarkInv, Owning
<1>13. ScanInv'
  <2> SUFFICES ASSUME ppc = "scan" PROVE ScanInv'
    BY <1>1 DEF ScanInv
  <2>1. \A d \in scan'.must_see : PastFence(d)'
    BY <1>4, <1>10, ScanType DEF ScanInv
  <2>2. ASSUME NEW d \in Consumers, Joined(d)'
        PROVE  IF d \in scan'.must_see
               THEN slot'[d] \in scan'.todo
                    \/ (scan'.any_active /\ write_cursor' - scan'.max_lag <= Bound(d)')
               ELSE write_cursor' <= Bound(d)'
    <3>1. d # c /\ Joined(d) /\ Bound(d)' = Bound(d) /\ slot'[d] = slot[d] /\ write_cursor' = write_cursor
      BY <1>1, <1>9, <1>10, <2>2
    <3> QED BY <1>4, <3>1 DEF ScanInv
  <2> QED BY <1>1, <1>4, <2>1, <2>2 DEF ScanInv
<1> QED BY <1>5, <1>6, <1>7, <1>8, <1>12, <1>13

-----------------------------------------------------------------------------
(* The theorems *)

\* RingBuffer::new establishes the invariant.
LEMMA Initially ==
  ASSUME Init
  PROVE  IInv
<1>1. PICK first \in Consumers, s0 \in Slots :
        /\ bitmap = {s0}
        /\ slots = [s \in Slots |-> IF s = s0 THEN 0 ELSE DETACHED]
        /\ cpc = [c \in Consumers |-> IF c = first THEN "live" ELSE "out"]
        /\ slot = [c \in Consumers |-> s0]
  BY DEF Init
<1>2. TypeOK
  BY <1>1 DEF Init, NoScan
<1>3. RegistryInv
  BY <1>1 DEF Init, RegistryInv, OneOwner, CursorIsStored,
              CallerIsKnown, Joining, Holds
<1>4. CacheInv /\ ConsumerInv
  BY <1>1 DEF Init, CacheInv, ConsumerInv
<1>5. GateInv /\ ScanInv /\ WatermarkInv /\ ContentsInv /\ ClosedInv
  BY <1>1 DEF Init, GateInv, ScanInv, WatermarkInv, ContentsInv, ClosedInv, Joined, PastFence, Bound, Owning
<1> QED BY <1>2, <1>3, <1>4, <1>5

\* A step of something else.
LEMMA Stutter ==
  ASSUME IInv, UNCHANGED vars
  PROVE  IInv'
<1>1. TypeOK' /\ CacheInv' /\ ConsumerInv' /\ ClosedInv' /\ ContentsInv'
  BY DEF vars, CacheInv, ConsumerInv, ClosedInv, ContentsInv, Index
<1>2. RegistryInv'
  BY DEF vars, RegistryInv, OneOwner, CursorIsStored, CallerIsKnown,
         Joining, Holds
<1>3. GateInv' /\ ScanInv' /\ WatermarkInv'
  BY DEF vars, GateInv, ScanInv, WatermarkInv, Joined, PastFence, Bound, Owning
<1> QED BY <1>1, <1>2, <1>3

\* Every step preserves the invariant.
LEMMA Inductive ==
  ASSUME IInv, [Next]_vars
  PROVE  IInv'
<1>1. CASE ProducerNext
  BY <1>1, HasSpaceCachedStep, ScanFenceStep, ScanSlotStep, ScanFinishStep, PrepareSlotStep, OwnSlotStep,
     PublishStep, DropProducerStep
  DEF ProducerNext, Scan
<1>2. ASSUME NEW c \in Consumers, JoinNext(c)
      PROVE  IInv'
  BY <1>2, LookForSlotStep, ClaimStep, ClaimFailsStep, SetBitStep, JoinFenceStep, JoinStep DEF JoinNext
<1>3. ASSUME NEW c \in Consumers, ConsumeNext(c)
      PROVE  IInv'
  BY <1>3, has_itemStep, CheckClosedStep, RecheckStep, advance_oneStep, ForgetStep, DrainBeginStep,
     DrainItemStep, DrainEndStep
  DEF ConsumeNext
<1>4. ASSUME NEW c \in Consumers, LeaveNext(c)
      PROVE  IInv'
  BY <1>4, FlushPendingStep, StoreDetachedStep, DeactivateStep DEF LeaveNext
<1>5. CASE TearDown \/ Terminated \/ UNCHANGED vars
  BY <1>5, TearDownStep, Stutter DEF Terminated
<1> QED BY <1>1, <1>2, <1>3, <1>4, <1>5 DEF Next

\* The inductive invariant holds in every behaviour of the ring.
THEOREM Invariance == Spec => []IInv
<1>1. Init => IInv
  BY Initially
<1>2. IInv /\ [Next]_vars => IInv'
  BY Inductive
<1> QED BY <1>1, <1>2, PTL DEF Spec

\* Every variable stays in its domain, whatever the sizes: the differences of
\* cursors that has_space, rescan_gate and prepare_slot take never go below zero.
THEOREM TypeCorrect == Spec => []TypeOK
<1>1. IInv => TypeOK
  OBVIOUS
<1> QED BY <1>1, Invariance, PTL

\* The producer never owns a slot that a joined consumer has not passed
\* (has_space and rescan_gate against subscribe_slot, flush and drop).
THEOREM GateIsSafe == Spec => []GateHolds
<1>1. ASSUME IInv
      PROVE  GateHolds
  <2>1. ASSUME Owning, NEW c \in Consumers, Registered(c)
        PROVE  write_cursor < published[c] + Capacity
    <3>1. cached_min <= published[c]
      BY <1>1, <2>1 DEF GateInv, Registered, Joined, PastFence, Bound
    <3>2. write_cursor < cached_min + Capacity
      BY <1>1, <2>1 DEF GateInv
    <3> QED BY <1>1, <3>1, <3>2
  <2> QED BY <2>1 DEF GateHolds
<1>2. IInv => GateHolds
  BY <1>1
<1> QED BY <1>2, Invariance, PTL

\* An element lent to a consumer by pop_ref, drain or pop's clone is not
\* overwritten or dropped while it is lent.
THEOREM BorrowsAreIntact == Spec => []BorrowedIsIntact
<1>1. ASSUME IInv
      PROVE  BorrowedIsIntact
  <2>1. ASSUME NEW c \in Consumers, Registered(c), NEW q \in Borrowed(c)
        PROVE  buffer[Index(q)] = q
    <3>1. Live(c) /\ Joined(c)
      BY <2>1 DEF Registered, Joined, PastFence
    <3>2. q \in Nat /\ published[c] <= q /\ q < write_cursor
      BY <1>1, <2>1, <3>1 DEF Borrowed, ConsumerInv
    <3>3. dropped_through <= published[c]
      BY <1>1, <3>1 DEF WatermarkInv, Bound
    <3>4. ~torn_down
      BY <1>1, <3>1 DEF ClosedInv
    <3>5. dropped_through <= q
      BY <1>1, <3>2, <3>3
    <3> QED BY <1>1, <3>2, <3>4, <3>5 DEF ContentsInv
  <2> QED BY <2>1 DEF BorrowedIsIntact
<1>2. IInv => BorrowedIsIntact
  BY <1>1
<1> QED BY <1>2, Invariance, PTL

\* A step that clears no bit, and after which every leaver with its bit still to
\* clear was one before, at the same slot.
QuietLeavers ==
  /\ bitmap \subseteq bitmap'
  /\ \A d \in Consumers : cpc'[d] = "detached" => cpc[d] = "detached" /\ slot'[d] = slot[d]

\* Every step but two is quiet, and keeps the slot of a joined consumer: a leaver
\* detaches from the slot that it alone holds, and clears the bit of its slot.
LEMMA LeaverSteps ==
  ASSUME IInv, [Next]_vars
  PROVE  /\ \A c \in Consumers : Live(c) => slot'[c] = slot[c]
         /\ QuietLeavers \/ \E d \in Consumers : StoreDetached(d) \/ Deactivate(d)
<1>1. CASE ProducerNext \/ TearDown \/ Terminated \/ UNCHANGED vars
  <2>1. UNCHANGED <<cpc, slot, bitmap>>
    BY <1>1 DEF ProducerNext, HasSpaceCached, Scan, ScanFence, ScanSlot, ScanFinish, PrepareSlot,
                DropOverwritten, Write, Publish, Abandon, DropProducer, TearDown, Terminated, vars
  <2> QED BY <2>1 DEF QuietLeavers
<1>2. ASSUME NEW d \in Consumers, Claim(d)
      PROVE  QuietLeavers /\ \A c \in Consumers : Live(c) => slot'[c] = slot[c]
  <2>1. /\ cpc[d] = "claim" /\ cpc' = [cpc EXCEPT ![d] = "claimed"] /\ bitmap' = bitmap
        /\ \E s \in free[d] : slot' = [slot EXCEPT ![d] = s]
    BY <1>2 DEF Claim
  <2> QED BY <2>1 DEF QuietLeavers
<1>3. ASSUME NEW d \in Consumers, JoinNext(d), ~Claim(d)
      PROVE  QuietLeavers /\ slot' = slot
  <2>1. /\ bitmap' = bitmap \/ bitmap' = bitmap \union {slot[d]}
        /\ slot' = slot
        /\ cpc' = cpc \/ \E x \in {"claim", "active", "fenced", "live"} : cpc' = [cpc EXCEPT ![d] = x]
    BY <1>3 DEF JoinNext, LookForSlot, ClaimFails, SetBit, JoinFence, Join
  <2> QED BY <2>1 DEF QuietLeavers
<1>4. ASSUME NEW d \in Consumers, ConsumeNext(d) \/ FlushPending(d)
      PROVE  QuietLeavers /\ slot' = slot
  <2>1. /\ bitmap' = bitmap /\ slot' = slot
        /\ \E x \in LiveStates : cpc' = [cpc EXCEPT ![d] = x]
    <3>1. CASE FlushPending(d)
      BY <3>1 DEF FlushPending
    <3>2. CASE DrainItem(d)
      <4>1. cpc' = [cpc EXCEPT ![d] = "draining"]
        BY <3>2 DEF DrainItem
      <4> QED BY <3>2, <4>1 DEF DrainItem
    <3>3. CASE ConsumeNext(d) /\ ~DrainItem(d)
      BY <3>3 DEF ConsumeNext, has_item, CheckClosed, Recheck, advance_one, Forget, DrainBegin, DrainEnd
    <3> QED BY <1>4, <3>1, <3>2, <3>3
  <2> QED BY <2>1 DEF QuietLeavers
<1>5. ASSUME NEW d \in Consumers, StoreDetached(d) \/ Deactivate(d)
      PROVE  slot' = slot
  BY <1>5 DEF StoreDetached, Deactivate
<1> QED BY <1>1, <1>2, <1>3, <1>4, <1>5 DEF Next, LeaveNext

\* A joined consumer loses its registration to nothing but the late clear of a
\* leaver of its slot: where none is pending none will be, and the bit stays set
\* until the consumer leaves (claim_registry_slot, Chunk::deactivate).
THEOREM OnlyALateClearUngates == Spec => RegistrationIsKept
<1>1. ASSUME IInv, [Next]_vars, NEW c \in Consumers, Settled(c), Live(c)'
      PROVE  Settled(c)'
  <2>1. /\ Live(c) /\ Holds(c) /\ slot[c] \in bitmap /\ slot'[c] = slot[c]
        /\ \A d \in Consumers : cpc[d] = "detached" => slot[d] # slot[c]
    BY <1>1, LeaverSteps DEF Settled, Registered, Holds
  <2>2. CASE QuietLeavers
    BY <1>1, <2>1, <2>2 DEF QuietLeavers, Settled, Registered
  <2>3. ASSUME NEW d \in Consumers, StoreDetached(d)
        PROVE  Settled(c)'
    <3>1. /\ cpc[d] = "dropping" /\ cpc' = [cpc EXCEPT ![d] = "detached"]
          /\ bitmap' = bitmap /\ slot' = slot
      BY <2>3 DEF StoreDetached
    <3>2. Holds(d) /\ d # c
      BY <1>1, <3>1 DEF Holds
    <3>3. slot[d] # slot[c]
      BY <1>1, <2>1, <3>2, RegistryOf
    <3> QED BY <1>1, <2>1, <3>1, <3>3 DEF Settled, Registered
  <2>4. ASSUME NEW d \in Consumers, Deactivate(d)
        PROVE  Settled(c)'
    <3>1. /\ cpc[d] = "detached" /\ cpc' = [cpc EXCEPT ![d] = "out"]
          /\ bitmap' = bitmap \ {slot[d]} /\ slot' = slot
      BY <2>4 DEF Deactivate
    <3> QED BY <1>1, <2>1, <3>1 DEF Settled, Registered
  <2> QED BY <1>1, <2>2, <2>3, <2>4, LeaverSteps
<1>2. IInv /\ [Next]_vars => [\A c \in Consumers : Settled(c) /\ Live(c)' => Settled(c)']_vars
  BY <1>1
<1> QED BY <1>2, Invariance, PTL DEF Spec, RegistrationIsKept

\* The scan's selective refresh is sound: the cursor cached for a slot is at or
\* below the cursor of whoever occupies it now (scan_chunk_registry).
THEOREM CachesAreLowerBounds == Spec => []CachedIsLowerBound
<1>1. IInv => CachedIsLowerBound
  BY DEF CachedIsLowerBound, CacheInv
<1> QED BY <1>1, Invariance, PTL

\* Producer::len never under-counts what a joined consumer has yet to read.
THEOREM LenIsUpperBound == Spec => []LenNeverUndercounts
<1>1. ASSUME IInv, NEW c \in Consumers, Registered(c)
      PROVE  cached_min <= read_cursor[c]
  <2>1. cached_min <= published[c] /\ published[c] <= read_cursor[c]
    BY <1>1 DEF GateInv, Registered, Joined, PastFence, Bound, ConsumerInv
  <2> QED BY <1>1, <2>1
<1>2. IInv => LenNeverUndercounts
  BY <1>1 DEF LenNeverUndercounts
<1> QED BY <1>2, Invariance, PTL

\* A consumer told Closed has consumed all there will ever be (check_closed).
THEOREM ClosedMeansDrained == Spec => []ClosedOnlyWhenDrained
<1>1. IInv => ClosedOnlyWhenDrained
  BY DEF ClosedOnlyWhenDrained, ClosedInv
<1> QED BY <1>1, Invariance, PTL

\* A registry slot holds the cursor its one joined owner published last.
THEOREM SlotHoldsItsOwnersCursor == Spec => []CursorIsOwn
<1>1. IInv => CursorIsOwn
  BY DEF CursorIsOwn, ConsumerInv
<1> QED BY <1>1, Invariance, PTL

-----------------------------------------------------------------------------
(* Every element is dropped exactly once.  The argument is the producer's     *)
(* alone and does not need the gate.                                          *)

\* Slot i is that of a sequence from the watermark up to the write cursor.
Kept(i) == \E q \in Nat : dropped_through <= q /\ q < write_cursor /\ i = Index(q)

\* The watermark is at most a ring behind, and has passed the occupant of the
\* slot the producer works on.
DropWatermarkInv ==
  /\ ppc \in {"idle", "scan", "granted", "drop", "claimed", "written", "dropped"}
  /\ torn_down => ppc = "dropped"
  /\ dropped_through <= write_cursor /\ write_cursor <= dropped_through + Capacity
  /\ ppc \in {"claimed", "written"} => write_cursor < dropped_through + Capacity
  /\ ppc = "drop" => write_cursor = dropped_through + Capacity - 1

\* The sequences from the watermark on are in their slots; the only other live
\* element is in the slot the producer works on.
OccupancyInv ==
  /\ ~torn_down => \A q \in Nat : dropped_through <= q /\ q < write_cursor => buffer[Index(q)] = q
  /\ ~torn_down => \A i \in 0 .. mask :
       buffer[i] # Uninit => Kept(i) \/ (ppc \in {"drop", "written"} /\ i = Index(write_cursor))
  /\ ppc = "drop" => buffer[Index(write_cursor)] = write_cursor - Capacity
  /\ ppc = "written" => buffer[Index(write_cursor)] = write_cursor

DropInv == RingTypeOK /\ DropWatermarkInv /\ OccupancyInv


-----------------------------------------------------------------------------

\* The slot of a sequence: a ring later it is the same, sooner it is another.
LEMMA SlotOfSequence ==
  ASSUME SpmcAssumption, NEW a \in Nat
  PROVE  /\ Index(a) \in 0 .. mask
         /\ Index(a + Capacity) = Index(a)
         /\ \A b \in Nat : a < b /\ b < a + Capacity => Index(a) # Index(b)
<1>1. Capacity \in Nat \ {0} /\ a \in Int /\ a + Capacity \in Int
  BY DEF SpmcAssumption
<1>2. a % Capacity \in 0 .. Capacity - 1
  BY <1>1, ModInterval
<1>3. PICK q \in Int : a = Capacity * q + (a % Capacity)
  BY <1>1, ModInterval, Zenon
<1>4. (a + Capacity) % Capacity = a % Capacity
  <2>1. Capacity * (q + 1) = Capacity * q + Capacity /\ Capacity * q \in Int /\ q + 1 \in Int
    BY <1>1
  <2> DEFINE r == a % Capacity
  <2>2. r \in 0 .. Capacity - 1 /\ a = Capacity * q + r
    BY <1>2, <1>3
  <2> HIDE DEF r
  <2>3. a + Capacity = Capacity * (q + 1) + r
    BY <1>1, <2>1, <2>2
  <2>4. (a + Capacity) % Capacity = r
    BY <1>1, <2>1, <2>2, <2>3, ModUnique
  <2> QED BY <2>4 DEF r
<1>5. ASSUME NEW b \in Nat, a < b, b < a + Capacity
      PROVE  a % Capacity # b % Capacity
  <2>1. b - a < Capacity
    BY <1>1, <1>5
  <2> QED BY <1>1, <1>5, <2>1, ModDistinct
<1> QED BY <1>2, <1>4, <1>5 DEF Index, mask

\* A step that leaves the buffer and the watermark alone, and does not move the
\* producer into or out of its slot.
LEMMA QuietDrops ==
  ASSUME DropInv, UNCHANGED <<buffer, write_cursor, dropped_through, torn_down>>, closed' \in BOOLEAN,
         \/ UNCHANGED ppc
         \/ ppc \in {"idle", "scan"} /\ ppc' \in {"idle", "scan", "granted", "dropped"}
  PROVE  DropInv'
<1>1. RingTypeOK'
  BY DEF DropInv, RingTypeOK
<1>2. DropWatermarkInv'
  BY DEF DropInv, DropWatermarkInv
<1>3. OccupancyInv'
  <2>1. \A i \in 0 .. mask : Kept(i)' <=> Kept(i)
    BY DEF Kept
  <2>2. ppc' \in {"drop", "written"} <=> ppc \in {"drop", "written"}
    OBVIOUS
  <2>3. ppc' = "drop" => ppc = "drop"
    OBVIOUS
  <2> QED BY <2>1, <2>2, <2>3 DEF DropInv, OccupancyInv
<1> QED BY <1>1, <1>2, <1>3 DEF DropInv

\* prepare_slot leaves the old occupant outside the watermark, for its drop.
LEMMA PrepareSlotDrops ==
  ASSUME SpmcAssumption, DropInv, PrepareSlot
  PROVE  DropInv'
<1>1. /\ ppc = "granted" /\ ~torn_down /\ UNCHANGED <<buffer, write_cursor, closed, torn_down>>
      /\ write_cursor \in Nat /\ dropped_through \in Nat /\ Capacity \in Nat /\ Capacity >= 2
      /\ dropped_through <= write_cursor /\ write_cursor <= dropped_through + Capacity
  BY DEF PrepareSlot, DropInv, DropWatermarkInv, RingTypeOK, SpmcAssumption
<1>2. CASE write_cursor - dropped_through > mask
  <2>1. write_cursor = dropped_through + Capacity
    BY <1>1, <1>2 DEF mask
  <2>2. ppc' = "drop" /\ dropped_through' = dropped_through + 1
    BY <1>1, <1>2, <2>1 DEF PrepareSlot
  <2>3. Index(write_cursor) = Index(dropped_through) /\ dropped_through < write_cursor
    BY <1>1, <2>1, SlotOfSequence
  <2>4. buffer[Index(write_cursor)] = write_cursor - Capacity
    BY <1>1, <2>1, <2>3 DEF DropInv, OccupancyInv
  <2>5. RingTypeOK' /\ DropWatermarkInv'
    BY <1>1, <2>1, <2>2 DEF DropInv, RingTypeOK, DropWatermarkInv
  <2>6. ASSUME NEW i \in 0 .. mask, buffer[i] # Uninit
        PROVE  Kept(i)' \/ i = Index(write_cursor)
    <3>1. PICK q \in Nat : dropped_through <= q /\ q < write_cursor /\ i = Index(q)
      BY <1>1, <2>6 DEF DropInv, OccupancyInv, Kept
    <3>2. CASE q = dropped_through
      BY <2>3, <3>1, <3>2
    <3>3. CASE dropped_through + 1 <= q
      BY <1>1, <2>2, <3>1, <3>3 DEF Kept, Index
    <3> QED BY <1>1, <3>1, <3>2, <3>3
  <2>7. \A q \in Nat : dropped_through + 1 <= q /\ q < write_cursor => buffer[Index(q)] = q
    BY <1>1 DEF DropInv, OccupancyInv
  <2>8. OccupancyInv'
    BY <1>1, <2>2, <2>4, <2>6, <2>7 DEF OccupancyInv, Index
  <2> QED BY <2>5, <2>8 DEF DropInv
<1>3. CASE ~(write_cursor - dropped_through > mask)
  <2>1. ppc' = "claimed" /\ UNCHANGED dropped_through
    BY <1>3 DEF PrepareSlot
  <2>2. RingTypeOK' /\ DropWatermarkInv'
    BY <1>1, <1>3, <2>1 DEF DropInv, RingTypeOK, DropWatermarkInv, mask
  <2>3. OccupancyInv'
    BY <1>1, <2>1 DEF DropInv, OccupancyInv, Kept, Index
  <2> QED BY <2>2, <2>3 DEF DropInv
<1> QED BY <1>2, <1>3

\* What the producer does to its slot touches no sequence from the watermark on.
LEMMA OwnSlotDrops ==
  ASSUME SpmcAssumption, DropInv, DropOverwritten \/ Write \/ Abandon
  PROVE  DropInv'
<1>1. PICK x \in Nat \union {Uninit} :
        /\ buffer' = [buffer EXCEPT ![Index(write_cursor)] = x]
        /\ ppc' = "written" => x = write_cursor
        /\ ppc' # "written" => x = Uninit
  BY DEF DropOverwritten, Write, Abandon, DropInv, RingTypeOK
<1>2. /\ ppc \in {"drop", "claimed", "written"} /\ ppc' \in {"claimed", "written", "idle"}
      /\ UNCHANGED <<write_cursor, closed, dropped_through, torn_down>> /\ ~torn_down
  BY DEF DropOverwritten, Write, Abandon, DropInv, DropWatermarkInv
<1>3. /\ write_cursor \in Nat /\ dropped_through \in Nat /\ Capacity \in Nat
      /\ dropped_through <= write_cursor /\ write_cursor < dropped_through + Capacity
  BY <1>2 DEF DropInv, DropWatermarkInv, RingTypeOK, SpmcAssumption
<1>4. Index(write_cursor) \in 0 .. mask
  BY <1>3, SlotOfSequence
<1>5. buffer'[Index(write_cursor)] = x /\ \A i \in 0 .. mask : i # Index(write_cursor) => buffer'[i] = buffer[i]
  BY <1>1, <1>4 DEF DropInv, RingTypeOK
<1>6. RingTypeOK' /\ DropWatermarkInv'
  BY <1>1, <1>2, <1>3 DEF DropInv, RingTypeOK, DropWatermarkInv
<1>7. ASSUME NEW q \in Nat, dropped_through <= q, q < write_cursor
      PROVE  buffer'[Index(q)] = q
  <2>1. q < write_cursor /\ write_cursor < q + Capacity
    BY <1>3, <1>7
  <2>2. Index(q) # Index(write_cursor) /\ Index(q) \in 0 .. mask
    BY <1>3, <2>1, SlotOfSequence
  <2> QED BY <1>2, <1>5, <1>7, <2>2 DEF DropInv, OccupancyInv
<1>8. ASSUME NEW i \in 0 .. mask, buffer'[i] # Uninit
      PROVE  Kept(i) \/ (ppc' = "written" /\ i = Index(write_cursor))
  <2>1. CASE i = Index(write_cursor)
    BY <1>1, <1>5, <1>8, <2>1
  <2>2. CASE i # Index(write_cursor)
    BY <1>2, <1>5, <1>8, <2>2 DEF DropInv, OccupancyInv
  <2> QED BY <2>1, <2>2
<1>9. OccupancyInv'
  <2>1. \A i \in 0 .. mask : Kept(i)' <=> Kept(i)
    BY <1>2 DEF Kept
  <2>2. Index(write_cursor)' = Index(write_cursor) /\ ppc' # "drop"
    BY <1>2 DEF Index
  <2>3. \A q \in Nat : dropped_through' <= q /\ q < write_cursor' => buffer'[Index(q)] = q
    BY <1>2, <1>7
  <2>4. ppc' = "written" => buffer'[Index(write_cursor)] = write_cursor
    BY <1>1, <1>5
  <2> QED BY <1>2, <1>8, <2>1, <2>2, <2>3, <2>4 DEF OccupancyInv
<1> QED BY <1>6, <1>9 DEF DropInv

\* publish takes the slot written into the kept ones.
LEMMA PublishDrops ==
  ASSUME SpmcAssumption, DropInv, Publish
  PROVE  DropInv'
<1>1. /\ ppc = "written" /\ ppc' = "idle" /\ write_cursor' = write_cursor + 1
      /\ UNCHANGED <<buffer, closed, dropped_through, torn_down>> /\ ~torn_down
      /\ write_cursor \in Nat /\ dropped_through \in Nat /\ Capacity \in Nat
      /\ dropped_through <= write_cursor /\ write_cursor < dropped_through + Capacity
  BY DEF Publish, DropInv, DropWatermarkInv, RingTypeOK, SpmcAssumption
<1>2. RingTypeOK' /\ DropWatermarkInv'
  BY <1>1 DEF DropInv, RingTypeOK, DropWatermarkInv
<1>3. OccupancyInv'
  <2>1. ASSUME NEW q \in Nat, dropped_through <= q, q < write_cursor + 1
        PROVE  buffer[Index(q)] = q
    <3>1. CASE q = write_cursor
      BY <1>1, <3>1 DEF DropInv, OccupancyInv
    <3>2. CASE q < write_cursor
      BY <1>1, <2>1, <3>2 DEF DropInv, OccupancyInv
    <3> QED BY <1>1, <2>1, <3>1, <3>2
  <2>2. ASSUME NEW i \in 0 .. mask, buffer[i] # Uninit
        PROVE  Kept(i)'
    <3>1. CASE i = Index(write_cursor)
      BY <1>1, <3>1 DEF Kept, Index
    <3>2. CASE Kept(i)
      <4>1. PICK q \in Nat : dropped_through <= q /\ q < write_cursor /\ i = Index(q)
        BY <3>2 DEF Kept
      <4>2. dropped_through' <= q /\ q < write_cursor'
        BY <1>1, <4>1
      <4> QED BY <4>1, <4>2 DEF Kept, Index
    <3>3. Kept(i) \/ i = Index(write_cursor)
      BY <1>1, <2>2 DEF DropInv, OccupancyInv
    <3> QED BY <3>1, <3>2, <3>3
  <2> QED BY <1>1, <2>1, <2>2 DEF OccupancyInv, Index
<1> QED BY <1>2, <1>3 DEF DropInv

\* Shared::drop leaves no live element.
LEMMA TearDownDrops ==
  ASSUME SpmcAssumption, DropInv, TearDown
  PROVE  DropInv'
<1>1. RingTypeOK'
  BY DEF TearDown, DropInv, RingTypeOK
<1>2. DropWatermarkInv'
  <2>1. ppc = "dropped" /\ UNCHANGED <<write_cursor, dropped_through, ppc>>
    BY DEF TearDown, producer
  <2> QED BY <2>1 DEF DropInv, DropWatermarkInv
<1>3. OccupancyInv'
  <2>1. ppc' = "dropped" /\ torn_down'
    BY DEF TearDown, producer
  <2> QED BY <2>1 DEF OccupancyInv
<1> QED BY <1>1, <1>2, <1>3 DEF DropInv

\* Every step preserves the invariant.
LEMMA DropInductive ==
  ASSUME SpmcAssumption, DropInv, [Next]_vars
  PROVE  DropInv'
<1>1. closed \in BOOLEAN
  BY DEF DropInv, RingTypeOK
<1>2. CASE HasSpaceCached \/ Scan \/ DropProducer
  <2>1. /\ UNCHANGED <<buffer, write_cursor, dropped_through, torn_down>> /\ closed' \in BOOLEAN
        /\ \/ UNCHANGED ppc
           \/ ppc \in {"idle", "scan"} /\ ppc' \in {"idle", "scan", "granted", "dropped"}
    BY <1>1, <1>2 DEF HasSpaceCached, Scan, ScanFence, ScanSlot, ScanFinish, DropProducer, ring
  <2> QED BY <2>1, QuietDrops
<1>3. ASSUME NEW c \in Consumers, JoinNext(c) \/ ConsumeNext(c) \/ LeaveNext(c)
      PROVE  DropInv'
  <2>1. UNCHANGED <<ring, ppc>>
    <3>1. CASE JoinNext(c)
      BY <3>1 DEF JoinNext, LookForSlot, Claim, ClaimFails, SetBit, JoinFence, Join, producer
    <3>2. CASE ConsumeNext(c)
      BY <3>2 DEF ConsumeNext, has_item, CheckClosed, Recheck, advance_one, Forget,
                  DrainBegin, DrainItem, DrainEnd, producer
    <3>3. CASE LeaveNext(c)
      BY <3>3 DEF LeaveNext, FlushPending, StoreDetached, Deactivate, producer
    <3> QED BY <1>3, <3>1, <3>2, <3>3
  <2>2. UNCHANGED <<buffer, write_cursor, closed, dropped_through, torn_down, ppc>>
    BY <2>1 DEF ring
  <2> QED BY <1>1, <2>2, QuietDrops
<1>4. CASE Terminated \/ UNCHANGED vars
  <2>1. UNCHANGED <<buffer, write_cursor, closed, dropped_through, torn_down, ppc>>
    BY <1>4 DEF Terminated, vars, ring, producer
  <2> QED BY <1>1, <2>1, QuietDrops
<1>5. CASE PrepareSlot
  BY <1>5, PrepareSlotDrops
<1>6. CASE DropOverwritten \/ Write \/ Abandon
  BY <1>6, OwnSlotDrops
<1>7. CASE Publish
  BY <1>7, PublishDrops
<1>8. CASE TearDown
  BY <1>8, TearDownDrops
<1> QED BY <1>2, <1>3, <1>4, <1>5, <1>6, <1>7, <1>8 DEF Next, ProducerNext

\* Each element is dropped exactly once: prepare_slot moves the watermark past an
\* occupant it will drop, whether or not that drop unwinds, and Shared::drop walks
\* from the watermark over live elements only and misses none.
THEOREM DropsOnce ==
  ASSUME SpmcAssumption
  PROVE  Spec => []DroppedOnce
<1>1. Init => DropInv
  <2> SUFFICES ASSUME Init PROVE DropInv
    OBVIOUS
  <2>1. RingTypeOK
    <3>1. buffer = [i \in 0 .. mask |-> Uninit] /\ write_cursor = 0 /\ dropped_through = 0
          /\ closed = FALSE /\ torn_down = FALSE
      BY DEF Init
    <3> QED BY <3>1 DEF RingTypeOK
  <2>2. DropWatermarkInv
    BY DEF Init, DropWatermarkInv, SpmcAssumption
  <2>3. OccupancyInv
    BY DEF Init, OccupancyInv, mask
  <2> QED BY <2>1, <2>2, <2>3 DEF DropInv
<1>2. DropInv /\ [Next]_vars => DropInv'
  BY DropInductive
<1>3. DropInv => DroppedOnce
  <2> SUFFICES ASSUME DropInv PROVE DroppedOnce
    OBVIOUS
  <2>1. ppc = "drop" => buffer[Index(write_cursor)] = write_cursor - Capacity
    BY DEF DropInv, OccupancyInv
  <2>2. ASSUME ppc \in {"idle", "dropped"}, ~torn_down, NEW i \in 0 .. mask
        PROVE  buffer[i] # Uninit <=> \E q \in dropped_through .. write_cursor - 1 : Index(q) = i
    <3>1. write_cursor \in Nat /\ dropped_through \in Nat
      BY DEF DropInv, RingTypeOK
    <3>2. Kept(i) <=> \E q \in dropped_through .. write_cursor - 1 : Index(q) = i
      BY <3>1 DEF Kept
    <3>3. ASSUME NEW q \in Nat, dropped_through <= q, q < write_cursor, i = Index(q)
          PROVE  buffer[i] # Uninit
      BY <2>2, <3>3 DEF DropInv, OccupancyInv, Uninit
    <3>4. buffer[i] # Uninit <=> Kept(i)
      BY <2>2, <3>3 DEF DropInv, OccupancyInv, Kept
    <3> QED BY <3>2, <3>4
  <2> QED BY <2>1, <2>2 DEF DroppedOnce
<1> QED BY <1>1, <1>2, <1>3, PTL DEF Spec
=============================================================================
