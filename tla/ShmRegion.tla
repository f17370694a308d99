----------------------------- MODULE ShmRegion -----------------------------
(***************************************************************************)
(* How a mapped region comes to hold a ring and who may use it             *)
(* (src/src/shm.rs): a creation writes the header of a ring over whatever  *)
(* the file held, between an odd and an even generation; an attacher       *)
(* validates the header, looks at the generation again, and claims a role  *)
(* by its lease, or takes the role by force, or, as the consumer of a      *)
(* lossy ring, claims nothing.                                             *)
(*                                                                         *)
(* A ring is of one of two kinds: a "pair" has a lease for each side, and  *)
(* a "lossy" ring only the producer's.  A word of the header holds the     *)
(* number of the creation that wrote it.  Memory is StoreLog's, with the   *)
(* creators' stores as its log; with InOrder every access takes effect in  *)
(* program order, as on x86.                                               *)
(***************************************************************************)
EXTENDS Integers, Sequences, FiniteSets

CONSTANTS
  Handles,        \* the calls that create, attach, force or recover, each made once
  MaxCreations,   \* bound on the creations
  InOrder

Kinds == {"pair", "lossy"}
Roles == {"producer", "consumer"}
RolesOf(kind) == IF kind = "pair" THEN Roles ELSE {"producer"}
Free == "free"   \* no token of a handle
ASSUME ShmRegionAssumption == MaxCreations \in Nat /\ InOrder \in BOOLEAN /\ Free \notin Handles

Lengths == 1 .. 2   \* how long a region may be, beyond its header

VARIABLES
  log,            \* the stores to the header, by the creators
  lease,          \* the handle whose token each role's lease holds, or Free
  file,           \* the length of the file, 0 when it cannot hold a header
  zeroed,         \* is the buffer free of what earlier rings left in it?
  handle,         \* what each handle does and knows
  rings           \* the rings whose creation has begun, and the generation each ended at

region_vars == <<log, lease, file, zeroed, handle, rings>>

GenerationWord == <<"generation">>
MagicWord == <<"magic">>
KindWord == <<"kind">>
GeometryWord == <<"capacity, slack, table size">>

\* The creators pass no fence; each handle loads with a view of its own.
Stores == INSTANCE StoreLog WITH fenced <- 0, view <- 0, pending <- 0
Loads(x) == INSTANCE StoreLog WITH
  fenced <- 0, pending <- 0, view <- IF InOrder THEN Len(log) ELSE handle[x].view
Learn(x, t) == IF InOrder THEN 0 ELSE Loads(x)!With(handle[x].view, t)

Store(r) == log' = Append(log, r)
Generation == Stores!Newest(GenerationWord)

Unused == [pc |-> "out", kind |-> "pair", want |-> {}, force |-> FALSE, held |-> {}, lost |-> {},
           view |-> 0, gen |-> 0, ring |-> 0, file_len |-> 0]
To(x, pc) == handle' = [handle EXCEPT ![x].pc = pc]
Refuse(x) == handle' = [handle EXCEPT ![x] = [Unused EXCEPT !.pc = "refused"]]

RegionInit ==
  /\ log = << >> /\ lease = [r \in Roles |-> Free]
  /\ file = 0 /\ zeroed = TRUE
  /\ handle = [x \in Handles |-> Unused]
  /\ rings = << >>

-----------------------------------------------------------------------------
(* A creation: create_region and create_bcast_region *)

Creating == {"invalidate", "clear", "write", "lease", "zero", "publish", "close", "zero_late"}
NobodyCreates == \A x \in Handles : handle[x].pc \notin Creating
Attached(x) == handle[x].pc = "attached"

\* ftruncate.  One process creates at a time, also over a ring still in use.
Truncate(x) ==
  /\ handle[x].pc = "out" /\ NobodyCreates /\ Len(rings) < MaxCreations
  /\ \E kind \in Kinds :
       handle' = [handle EXCEPT ![x].pc = "invalidate", ![x].kind = kind, ![x].ring = Len(rings) + 1]
  /\ file' \in Lengths
  /\ UNCHANGED <<log, lease, zeroed, rings>>

\* g | 1
Odd_plus(g) == g + 1
Odd(g) == IF g % 2 = 1 THEN g ELSE g + 1

\* The odd generation.  From here on the handles of the ring that was are the
\* handles of no ring.
Invalidate(x) ==
  /\ handle[x].pc = "invalidate"
  /\ Store(Stores!Release(GenerationWord, Odd(Generation)))
  /\ rings' = Append(rings, [kind |-> handle[x].kind, len |-> file, gen |-> 0])
  /\ zeroed' = FALSE
  /\ handle' = [y \in Handles |->
       IF y = x THEN [handle[x] EXCEPT !.pc = "clear"]
       ELSE IF Attached(y) THEN [handle[y] EXCEPT !.pc = "stale"] ELSE handle[y]]
  /\ UNCHANGED <<lease, file>>

ClearMagic(x) ==
  /\ handle[x].pc = "clear"
  /\ Store(Stores!Release(MagicWord, 0))
  /\ To(x, "write")
  /\ UNCHANGED <<lease, file, zeroed, rings>>

WriteHeader(x) ==
  /\ handle[x].pc = "write"
  /\ log' = log \o <<Stores!Relaxed(KindWord, handle[x].ring), Stores!Relaxed(GeometryWord, handle[x].ring)>>
  /\ To(x, "lease")
  /\ UNCHANGED <<lease, file, zeroed, rings>>

\* Both lease words are stored, whoever held them; a lossy ring zeroes its
\* counters and buffer before the magic, a pair after it is done.
TakeLeases_zero_late(x) ==
  /\ handle[x].pc = "lease"
  /\ lease' = [r \in Roles |-> IF r \in RolesOf(handle[x].kind) THEN x ELSE Free]
  /\ handle' = [handle EXCEPT ![x].held = RolesOf(handle[x].kind), ![x].pc = "publish"]
  /\ UNCHANGED <<log, file, zeroed, rings>>
TakeLeases(x) ==
  /\ handle[x].pc = "lease"
  /\ lease' = [r \in Roles |-> IF r \in RolesOf(handle[x].kind) THEN x ELSE Free]
  /\ handle' = [handle EXCEPT ![x].held = RolesOf(handle[x].kind),
                              ![x].pc = IF handle[x].kind = "lossy" THEN "zero" ELSE "publish"]
  /\ UNCHANGED <<log, file, zeroed, rings>>

ZeroBuffer(x) ==
  /\ handle[x].pc \in {"zero", "zero_late"}
  /\ zeroed' = TRUE
  /\ To(x, IF handle[x].pc = "zero" THEN "publish" ELSE "attached")
  /\ UNCHANGED <<log, lease, file, rings>>

PublishMagic(x) ==
  /\ handle[x].pc = "publish"
  /\ Store(Stores!Release(MagicWord, 1))
  /\ To(x, "close")
  /\ UNCHANGED <<lease, file, zeroed, rings>>

CloseGeneration(x) ==
  /\ handle[x].pc = "close"
  /\ Store(Stores!Release(GenerationWord, Generation + 1))
  /\ rings' = [rings EXCEPT ![Len(rings)].gen = Generation + 1]
  /\ handle' = [handle EXCEPT ![x].gen = Generation + 1,
                              ![x].pc = IF handle[x].kind = "pair" THEN "zero_late" ELSE "attached"]
  /\ UNCHANGED <<lease, file, zeroed>>

-----------------------------------------------------------------------------
(* An attach: open_region and open_bcast_region *)

\* What a call asks for: attach one role, force one, recover both of a pair, or
\* read a lossy ring.
Calls ==
  {c \in [kind : Kinds, want : SUBSET Roles, force : BOOLEAN] :
     /\ c.want \subseteq RolesOf(c.kind)
     /\ c.want = {} => c.kind = "lossy" /\ ~c.force
     /\ c.want = Roles => c.force}

MeasureFile(x) ==
  /\ handle[x].pc = "out" /\ file # 0
  /\ \E c \in Calls :
       handle' = [handle EXCEPT ![x].pc = "generation", ![x].kind = c.kind, ![x].want = c.want,
                                ![x].force = c.force, ![x].file_len = file]
  /\ UNCHANGED <<log, lease, file, zeroed, rings>>

LoadGeneration(x) ==
  /\ handle[x].pc = "generation"
  /\ \E t \in Loads(x)!Visible(GenerationWord) :
       IF Stores!Value(t) % 2 = 1 THEN Refuse(x)
       ELSE handle' = [handle EXCEPT ![x].pc = "magic", ![x].gen = Stores!Value(t), ![x].view = Learn(x, t)]
  /\ UNCHANGED <<log, lease, file, zeroed, rings>>

LoadMagic(x) ==
  /\ handle[x].pc = "magic"
  /\ \E t \in Loads(x)!Visible(MagicWord) :
       IF Stores!Value(t) = 0 THEN Refuse(x)
       ELSE handle' = [handle EXCEPT ![x].pc = "kind", ![x].view = Learn(x, t)]
  /\ UNCHANGED <<log, lease, file, zeroed, rings>>

\* The fields a handle knows the value of: another kind is refused.
LoadKind(x) ==
  /\ handle[x].pc = "kind"
  /\ \E t \in Loads(x)!Visible(KindWord) :
       LET n == Stores!Value(t)
       IN  IF n = 0 \/ rings[n].kind # handle[x].kind THEN Refuse(x) ELSE To(x, "geometry")
  /\ UNCHANGED <<log, lease, file, zeroed, rings>>

\* The fields it learns, which tell how long the region must be to be mapped.
LoadGeometry(x) ==
  /\ handle[x].pc = "geometry"
  /\ \E t \in Loads(x)!Visible(GeometryWord) :
       LET n == Stores!Value(t)
       IN  IF n = 0 \/ handle[x].file_len < rings[n].len THEN Refuse(x)
           ELSE handle' = [handle EXCEPT ![x].pc = "recheck", ![x].ring = n]
  /\ UNCHANGED <<log, lease, file, zeroed, rings>>

\* The generation again.  A consumer of a lossy ring has attached.
Opened(x) == IF handle[x].want = {} THEN "attached" ELSE "opened"
Recheck_skipped(x) ==
  /\ handle[x].pc = "recheck"
  /\ To(x, Opened(x))
  /\ UNCHANGED <<log, lease, file, zeroed, rings>>
Recheck(x) ==
  /\ handle[x].pc = "recheck"
  /\ \E t \in Loads(x)!Visible(GenerationWord) :
       IF Stores!Value(t) # handle[x].gen THEN Refuse(x)
       ELSE handle' = [handle EXCEPT ![x].pc = Opened(x), ![x].view = Learn(x, t)]
  /\ UNCHANGED <<log, lease, file, zeroed, rings>>

-----------------------------------------------------------------------------
(* The leases *)

\* claim_lease: the free role, and then the generation once more.
ClaimRole(x) ==
  /\ handle[x].pc = "opened" /\ ~handle[x].force
  /\ \E r \in handle[x].want :
       IF lease[r] # Free THEN Refuse(x) /\ UNCHANGED lease
       ELSE /\ lease' = [lease EXCEPT ![r] = x]
            /\ handle' = [handle EXCEPT ![x].pc = "claimed", ![x].held = {r}]
  /\ UNCHANGED <<log, file, zeroed, rings>>

\* The compare-and-swap that gives a lease back.
Released(x, r) == IF lease[r] = x THEN [lease EXCEPT ![r] = Free] ELSE lease

RecheckRole(x) ==
  /\ handle[x].pc = "claimed"
  /\ \E t \in Loads(x)!Visible(GenerationWord), r \in handle[x].held :
       IF Stores!Value(t) = handle[x].gen THEN To(x, "attached") /\ UNCHANGED lease
       ELSE Refuse(x) /\ lease' = Released(x, r)
  /\ UNCHANGED <<log, file, zeroed, rings>>

\* force_claim_lease, once for a forced attach and twice for recover_pair.  The
\* caller answers for it that nobody else is taking the role or the region.
ForceClaim(x) ==
  /\ handle[x].pc = "opened" /\ handle[x].force
  /\ NobodyCreates /\ Generation = handle[x].gen
  /\ \E r \in handle[x].want \ handle[x].held :
       /\ \A y \in Handles : handle[y].pc \in {"opened", "claimed"} => r \notin handle[y].held
       /\ lease' = [lease EXCEPT ![r] = x]
       /\ handle' = [y \in Handles |->
            IF y = x THEN [handle[x] EXCEPT !.held = @ \union {r},
                             !.pc = IF handle[x].held \union {r} = handle[x].want THEN "attached" ELSE "opened"]
            ELSE IF r \in handle[y].held THEN [handle[y] EXCEPT !.lost = @ \union {r}] ELSE handle[y]]
  /\ UNCHANGED <<log, file, zeroed, rings>>

\* The drop of a handle, however late: ShmAnchor and BcastProducerAnchor.
Drop_unguarded(x) ==
  /\ handle[x].pc \in {"attached", "stale"}
  /\ \E r \in handle[x].held :
       /\ lease' = [lease EXCEPT ![r] = Free]
       /\ handle' = [handle EXCEPT ![x].held = @ \ {r}, ![x].lost = @ \ {r}]
  /\ UNCHANGED <<log, file, zeroed, rings>>
Drop(x) ==
  /\ handle[x].pc \in {"attached", "stale"}
  /\ \E r \in handle[x].held :
       /\ lease' = Released(x, r)
       /\ handle' = [handle EXCEPT ![x].held = @ \ {r}, ![x].lost = @ \ {r}]
  /\ UNCHANGED <<log, file, zeroed, rings>>

\* A process that dies leaves what it stored, a half-written header included.
Die(x) ==
  /\ handle[x].pc \in Creating \/ handle[x].held # {}
  /\ handle' = [handle EXCEPT ![x] = [Unused EXCEPT !.pc = "dead"]]
  /\ UNCHANGED <<log, lease, file, zeroed, rings>>

-----------------------------------------------------------------------------

create_region(x) ==
  \/ Truncate(x) \/ Invalidate(x) \/ ClearMagic(x) \/ WriteHeader(x) \/ TakeLeases(x)
  \/ ZeroBuffer(x) \/ PublishMagic(x) \/ CloseGeneration(x)

open_region(x) ==
  \/ MeasureFile(x) \/ LoadGeneration(x) \/ LoadMagic(x) \/ LoadKind(x) \/ LoadGeometry(x) \/ Recheck(x)

RegionNext ==
  \E x \in Handles :
    \/ create_region(x) \/ open_region(x)
    \/ ClaimRole(x) \/ RecheckRole(x) \/ ForceClaim(x) \/ Drop(x) \/ Die(x)

RegionSpec == RegionInit /\ [][RegionNext]_region_vars

-----------------------------------------------------------------------------
(* Properties *)

\* A header that passed validation was all written by the one creation whose
\* generation the handle read, and that creation had ended: "it can never act on
\* a chimera of old and new fields" (create_region).
Validated(x) == handle[x].pc \in {"opened", "claimed", "attached", "stale"}
OpenedIsWhole ==
  \A x \in Handles : Validated(x) =>
    /\ handle[x].ring \in DOMAIN rings
    /\ rings[handle[x].ring].kind = handle[x].kind /\ rings[handle[x].ring].gen = handle[x].gen

\* A handle that attached is one of the ring the region holds.
IsOfTheNewestRing == \A x \in Handles : Attached(x) => handle[x].ring = Len(rings) /\ handle[x].gen = Generation

\* However creations, deaths of creators and attaches overlap, whoever gets in has
\* validated a whole header, and is in the ring the region holds until a creation
\* begins.
AttachedToTheRing == OpenedIsWhole /\ IsOfTheNewestRing

\* Until the role is taken from it, an attached handle's lease holds its token: no
\* late drop and no rolled back claim of another handle frees it.
HoldersKeepTheirLease ==
  \A x \in Handles : Attached(x) => \A r \in handle[x].held \ handle[x].lost : lease[r] = x

\* A lease that is taken is a handle's or a dead one's: a refused attach and a drop
\* leave none behind.
NoLeaseLeaks ==
  \A r \in Roles : lease[r] # Free =>
    handle[lease[r]].pc = "dead" \/ r \in handle[lease[r]].held

\* The lease words and the handles say the same of who has which role, whatever is
\* claimed, rolled back, taken by force, created over, or dropped late.
LeasesMatchHolders == HoldersKeepTheirLease /\ NoLeaseLeaks

\* Whoever is let into a lossy ring finds no slot generation and no record of an
\* earlier ring in its buffer.
LossyIsZeroed == \A x \in Handles : Attached(x) /\ handle[x].kind = "lossy" => zeroed

\* A creation that ran to its end left a region that opens, at a generation of its
\* own, also one that found the half-written header of a dead creator.
FinishedIsOpen ==
  rings # << >> /\ rings[Len(rings)].gen # 0 =>
    /\ Generation = rings[Len(rings)].gen /\ Generation % 2 = 0
    /\ Stores!Newest(MagicWord) = 1
    /\ Stores!Newest(KindWord) = Len(rings) /\ Stores!Newest(GeometryWord) = Len(rings)
    /\ \A n \in 1 .. Len(rings) - 1 : rings[n].gen < Generation

\* Whoever attaches has mapped no page past the end of the file.
AttachedIsBacked ==
  [][\A x \in Handles : Attached(x)' /\ ~Attached(x) => file' >= rings'[handle'[x].ring].len]_region_vars
=============================================================================
