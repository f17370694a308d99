----------------------------- MODULE GateTable -----------------------------
(***************************************************************************)
(* Membership and takeover of the shared-memory gating ring                *)
(* (src/src/shm.rs, with the shm halves of spmc.rs and registry.rs): the   *)
(* producer lease, the consumer table, the generation seqlock, and the     *)
(* constructors that attach, take over and recover while processes die.    *)
(*                                                                         *)
(* Each step is one access to the mapped region, in the order of the       *)
(* program (sequential consistency; SpmcRing models what the fences of the *)
(* join and of the scan allow).  A handle lives once and its identity is   *)
(* its lease token.  The message data is left out: what the table protects *)
(* is which sequence numbers may be overwritten.                           *)
(*                                                                         *)
(* The callers keep the documented contract.  A takeover asserts that the  *)
(* holders it replaces are gone: none of them is inside a call when it     *)
(* starts, and later they can only be dropped or, a consumer, go on        *)
(* reading without protection (`revoked`).                                 *)
(***************************************************************************)
EXTENDS Integers, FiniteSets, TLC

CONSTANTS
  Producers, Consumers,  \* the handles that may exist at some time
  NoToken,               \* the lease word 0
  MaxSlots,              \* max_consumers, the size of the table
  Capacity,              \* cursor units of the buffer
  Attempts,              \* RECOVER_CLAIM_ATTEMPTS, 16 in the code
  MaxSeq,                \* bound on the messages published
  MaxFaults,             \* bound on the handles that die or are forced out
  Initially,             \* how many consumers have joined when the model starts
  Races                  \* the attach/recover races that may happen

DETACHED == -1    \* u64::MAX
Slots == 1 .. MaxSlots

ASSUME GateTableAssumption ==
  /\ NoToken \notin Producers \union Consumers /\ Producers \intersect Consumers = {}
  /\ MaxSlots \in Nat \ {0} /\ Capacity \in Nat /\ Capacity >= 2
  /\ Attempts \in Nat \ {0} /\ MaxSeq \in Nat /\ MaxFaults \in Nat
  /\ Initially \in 0 .. MaxSlots
  /\ Races \subseteq {"claim_across_reset", "open_in_recovery"}


VARIABLES
  \* the region
  generation, producer_lease, closed,
  write_cursor,     \* also the producer's next_seq
  table,            \* slot -> [epoch, state, cursor, lease]
  \* the handles
  tx,               \* producer handle -> [pc, gen]
  cached_min, cached_cursors, scan,   \* of the producer that holds the role
  rx,               \* consumer handle -> [pc, gen, slot, epoch, read, pending]
  recovery,         \* the recover_shm in progress
  \* history
  written,          \* sequence numbers whose slot may have been written to
  revoked,          \* consumers a caller asserted gone
  owed,             \* consumers whose backlog the next recovery must deliver
  interrupted       \* did a recovery fail or die before its resume point was stored?

region  == <<generation, producer_lease, closed, write_cursor, table>>
gate    == <<cached_min, cached_cursors, scan>>
history == <<written, revoked, owed, interrupted>>
vars    == <<region, tx, gate, rx, recovery, history>>

Even(g) == g % 2 = 0
Larger(a, b) == IF a < b THEN b ELSE a
Gated(write, read) == write + 1 - read > Capacity

Recovering == recovery.stage # "none"
Recoverer(h) == Recovering /\ h \in {recovery.p, recovery.c}
NoRecovery == [stage |-> "none", p |-> NoToken, c |-> NoToken, slot |-> 1,
               max_lag |-> 0, resume |-> 0, attempt |-> 0, epoch |-> 0]
Outside == [pc |-> "out", gen |-> 0, slot |-> 1, epoch |-> 0, read |-> 0, pending |-> FALSE]
NoScan == [slot |-> 1, any_active |-> FALSE, max_lag |-> 0]

\* A snapshot of the generation ends with the last check against it.
Checked(pc) == pc \in {"reopen", "release", "live", "gone", "dead"}
txTo(p, pc) == tx' = [tx EXCEPT ![p] = [pc |-> pc, gen |-> IF Checked(pc) THEN 0 ELSE @.gen]]
rxTo(c, pc) == rx' = [rx EXCEPT ![c].pc = pc, ![c].gen = IF Checked(pc) THEN 0 ELSE @,
                                ![c].read = IF pc = "gone" THEN 0 ELSE @]
\* A handle that acts as the producer.
Operating(p) == tx[p].pc \in {"reopen", "reset", "seed", "first_scan", "live", "scan", "granted"}
\* The gate is private memory and goes with the handle that acts as the producer.
NoGate ==
  cached_min' = 0 /\ cached_cursors' = [s \in Slots |-> 0] /\ scan' = NoScan
LoseGate(p) == IF Operating(p) THEN NoGate ELSE UNCHANGED gate
Goto(stage) == recovery' = [recovery EXCEPT !.stage = stage]

\* After create_shm: the producer, and in the first slot a consumer that has not
\* left if Initially > 0; more have attached if Initially > 1.
Init ==
  /\ generation = 2 /\ closed = FALSE /\ write_cursor = 0
  /\ \E p \in Producers, holder \in [1 .. Initially -> Consumers] :
       /\ \A s, t \in 1 .. Initially : holder[s] = holder[t] => s = t
       /\ producer_lease = p
       /\ tx = [q \in Producers |-> [pc |-> IF q = p THEN "live" ELSE "out", gen |-> 0]]
       /\ rx = [c \in Consumers |->
                  IF \E s \in 1 .. Initially : holder[s] = c
                  THEN [Outside EXCEPT !.pc = "live", !.epoch = 1,
                          !.slot = CHOOSE s \in 1 .. Initially : holder[s] = c]
                  ELSE Outside]
       /\ table = [s \in Slots |-> IF s \in 1 .. Initially
                     THEN [epoch |-> 1, state |-> "ACTIVE", cursor |-> 0, lease |-> holder[s]]
                     ELSE [epoch |-> IF s = 1 THEN 1 ELSE 0, state |-> "FREE", cursor |-> DETACHED, lease |-> NoToken]]
  /\ cached_min = 0 /\ scan = NoScan
  /\ cached_cursors = [s \in Slots |-> IF s = 1 THEN 0 ELSE 0 - Capacity]
  /\ recovery = NoRecovery
  /\ written = 0 /\ revoked = {} /\ owed = {} /\ interrupted = FALSE

MayFail ==
  Cardinality({p \in Producers : tx[p].pc = "dead"})
    + Cardinality({c \in Consumers : rx[c].pc = "dead" \/ c \in revoked}) < MaxFaults

-----------------------------------------------------------------------------
(* The producer role *)

\* open_spmc_region, which refuses an odd generation.
OpenProducer(p) ==
  /\ tx[p].pc = "out" /\ Even(generation)
  /\ \E pc \in {"claim", "take"} : tx' = [tx EXCEPT ![p] = [pc |-> pc, gen |-> generation]]
  /\ UNCHANGED <<region, gate, rx, recovery, history>>

\* Mutant: the lease is taken whoever holds it.
ClaimLease_swap(p) ==
  /\ tx[p].pc = "claim"
  /\ producer_lease' = p /\ txTo(p, "recheck")
  /\ UNCHANGED <<generation, closed, write_cursor, table, gate, rx, recovery, history>>
\* claim_lease: the CAS from 0.
ClaimLease(p) ==
  /\ tx[p].pc = "claim"
  /\ IF producer_lease = NoToken
     THEN producer_lease' = p /\ txTo(p, "recheck")
     ELSE UNCHANGED producer_lease /\ txTo(p, "gone")
  /\ UNCHANGED <<generation, closed, write_cursor, table, gate, rx, recovery, history>>

RecheckLease(p) ==
  /\ tx[p].pc = "recheck"
  /\ txTo(p, IF generation = tx[p].gen THEN "reopen" ELSE "release")
  /\ UNCHANGED <<region, gate, rx, recovery, history>>

\* force_claim_lease.  The holders it replaces are gone (the caller's contract).
Settled == {"out", "claim", "take", "live", "stale", "gone", "dead"}
TakeLease(p) ==
  /\ tx[p].pc = "take"
  /\ \A q \in Producers \ {p} : tx[q].pc \in Settled
  /\ producer_lease' = p
  /\ tx' = [q \in Producers |-> IF q = p THEN [tx[q] EXCEPT !.pc = "reopen"]
                                ELSE IF tx[q].pc = "live" THEN [tx[q] EXCEPT !.pc = "stale"]
                                ELSE tx[q]]
  /\ NoGate
  /\ UNCHANGED <<generation, closed, write_cursor, table, rx, recovery, history>>

\* The holder reopens the ring; recover_shm goes on to reset the table.
Reopen(p) ==
  /\ tx[p].pc = "reopen"
  /\ closed' = FALSE
  /\ txTo(p, IF Recoverer(p) THEN "reset" ELSE "seed")
  /\ UNCHANGED <<generation, producer_lease, write_cursor, table, gate, rx, recovery, history>>

\* Producer::from_shm: seeds that always gate, then one scan.
Seed(p) ==
  /\ tx[p].pc = "seed"
  /\ cached_min' = write_cursor - Capacity
  /\ cached_cursors' = [s \in Slots |-> write_cursor - Capacity]
  /\ scan' = NoScan /\ txTo(p, "first_scan")
  /\ UNCHANGED <<region, rx, recovery, history>>

Scanning(p) == tx[p].pc \in {"first_scan", "scan"}

\* A push, try_push or claim: the cached gate decides, and a granted slot may be
\* written to from here on.
HasSpace(p) ==
  /\ tx[p].pc = "live" /\ write_cursor < MaxSeq
  /\ IF Gated(write_cursor, cached_min)
     THEN txTo(p, "scan") /\ UNCHANGED written
     ELSE txTo(p, "granted") /\ written' = write_cursor + 1
  /\ UNCHANGED <<region, gate, rx, recovery, revoked, owed, interrupted>>

Skip == scan' = [scan EXCEPT !.slot = @ + 1]
Saw(cursor) == scan' = [slot |-> scan.slot + 1, any_active |-> TRUE,
                        max_lag |-> Larger(scan.max_lag, write_cursor - cursor)]
\* scan_shm_table's visit of a slot: its control word, then its cursor unless
\* the cached one does not gate.  A slot whose joiner has stored no cursor yet
\* is skipped.  (As one step: a slot that turns FREE between the two loads
\* reads DETACHED, and one retired between them only gates once more.)
ScanSlot(p) ==
  /\ Scanning(p) /\ scan.slot \in Slots
  /\ LET cursor == table[scan.slot].cursor
         gates == Gated(write_cursor, cached_cursors[scan.slot])
     IN  IF table[scan.slot].state # "ACTIVE" \/ (gates /\ cursor = DETACHED)
         THEN Skip /\ UNCHANGED cached_cursors
         ELSE IF gates
         THEN Saw(cursor) /\ cached_cursors' = [cached_cursors EXCEPT ![scan.slot] = cursor]
         ELSE Saw(cached_cursors[scan.slot]) /\ UNCHANGED cached_cursors
  /\ UNCHANGED <<region, tx, cached_min, rx, recovery, history>>

NewMin == write_cursor - (IF scan.any_active THEN scan.max_lag ELSE 1)
ScanFinish(p) ==
  /\ Scanning(p) /\ scan.slot \notin Slots
  /\ cached_min' = NewMin /\ scan' = NoScan
  /\ LET has_space == tx[p].pc = "scan" /\ ~Gated(write_cursor, NewMin)
     IN  /\ txTo(p, IF has_space THEN "granted" ELSE "live")
         /\ written' = IF has_space THEN write_cursor + 1 ELSE written
  /\ IF Recoverer(p)
     THEN rxTo(recovery.c, "live") /\ recovery' = NoRecovery
     ELSE UNCHANGED <<rx, recovery>>
  /\ UNCHANGED <<region, cached_cursors, revoked, owed, interrupted>>

Publish(p) ==
  /\ tx[p].pc = "granted"
  /\ write_cursor' = write_cursor + 1 /\ txTo(p, "live")
  /\ UNCHANGED <<generation, producer_lease, closed, table, gate, rx, recovery, history>>

\* Drop: only the holder of the lease closes the ring.
DropProducer(p) ==
  /\ tx[p].pc \in {"live", "stale"}
  /\ closed' = (closed \/ producer_lease = p) /\ txTo(p, "release")
  /\ LoseGate(p)
  /\ UNCHANGED <<generation, producer_lease, write_cursor, table, rx, recovery, history>>

\* The guarded release of the lease, of a drop or of a failed attach.
ReleaseLease(p) ==
  /\ tx[p].pc = "release"
  /\ producer_lease' = IF producer_lease = p THEN NoToken ELSE producer_lease
  /\ txTo(p, "gone")
  /\ UNCHANGED <<generation, closed, write_cursor, table, gate, rx, recovery, history>>

CrashProducer(p) ==
  /\ tx[p].pc \notin {"out", "gone", "dead"} /\ ~Recoverer(p) /\ MayFail
  /\ txTo(p, "dead") /\ LoseGate(p)
  /\ UNCHANGED <<region, rx, recovery, history>>

-----------------------------------------------------------------------------
(* A consumer joins: attach_shm_consumer, or subscribe on a live handle *)

\* The seqlock snapshot (shm_subscribe refuses an odd one, as an open does) and
\* the closed check.  The ring may be closed, or reset, right after.
OpenConsumer(c) ==
  /\ rx[c].pc = "out" /\ ~Recoverer(c) /\ Even(generation)
  /\ "open_in_recovery" \in Races \/ ~Recovering
  /\ IF closed THEN rxTo(c, "gone")
     ELSE rx' = [rx EXCEPT ![c].pc = "claim", ![c].gen = generation]
  /\ UNCHANGED <<region, tx, gate, recovery, history>>

\* Mutant: the epoch is not bumped.
ClaimSlot_same_epoch(c) ==
  /\ rx[c].pc = "claim"
  /\ "claim_across_reset" \in Races \/ Even(generation)
  /\ LET s == rx[c].slot
     IN  IF table[s].state = "FREE"
         THEN /\ table' = [table EXCEPT ![s].state = "ACTIVE"]
              /\ rx' = [rx EXCEPT ![c].pc = "claimed", ![c].epoch = table[s].epoch]
         ELSE /\ rx' = IF s < MaxSlots THEN [rx EXCEPT ![c].slot = s + 1]
                       ELSE [rx EXCEPT ![c].pc = IF Recoverer(c) THEN "full" ELSE "gone"]
              /\ UNCHANGED table
  /\ UNCHANGED <<generation, producer_lease, closed, write_cursor, tx, gate, recovery, history>>
\* claim_table_slot: the CAS FREE@e -> ACTIVE@e+1, or the next slot.
ClaimSlot(c) ==
  /\ rx[c].pc = "claim"
  /\ "claim_across_reset" \in Races \/ Even(generation)
  /\ LET s == rx[c].slot
     IN  IF table[s].state = "FREE"
         THEN /\ table' = [table EXCEPT ![s].state = "ACTIVE", ![s].epoch = @ + 1]
              /\ rx' = [rx EXCEPT ![c].pc = "claimed", ![c].epoch = table[s].epoch + 1]
         ELSE /\ rx' = IF s < MaxSlots THEN [rx EXCEPT ![c].slot = s + 1]
                       ELSE [rx EXCEPT ![c].pc = IF Recoverer(c) THEN "full" ELSE "gone"]
              /\ UNCHANGED table
  /\ UNCHANGED <<generation, producer_lease, closed, write_cursor, tx, gate, recovery, history>>

\* The provisional cursor: any earlier write cursor would only gate more.
StoreProvisional(c) ==
  /\ rx[c].pc = "claimed"
  /\ table' = [table EXCEPT ![rx[c].slot].cursor = write_cursor]
  /\ rxTo(c, "fenced")
  /\ UNCHANGED <<generation, producer_lease, closed, write_cursor, tx, gate, recovery, history>>

\* The join point: the write cursor read again after the fence.
LoadJoin(c) ==
  /\ rx[c].pc = "fenced"
  /\ rx' = [rx EXCEPT ![c].read = write_cursor, ![c].pc = "joined"]
  /\ UNCHANGED <<region, tx, gate, recovery, history>>

StoreJoin(c) ==
  /\ rx[c].pc = "joined"
  /\ table' = [table EXCEPT ![rx[c].slot].cursor = rx[c].read]
  /\ rxTo(c, "lease")
  /\ UNCHANGED <<generation, producer_lease, closed, write_cursor, tx, gate, recovery, history>>

StoreLease(c) ==
  /\ rx[c].pc = "lease"
  /\ table' = [table EXCEPT ![rx[c].slot].lease = c]
  /\ rxTo(c, IF Recoverer(c) THEN "resume" ELSE "recheck")
  /\ UNCHANGED <<generation, producer_lease, closed, write_cursor, tx, gate, recovery, history>>

\* Mutant: no re-check.
RecheckClaim_missing(c) ==
  /\ rx[c].pc = "recheck"
  /\ rxTo(c, "live")
  /\ UNCHANGED <<region, tx, gate, recovery, history>>
\* The seqlock re-check that ends an attach.
RecheckClaim(c) ==
  /\ rx[c].pc = "recheck"
  /\ rxTo(c, IF generation = rx[c].gen THEN "live" ELSE "rollback")
  /\ UNCHANGED <<region, tx, gate, recovery, history>>

\* release_table_claim: nothing is touched under a new generation.
release_table_claim(c) ==
  /\ rx[c].pc = "rollback"
  /\ rxTo(c, IF generation = rx[c].gen THEN "sentinel" ELSE "gone")
  /\ UNCHANGED <<region, tx, gate, recovery, history>>

-----------------------------------------------------------------------------
(* A consumer consumes and leaves *)

\* A consumer whose slot was taken away is not used during a recovery.
Runs(c) == rx[c].pc = "live" /\ (c \in revoked => ~Recovering)
owns_slot(c) == table[rx[c].slot].lease = c

\* flush: nothing is stored once the lease names another holder.  Only a
\* reset changes the lease of a live handle, and none is inside a call then.
flush(c, read) ==
  /\ table' = IF owns_slot(c) THEN [table EXCEPT ![rx[c].slot].cursor = read] ELSE table
  /\ rx' = [rx EXCEPT ![c].read = read, ![c].pending = FALSE]

\* advance_one; when it publishes is modelled in SpmcRing.
advance_one(c) ==
  /\ Runs(c) /\ c \notin revoked /\ rx[c].read < write_cursor
  /\ \/ flush(c, rx[c].read + 1)
     \/ rx' = [rx EXCEPT ![c].read = @ + 1, ![c].pending = TRUE] /\ UNCHANGED table
  /\ UNCHANGED <<generation, producer_lease, closed, write_cursor, tx, gate, recovery, history>>

flush_pending(c) ==
  /\ Runs(c) /\ rx[c].pending
  /\ flush(c, rx[c].read)
  /\ UNCHANGED <<generation, producer_lease, closed, write_cursor, tx, gate, recovery, history>>

\* Drop: nothing, for a handle that lost its lease; else the flush first.
DropConsumer(c) ==
  /\ Runs(c)
  /\ table' = IF rx[c].pending /\ owns_slot(c)
              THEN [table EXCEPT ![rx[c].slot].cursor = rx[c].read] ELSE table
  /\ rx' = [rx EXCEPT ![c].pending = FALSE, ![c].pc = IF owns_slot(c) THEN "sentinel" ELSE "gone"]
  /\ UNCHANGED <<generation, producer_lease, closed, write_cursor, tx, gate, recovery, history>>

StoreSentinel(c) ==
  /\ rx[c].pc = "sentinel"
  /\ table' = [table EXCEPT ![rx[c].slot].cursor = DETACHED]
  /\ rxTo(c, "control")
  /\ UNCHANGED <<generation, producer_lease, closed, write_cursor, tx, gate, recovery, history>>

\* detach: the CAS ACTIVE@e -> FREE@e, which fails on a retired slot.
Occupies(c) == table[rx[c].slot].state = "ACTIVE" /\ table[rx[c].slot].epoch = rx[c].epoch
FreeSlot(c) ==
  /\ rx[c].pc = "control"
  /\ table' = IF Occupies(c) THEN [table EXCEPT ![rx[c].slot].state = "FREE"] ELSE table
  /\ rxTo(c, "unlease")
  /\ UNCHANGED <<generation, producer_lease, closed, write_cursor, tx, gate, recovery, history>>

ReleaseSlotLease(c) ==
  /\ rx[c].pc = "unlease"
  /\ table' = IF owns_slot(c) THEN [table EXCEPT ![rx[c].slot].lease = NoToken] ELSE table
  /\ rxTo(c, "gone")
  /\ UNCHANGED <<generation, producer_lease, closed, write_cursor, tx, gate, recovery, history>>

CrashConsumer(c) ==
  /\ rx[c].pc \notin {"out", "gone", "dead"} /\ ~Recoverer(c) /\ MayFail
  /\ owed' = IF rx[c].pc = "live" /\ c \notin revoked THEN owed \union {c} ELSE owed
  /\ rx' = [rx EXCEPT ![c].pc = "dead", ![c].pending = FALSE, ![c].gen = 0,
                      ![c].read = IF c \in owed' THEN @ ELSE 0]
  /\ UNCHANGED <<region, tx, gate, recovery, written, revoked, interrupted>>

\* force_detach_consumer with the pair the handle once reported; the holder
\* is asserted dead, and may be wrong.
ForceDetach(c) ==
  /\ rx[c].pc \in {"live", "dead", "gone"} /\ Occupies(c)
  /\ rx[c].pc = "dead" \/ MayFail
  /\ table' = [table EXCEPT ![rx[c].slot].state = "RETIRED", ![rx[c].slot].epoch = @ + 1]
  /\ revoked' = revoked \union {c} /\ owed' = owed \ {c}
  /\ UNCHANGED <<generation, producer_lease, closed, write_cursor, tx, gate, rx, recovery,
                 written, interrupted>>

-----------------------------------------------------------------------------
(* recover_shm *)

BeginRecovery(p, c) ==
  /\ ~Recovering /\ Even(generation)
  /\ tx[p].pc = "out" /\ rx[c].pc = "out"
  /\ txTo(p, "take")
  /\ recovery' = [NoRecovery EXCEPT !.stage = "take", !.p = p, !.c = c]
  /\ UNCHANGED <<region, gate, rx, history>>

Resetting(stage) == recovery.stage = stage
Reset(stage) == [recovery EXCEPT !.stage = stage, !.slot = 1, !.max_lag = 0]

\* The holders are gone: no consumer is inside a call, but for an attach that
\* has not claimed a slot yet, or that has stored all it stores.
Mid_claim == {"claimed", "fenced", "joined", "lease"}
HoldersGone(c) ==
  rx[c].pc \in {"out", "claim", "recheck", "rollback", "live", "gone", "dead"}
            \union IF "claim_across_reset" \in Races THEN Mid_claim ELSE {}

\* reset_gate_table: the generation turns odd before the table is touched.
OpenReset ==
  /\ Resetting("take") /\ tx[recovery.p].pc = "reset"
  /\ \A c \in Consumers : HoldersGone(c)
  /\ generation' = generation + 1
  /\ recovery' = Reset("look")
  /\ revoked' = revoked \union {c \in Consumers : rx[c].pc = "live"}
  /\ owed' = owed \union {c \in Consumers \ revoked : rx[c].pc = "live"}
  /\ UNCHANGED <<producer_lease, closed, write_cursor, table, tx, gate, rx, written, interrupted>>

\* The next slot, or the next pass when this was the last one.
NextSlot(pass, next) ==
  IF recovery.slot < MaxSlots THEN [recovery EXCEPT !.stage = pass, !.slot = @ + 1]
  ELSE [recovery EXCEPT !.stage = next, !.slot = 1]

\* The first pass: the slowest cursor of a slot that is not FREE.
ResetLook ==
  /\ Resetting("look")
  /\ recovery' = IF table[recovery.slot].state = "FREE" THEN NextSlot("look", "sentinel")
                 ELSE [recovery EXCEPT !.stage = "cursor"]
  /\ UNCHANGED <<region, tx, gate, rx, history>>

Lag(cursor) ==
  IF cursor = DETACHED \/ write_cursor - cursor > Capacity THEN recovery.max_lag
  ELSE Larger(recovery.max_lag, write_cursor - cursor)
ResetCursor ==
  /\ Resetting("cursor")
  /\ recovery' = [NextSlot("look", "sentinel") EXCEPT !.max_lag = Lag(table[recovery.slot].cursor)]
  /\ UNCHANGED <<region, tx, gate, rx, history>>

\* The second pass: sentinel, lease, then availability at a bumped epoch.
ResetSentinel ==
  /\ Resetting("sentinel")
  /\ table' = [table EXCEPT ![recovery.slot].cursor = DETACHED]
  /\ Goto("lease")
  /\ UNCHANGED <<generation, producer_lease, closed, write_cursor, tx, gate, rx, history>>
ResetLease ==
  /\ Resetting("lease")
  /\ table' = [table EXCEPT ![recovery.slot].lease = NoToken]
  /\ Goto("control")
  /\ UNCHANGED <<generation, producer_lease, closed, write_cursor, tx, gate, rx, history>>
ResetLoadControl ==
  /\ Resetting("control")
  /\ recovery' = [recovery EXCEPT !.stage = "free", !.epoch = table[recovery.slot].epoch]
  /\ UNCHANGED <<region, tx, gate, rx, history>>
ResetFree ==
  /\ Resetting("free")
  /\ table' = [table EXCEPT ![recovery.slot].state = "FREE",
                            ![recovery.slot].epoch = recovery.epoch + 1]
  /\ recovery' = [NextSlot("sentinel", "close") EXCEPT !.epoch = 0]
  /\ UNCHANGED <<generation, producer_lease, closed, write_cursor, tx, gate, rx, history>>

\* Mutant: every reset computes the resume point anew.
Resume_of_last == write_cursor - recovery.max_lag
\* The generation turns even.  Only the first reset's cursor is the resume
\* point; after the last attempt the recovery gives up and drops its lease.
Resume == IF recovery.attempt = 0 THEN write_cursor - recovery.max_lag ELSE recovery.resume
CloseReset ==
  /\ Resetting("close")
  /\ generation' = generation + 1
  /\ IF recovery.attempt = Attempts
     THEN /\ txTo(recovery.p, "release") /\ rxTo(recovery.c, "gone")
          /\ recovery' = NoRecovery /\ interrupted' = TRUE
     ELSE /\ rx' = [rx EXCEPT ![recovery.c].pc = "claim", ![recovery.c].slot = 1]
          /\ recovery' = [recovery EXCEPT !.stage = "join", !.resume = Resume, !.max_lag = 0]
          /\ UNCHANGED <<tx, interrupted>>
  /\ UNCHANGED <<producer_lease, closed, write_cursor, table, gate, written, revoked, owed>>

\* No slot was free: reset the table again and retry.
RetryReset ==
  /\ Resetting("join") /\ rx[recovery.c].pc = "full"
  /\ \A c \in Consumers \ {recovery.c} : HoldersGone(c)
  /\ generation' = generation + 1
  /\ recovery' = [Reset("look") EXCEPT !.attempt = @ + 1]
  /\ UNCHANGED <<producer_lease, closed, write_cursor, table, tx, gate, rx, history>>

\* Mutant: the resume point is not stored in the slot.
StoreResume_private ==
  /\ Resetting("join") /\ rx[recovery.c].pc = "resume"
  /\ rx' = [rx EXCEPT ![recovery.c].pc = "resumed", ![recovery.c].read = recovery.resume]
  /\ txTo(recovery.p, "seed")
  /\ owed' = {}
  /\ UNCHANGED <<region, gate, recovery, written, revoked, interrupted>>
\* recover_shm_with moves its slot back to the resume point.
StoreResume ==
  /\ Resetting("join") /\ rx[recovery.c].pc = "resume"
  /\ table' = [table EXCEPT ![rx[recovery.c].slot].cursor = recovery.resume]
  /\ rx' = [rx EXCEPT ![recovery.c].pc = "resumed", ![recovery.c].read = recovery.resume]
  /\ txTo(recovery.p, "seed")
  /\ owed' = {}
  /\ UNCHANGED <<generation, producer_lease, closed, write_cursor, gate, recovery,
                 written, revoked, interrupted>>

CrashRecoverer ==
  /\ Recovering
  /\ LET resumed == rx[recovery.c].pc = "resumed"
     IN  /\ owed' = IF resumed THEN owed \union {recovery.c} ELSE owed
         /\ interrupted' = (interrupted \/ ~resumed)
  /\ txTo(recovery.p, "dead") /\ rxTo(recovery.c, "dead") /\ LoseGate(recovery.p)
  /\ recovery' = NoRecovery
  /\ UNCHANGED <<region, written, revoked>>

-----------------------------------------------------------------------------
ProducerStep(p) ==
  \/ OpenProducer(p) \/ ClaimLease(p) \/ RecheckLease(p) \/ TakeLease(p) \/ Reopen(p) \/ Seed(p)
  \/ HasSpace(p) \/ ScanSlot(p) \/ ScanFinish(p)
  \/ Publish(p)
  \/ DropProducer(p) \/ ReleaseLease(p) \/ CrashProducer(p)

ConsumerStep(c) ==
  \/ OpenConsumer(c) \/ ClaimSlot(c) \/ StoreProvisional(c) \/ LoadJoin(c)
  \/ StoreJoin(c) \/ StoreLease(c) \/ RecheckClaim(c) \/ release_table_claim(c)
  \/ advance_one(c) \/ flush_pending(c)
  \/ DropConsumer(c) \/ StoreSentinel(c) \/ FreeSlot(c) \/ ReleaseSlotLease(c)
  \/ CrashConsumer(c) \/ ForceDetach(c)

RecoveryStep ==
  \/ \E p \in Producers, c \in Consumers : BeginRecovery(p, c)
  \/ OpenReset \/ ResetLook \/ ResetCursor \/ ResetSentinel \/ ResetLease
  \/ ResetLoadControl \/ ResetFree \/ CloseReset \/ RetryReset \/ StoreResume \/ CrashRecoverer

Next ==
  \/ \E p \in Producers : ProducerStep(p)
  \/ \E c \in Consumers : ConsumerStep(c)
  \/ RecoveryStep

Spec == Init /\ [][Next]_vars

-----------------------------------------------------------------------------
TxPcs == {"out", "claim", "take", "recheck", "reopen", "reset", "seed", "first_scan",
          "live", "scan", "granted", "release", "stale", "gone", "dead"}
RxPcs == {"out", "claim", "full", "claimed", "fenced", "joined", "lease", "recheck", "rollback",
          "resume", "resumed", "live", "sentinel", "control", "unlease", "gone", "dead"}
TxType == [pc : TxPcs, gen : Nat]
RxType == [pc : RxPcs, gen : Nat, slot : Slots, epoch : Nat, read : Nat, pending : BOOLEAN]
SlotType == [epoch : Nat, state : {"FREE", "ACTIVE", "RETIRED"},
             cursor : Nat \union {DETACHED}, lease : Consumers \union {NoToken}]
ScanType == [slot : 1 .. MaxSlots + 1, any_active : BOOLEAN, max_lag : Nat]
Stages == {"none", "take", "look", "cursor", "sentinel", "lease", "control", "free", "close", "join"}
RecoveryType == [stage : Stages, p : Producers \union {NoToken}, c : Consumers \union {NoToken},
                 slot : Slots, max_lag : Nat, resume : Nat, attempt : 0 .. Attempts, epoch : Nat]
TypeOK ==
  /\ generation \in Nat /\ write_cursor \in Nat /\ written \in Nat
  /\ producer_lease \in Producers \union {NoToken} /\ closed \in BOOLEAN
  /\ table \in [Slots -> SlotType]
  /\ tx \in [Producers -> TxType] /\ rx \in [Consumers -> RxType]
  /\ cached_min \in Int /\ cached_cursors \in [Slots -> Int] /\ scan \in ScanType
  /\ recovery \in RecoveryType
  /\ revoked \subseteq Consumers /\ owed \subseteq Consumers /\ interrupted \in BOOLEAN

\* The consumers that may read: joined, not leaving, not asserted gone.
Protected(c) == rx[c].pc \in {"live", "resumed"} /\ c \notin revoked
Frontier == write_cursor + IF \E p \in Producers : tx[p].pc = "granted"
                           THEN 1 ELSE 0

\* A consumer keeps the slot it joined with: the control word is at the epoch
\* of its claim, the lease is its token (or its flushes would be suppressed
\* for ever), and the cursor is at or before what it has read.  Attaches,
\* late drops, forced detaches and recoveries of other handles never clobber it.
HolderKeepsItsSlot ==
  \A c \in Consumers : Protected(c) =>
    /\ Occupies(c) /\ owns_slot(c)
    /\ table[rx[c].slot].cursor # DETACHED /\ table[rx[c].slot].cursor <= rx[c].read

\* The producer, whichever handle it is and however it came by the role, never
\* overwrites an element that a consumer it must honour has yet to read.
GateHolds == \A c \in Consumers : Protected(c) => Frontier - rx[c].read <= Capacity

\* At most one handle acts as the producer; it holds the lease, and while it is
\* past its attach the ring is open: late drops of handles that were taken
\* over neither free its lease nor close the ring under it.
ProducerIsAlone ==
  \A p \in Producers : Operating(p) =>
    /\ producer_lease = p
    /\ \A q \in Producers : Operating(q) => q = p
    /\ tx[p].pc = "reopen" \/ ~closed

\* The epoch identifies one occupancy of a slot: two handles that claimed the
\* same slot did so at different epochs, so the pair that a dead consumer
\* reported never retires a successor.
EpochIdentifiesOccupancy ==
  \A c, d \in Consumers :
    (c # d /\ rx[c].epoch # 0 /\ rx[d].epoch # 0 /\ rx[c].slot = rx[d].slot)
      => rx[c].epoch # rx[d].epoch

\* The consumer that recover_shm returns resumes at or before the first
\* element that any consumer which died registered has not read; a recovery
\* after one that failed or died half way is excepted.
RecoveryIsAtLeastOnce ==
  [][\A c, d \in Consumers :
       (rx[c].pc = "resume" /\ rx'[c].pc = "resumed" /\ d \in owed /\ ~interrupted)
         => rx'[c].read <= rx[d].read]_vars

\* What the consumer that recover_shm returns is about to read has not been
\* overwritten, not even by an element that was never published.
ResumedIsIntact ==
  \A c \in Consumers : Protected(c) => written - rx[c].read <= Capacity
=============================================================================
