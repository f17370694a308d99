------------------------------ MODULE ShmProofs ------------------------------
(***************************************************************************)
(* What src/src/shm.rs promises of a mapped region, in two parts: first    *)
(* the table, leases and recovery of GateTable, then the creation,         *)
(* validation and role leases of ShmRegion.                                *)
(***************************************************************************)
EXTENDS GateTable, ShmRegion, SequenceTheorems, TLAPS

(***************************************************************************)
(* GateTable keeps one producer and one occupant per slot and epoch, for   *)
(* every number of handles, slots and faults and with every race of        *)
(* `Races`: none of it rests on the claims and the recovery being kept     *)
(* apart.  Without those races the gate holds, holders keep their slots,   *)
(* and a recovery delivers what the dead have not read.                    *)
(***************************************************************************)


ResetStages == {"look", "cursor", "sentinel", "lease", "control", "free", "close"}

\* A handle that has the lease until it gives it up itself.
HasLease(p) == tx[p].pc = "recheck" \/ Operating(p)
LeaseInv ==
  \A p \in Producers :
    /\ HasLease(p) => producer_lease = p
    /\ Operating(p) /\ tx[p].pc # "reopen" => ~closed

\* Where the two handles of a recovery are at each stage of it.
RecoveryInv == Recovering =>
  /\ recovery.p \in Producers /\ recovery.c \in Consumers
  /\ recovery.max_lag <= write_cursor
  /\ recovery.stage = "take" =>
       tx[recovery.p].pc \in {"take", "reopen", "reset"} /\ rx[recovery.c].pc = "out"
  /\ recovery.stage \in ResetStages =>
       tx[recovery.p].pc = "reset" /\ rx[recovery.c].pc \in {"out", "full"}
  /\ recovery.stage = "join" =>
       /\ recovery.attempt < Attempts
       /\ \/ /\ tx[recovery.p].pc = "reset"
             /\ rx[recovery.c].pc \in {"claim", "full", "claimed", "fenced", "joined", "lease", "resume"}
          \/ tx[recovery.p].pc \in {"seed", "first_scan"} /\ rx[recovery.c].pc = "resumed"

\* A snapshot is of an even generation, and a reset keeps it odd.
ParityInv ==
  /\ \A c \in Consumers : Even(rx[c].gen)
  /\ recovery.stage \in {"take", "join"} => Even(generation)
  /\ recovery.stage \in ResetStages => ~Even(generation)

\* A claim made while the generation is odd ends without touching the slot's
\* availability.
Doomed == {"claimed", "fenced", "joined", "lease", "recheck", "rollback", "gone", "dead"}

\* A claim's epoch is never ahead of its slot's, which between the load and the
\* store of a reset goes one beyond at most, by a claim that is doomed.
EpochInv ==
  /\ \A c \in Consumers :
       /\ rx[c].pc \in {"out", "claim", "full"} => rx[c].epoch = 0
       /\ rx[c].epoch <= table[rx[c].slot].epoch
  /\ recovery.stage = "free" =>
       /\ table[recovery.slot].state = "FREE" => table[recovery.slot].epoch <= recovery.epoch
       /\ \A c \in Consumers : rx[c].slot = recovery.slot =>
            /\ rx[c].epoch <= recovery.epoch + 1
            /\ rx[c].epoch > recovery.epoch => rx[c].pc \in Doomed
IInv == TypeOK /\ LeaseInv /\ RecoveryInv /\ ParityInv /\ EpochInv /\ EpochIdentifiesOccupancy

-----------------------------------------------------------------------------
\* What txTo and rxTo do.
LEMMA TxTo ==
  ASSUME TypeOK, NEW p \in Producers, NEW pc \in TxPcs, txTo(p, pc)
  PROVE  /\ tx' \in [Producers -> TxType] /\ tx'[p].pc = pc
         /\ \A q \in Producers : q # p => tx'[q] = tx[q]
<1>1. tx[p] \in TxType /\ tx \in [Producers -> TxType]
  BY DEF TypeOK
<1>2. tx' = [tx EXCEPT ![p] = [pc |-> pc, gen |-> IF Checked(pc) THEN 0 ELSE tx[p].gen]]
  BY DEF txTo
<1>3. [pc |-> pc, gen |-> IF Checked(pc) THEN 0 ELSE tx[p].gen] \in TxType
  BY <1>1 DEF TxType
<1> QED BY <1>1, <1>2, <1>3

LEMMA RxTo ==
  ASSUME TypeOK, NEW c \in Consumers, NEW pc \in RxPcs, rxTo(c, pc)
  PROVE  /\ rx' \in [Consumers -> RxType] /\ rx'[c].pc = pc
         /\ rx'[c].slot = rx[c].slot /\ rx'[c].epoch = rx[c].epoch /\ rx'[c].gen \in {0, rx[c].gen}
         /\ pc # "gone" => rx'[c].read = rx[c].read
         /\ \A d \in Consumers : d # c => rx'[d] = rx[d]
<1>1. rx[c] \in RxType /\ rx \in [Consumers -> RxType]
  BY DEF TypeOK
<1> DEFINE new == [rx[c] EXCEPT !.pc = pc, !.gen = IF Checked(pc) THEN 0 ELSE rx[c].gen,
                                !.read = IF pc = "gone" THEN 0 ELSE rx[c].read]
<1>2. rx' = [rx EXCEPT ![c] = new]
  BY <1>1 DEF rxTo, RxType
<1>3. /\ new \in RxType /\ new.pc = pc /\ new.slot = rx[c].slot /\ new.epoch = rx[c].epoch
      /\ new.gen \in {0, rx[c].gen} /\ (pc # "gone" => new.read = rx[c].read)
  BY <1>1 DEF RxType
<1> HIDE DEF new
<1> QED BY <1>1, <1>2, <1>3

\* What a store to one slot does.
LEMMA TableTo ==
  ASSUME TypeOK, NEW s \in Slots, NEW new \in SlotType, table' = [table EXCEPT ![s] = new]
  PROVE  /\ table' \in [Slots -> SlotType] /\ table'[s] = new
         /\ \A t \in Slots : t # s => table'[t] = table[t]
BY DEF TypeOK

\* NoScan is a scan that has not begun.
LEMMA ScanReset == ASSUME GateTableAssumption PROVE NoScan \in ScanType
BY DEF GateTableAssumption, NoScan, ScanType

\* NoRecovery is in the domain of recoveries.
LEMMA NoRecoveryType == ASSUME GateTableAssumption PROVE NoRecovery \in RecoveryType
<1>1. "none" \in Stages /\ 1 \in Slots /\ 0 \in 0 .. Attempts
  BY DEF Stages, Slots, GateTableAssumption
<1> QED BY <1>1 DEF NoRecovery, RecoveryType

\* Every step keeps the types.
LEMMA ProducerTypes ==
  ASSUME TypeOK, RecoveryInv, GateTableAssumption, NEW p \in Producers, ProducerStep(p)
  PROVE  TypeOK'
<1> USE DEF region, gate, history
<1>1. CASE OpenProducer(p)
  <2>1. tx[p] \in TxType
    BY DEF TypeOK
  <2>2. \A pc \in {"claim", "take"} : [pc |-> pc, gen |-> generation] \in TxType
    BY DEF TypeOK, TxType, TxPcs
  <2>3. tx' \in [Producers -> TxType]
    BY <1>1, <2>2 DEF OpenProducer, TypeOK
  <2> QED BY <1>1, <2>3 DEF OpenProducer, TypeOK
<1>2. CASE ClaimLease(p)
  <2>1. tx' \in [Producers -> TxType]
    BY <1>2, TxTo DEF ClaimLease, TxPcs
  <2>2. producer_lease' \in Producers \union {NoToken}
    BY <1>2 DEF ClaimLease, TypeOK
  <2> QED BY <1>2, <2>1, <2>2 DEF ClaimLease, TypeOK
<1>3. CASE RecheckLease(p)
  <2>1. tx' \in [Producers -> TxType]
    BY <1>3, TxTo DEF RecheckLease, TxPcs
  <2> QED BY <1>3, <2>1 DEF RecheckLease, TypeOK
<1>4. CASE TakeLease(p)
  <2>1. \A q \in Producers : /\ [tx[q] EXCEPT !.pc = "reopen"] \in TxType
                             /\ [tx[q] EXCEPT !.pc = "stale"] \in TxType /\ tx[q] \in TxType
    BY DEF TypeOK, TxType, TxPcs
  <2>2. tx' \in [Producers -> TxType]
    BY <1>4, <2>1 DEF TakeLease
  <2> QED BY <1>4, <2>2, ScanReset DEF TakeLease, TypeOK, NoGate
<1>5. CASE Reopen(p)
  <2>1. tx' \in [Producers -> TxType]
    BY <1>5, TxTo DEF Reopen, TxPcs
  <2> QED BY <1>5, <2>1 DEF Reopen, TypeOK
<1>6. CASE Seed(p)
  <2>1. tx' \in [Producers -> TxType]
    BY <1>6, TxTo DEF Seed, TxPcs
  <2> QED BY <1>6, <2>1, ScanReset DEF Seed, TypeOK, GateTableAssumption
<1>7. CASE HasSpace(p)
  <2>1. tx' \in [Producers -> TxType]
    BY <1>7, TxTo DEF HasSpace, TxPcs
  <2> QED BY <1>7, <2>1 DEF HasSpace, TypeOK
<1>8. CASE ScanSlot(p)
  <2>1. tx' = tx /\ scan.slot \in Slots /\ scan \in ScanType
    BY <1>8 DEF ScanSlot, TypeOK
  <2>2. table[scan.slot] \in SlotType /\ cached_cursors[scan.slot] \in Int
    BY <2>1 DEF TypeOK
  <2>3. table[scan.slot].cursor \in Nat \union {DETACHED}
    BY <2>2 DEF SlotType
  <2>4. \A cursor \in Int : Saw(cursor) => scan' \in ScanType
    BY <2>1 DEF Saw, ScanType, Larger, TypeOK, Slots, GateTableAssumption
  <2>5. Skip => scan' \in ScanType
    BY <2>1 DEF Skip, ScanType, Slots, GateTableAssumption
  <2>6. scan' \in ScanType /\ cached_cursors' \in [Slots -> Int]
    BY <1>8, <2>2, <2>3, <2>4, <2>5 DEF ScanSlot, TypeOK, DETACHED
  <2> QED BY <1>8, <2>1, <2>6 DEF ScanSlot, TypeOK
<1>9. CASE ScanFinish(p)
  <2>1. tx' \in [Producers -> TxType]
    BY <1>9, TxTo DEF ScanFinish, TxPcs
  <2>2. rx' \in [Consumers -> RxType] /\ recovery' \in RecoveryType
    <3>1. CASE Recoverer(p)
      <4>1. recovery.c \in Consumers
        BY <3>1 DEF Recoverer, RecoveryInv
      <4> QED BY <1>9, <3>1, <4>1, NoRecoveryType, RxTo DEF ScanFinish, RxPcs
    <3>2. CASE ~Recoverer(p)
      BY <1>9, <3>2 DEF ScanFinish, TypeOK
    <3> QED BY <3>1, <3>2
  <2>3. cached_min' \in Int /\ written' \in Nat /\ scan' \in ScanType
    BY <1>9, ScanReset DEF ScanFinish, TypeOK, NewMin, ScanType
  <2> QED BY <1>9, <2>1, <2>2, <2>3 DEF ScanFinish, TypeOK
<1>10. CASE Publish(p)
  <2>1. tx' \in [Producers -> TxType]
    BY <1>10, TxTo DEF Publish, TxPcs
  <2> QED BY <1>10, <2>1 DEF Publish, TypeOK
<1>11. CASE DropProducer(p)
  <2>1. tx' \in [Producers -> TxType]
    BY <1>11, TxTo DEF DropProducer, TxPcs
  <2> QED BY <1>11, <2>1, ScanReset DEF DropProducer, TypeOK, LoseGate, NoGate
<1>12. CASE ReleaseLease(p)
  <2>1. tx' \in [Producers -> TxType]
    BY <1>12, TxTo DEF ReleaseLease, TxPcs
  <2> QED BY <1>12, <2>1 DEF ReleaseLease, TypeOK
<1>13. CASE CrashProducer(p)
  <2>1. tx' \in [Producers -> TxType]
    BY <1>13, TxTo DEF CrashProducer, TxPcs
  <2> QED BY <1>13, <2>1, ScanReset DEF CrashProducer, TypeOK, LoseGate, NoGate
<1> QED
  BY <1>1, <1>2, <1>3, <1>4, <1>5, <1>6, <1>7, <1>8, <1>9, <1>10, <1>11, <1>12, <1>13
  DEF ProducerStep

\* The records of a slot and of a consumer handle after the stores that change
\* more than one of their fields.
LEMMA SlotRecords ==
  ASSUME NEW r \in SlotType, NEW e \in Nat, NEW state \in {"FREE", "ACTIVE", "RETIRED"}
  PROVE  [r EXCEPT !.state = state, !.epoch = e] \in SlotType
BY DEF SlotType

LEMMA HandleRecords ==
  ASSUME NEW r \in RxType, NEW n \in Nat, NEW pc \in RxPcs
  PROVE  /\ \A s \in Slots : [r EXCEPT !.pc = pc, !.epoch = n, !.slot = s] \in RxType
         /\ [r EXCEPT !.pc = pc, !.epoch = n] \in RxType
         /\ [r EXCEPT !.read = n, !.pending = TRUE] \in RxType
         /\ [r EXCEPT !.pc = pc, !.pending = FALSE, !.gen = 0, !.read = n] \in RxType
BY DEF RxType

\* Every step of a consumer keeps the types.
LEMMA ConsumerTypes ==
  ASSUME TypeOK, RecoveryInv, GateTableAssumption, NEW c \in Consumers, ConsumerStep(c)
  PROVE  TypeOK'
<1> USE DEF region, gate, history
<1>0. /\ rx[c] \in RxType /\ rx[c].slot \in Slots /\ table[rx[c].slot] \in SlotType
      /\ write_cursor \in Nat /\ write_cursor \in Nat \union {DETACHED}
  BY DEF TypeOK, RxType
<1> DEFINE mine == table[rx[c].slot]
<1>1. CASE OpenConsumer(c)
  <2>1. [rx[c] EXCEPT !.pc = "claim", !.gen = generation] \in RxType
    BY <1>0 DEF TypeOK, RxType, RxPcs
  <2>2. rx' \in [Consumers -> RxType]
    BY <1>1, <2>1, RxTo DEF OpenConsumer, RxPcs, TypeOK
  <2> QED BY <1>1, <2>2 DEF OpenConsumer, TypeOK
<1>2. CASE ClaimSlot(c)
  <2>0. mine.epoch \in Nat /\ mine.epoch + 1 \in Nat
    BY <1>0 DEF SlotType
  <2>1. /\ [mine EXCEPT !.state = "ACTIVE", !.epoch = mine.epoch + 1] \in SlotType
        /\ [rx[c] EXCEPT !.pc = "claimed", !.epoch = mine.epoch + 1] \in RxType
    BY <1>0, <2>0, SlotRecords, HandleRecords DEF RxPcs
  <2>2. /\ rx[c].slot < MaxSlots => [rx[c] EXCEPT !.slot = rx[c].slot + 1] \in RxType
        /\ \A pc \in {"full", "gone"} : [rx[c] EXCEPT !.pc = pc] \in RxType
    BY <1>0 DEF RxType, RxPcs, Slots, GateTableAssumption
  <2>3. CASE mine.state = "FREE"
    <3>1. /\ table' = [table EXCEPT ![rx[c].slot].state = "ACTIVE", ![rx[c].slot].epoch = @ + 1]
          /\ rx' = [rx EXCEPT ![c].pc = "claimed", ![c].epoch = mine.epoch + 1]
      BY <1>2, <2>3 DEF ClaimSlot
    <3>2. table' \in [Slots -> SlotType]
      BY <1>0, <2>1, <3>1 DEF TypeOK
    <3>3. rx' \in [Consumers -> RxType]
      BY <2>1, <3>1 DEF TypeOK
    <3> QED BY <1>2, <3>2, <3>3 DEF ClaimSlot, TypeOK
  <2>4. CASE mine.state # "FREE"
    <3>1. /\ table' = table
          /\ rx' = IF rx[c].slot < MaxSlots THEN [rx EXCEPT ![c].slot = rx[c].slot + 1]
                   ELSE [rx EXCEPT ![c].pc = IF Recoverer(c) THEN "full" ELSE "gone"]
      BY <1>2, <2>4 DEF ClaimSlot
    <3>2. rx' \in [Consumers -> RxType]
      BY <2>2, <3>1 DEF TypeOK
    <3> QED BY <1>2, <3>1, <3>2 DEF ClaimSlot, TypeOK
  <2> QED BY <2>3, <2>4
<1>3. CASE StoreProvisional(c)
  <2>1. [mine EXCEPT !.cursor = write_cursor] \in SlotType
    BY <1>0 DEF SlotType
  <2>2. table' \in [Slots -> SlotType]
    BY <1>0, <1>3, <2>1 DEF StoreProvisional, TypeOK
  <2>3. rx' \in [Consumers -> RxType]
    BY <1>3, RxTo DEF StoreProvisional, RxPcs
  <2> QED BY <1>3, <2>2, <2>3 DEF StoreProvisional, TypeOK
<1>4. CASE LoadJoin(c)
  <2>1. [rx[c] EXCEPT !.read = write_cursor, !.pc = "joined"] \in RxType
    BY <1>0 DEF RxType, RxPcs
  <2>2. rx' \in [Consumers -> RxType]
    BY <1>4, <2>1 DEF LoadJoin, TypeOK
  <2> QED BY <1>4, <2>2 DEF LoadJoin, TypeOK
<1>5. CASE StoreJoin(c)
  <2>1. [mine EXCEPT !.cursor = rx[c].read] \in SlotType
    BY <1>0 DEF SlotType, RxType
  <2>2. table' \in [Slots -> SlotType]
    BY <1>0, <1>5, <2>1 DEF StoreJoin, TypeOK
  <2>3. rx' \in [Consumers -> RxType]
    BY <1>5, RxTo DEF StoreJoin, RxPcs
  <2> QED BY <1>5, <2>2, <2>3 DEF StoreJoin, TypeOK
<1>6. CASE StoreLease(c)
  <2>1. [mine EXCEPT !.lease = c] \in SlotType
    BY <1>0 DEF SlotType
  <2>2. table' \in [Slots -> SlotType]
    BY <1>0, <1>6, <2>1 DEF StoreLease, TypeOK
  <2>3. rx' \in [Consumers -> RxType]
    BY <1>6, RxTo DEF StoreLease, RxPcs
  <2> QED BY <1>6, <2>2, <2>3 DEF StoreLease, TypeOK
<1>7. CASE RecheckClaim(c)
  <2>1. rx' \in [Consumers -> RxType]
    BY <1>7, RxTo DEF RecheckClaim, RxPcs
  <2> QED BY <1>7, <2>1 DEF RecheckClaim, TypeOK
<1>8. CASE release_table_claim(c)
  <2>1. rx' \in [Consumers -> RxType]
    BY <1>8, RxTo DEF release_table_claim, RxPcs
  <2> QED BY <1>8, <2>1 DEF release_table_claim, TypeOK
<1>9. ASSUME NEW read \in Nat, flush(c, read)
      PROVE  rx' \in [Consumers -> RxType] /\ table' \in [Slots -> SlotType]
  <2>1. [rx[c] EXCEPT !.read = read, !.pending = FALSE] \in RxType
    BY <1>0 DEF RxType
  <2>2. [mine EXCEPT !.cursor = read] \in SlotType
    BY <1>0 DEF SlotType
  <2> QED BY <1>0, <1>9, <2>1, <2>2 DEF flush, TypeOK
<1>10. CASE advance_one(c)
  <2>0. rx[c].read + 1 \in Nat
    BY <1>0 DEF RxType
  <2>1. [rx[c] EXCEPT !.read = rx[c].read + 1, !.pending = TRUE] \in RxType
    BY <1>0, <2>0, HandleRecords DEF RxPcs
  <2>2. CASE flush(c, rx[c].read + 1)
    BY <1>9, <1>10, <2>0, <2>2 DEF advance_one, TypeOK
  <2>3. CASE rx' = [rx EXCEPT ![c].read = @ + 1, ![c].pending = TRUE] /\ UNCHANGED table
    <3>1. rx' \in [Consumers -> RxType]
      BY <2>1, <2>3 DEF TypeOK
    <3> QED BY <1>10, <2>3, <3>1 DEF advance_one, TypeOK
  <2> QED BY <1>10, <2>2, <2>3 DEF advance_one
<1>11. CASE flush_pending(c)
  <2>1. rx[c].read \in Nat
    BY <1>0 DEF RxType
  <2> QED BY <1>9, <1>11, <2>1 DEF flush_pending, TypeOK
<1>12. CASE DropConsumer(c)
  <2>1. [mine EXCEPT !.cursor = rx[c].read] \in SlotType
    BY <1>0 DEF SlotType, RxType
  <2>2. \A pc \in {"sentinel", "gone"} : [rx[c] EXCEPT !.pending = FALSE, !.pc = pc] \in RxType
    BY <1>0 DEF RxType, RxPcs
  <2>3. rx' \in [Consumers -> RxType] /\ table' \in [Slots -> SlotType]
    BY <1>0, <1>12, <2>1, <2>2 DEF DropConsumer, TypeOK
  <2> QED BY <1>12, <2>3 DEF DropConsumer, TypeOK
<1>13. CASE StoreSentinel(c)
  <2>1. [mine EXCEPT !.cursor = DETACHED] \in SlotType
    BY <1>0 DEF SlotType
  <2>2. table' \in [Slots -> SlotType]
    BY <1>0, <1>13, <2>1 DEF StoreSentinel, TypeOK
  <2>3. rx' \in [Consumers -> RxType]
    BY <1>13, RxTo DEF StoreSentinel, RxPcs
  <2> QED BY <1>13, <2>2, <2>3 DEF StoreSentinel, TypeOK
<1>14. CASE FreeSlot(c)
  <2>1. [mine EXCEPT !.state = "FREE"] \in SlotType
    BY <1>0 DEF SlotType
  <2>2. table' \in [Slots -> SlotType]
    BY <1>0, <1>14, <2>1 DEF FreeSlot, TypeOK
  <2>3. rx' \in [Consumers -> RxType]
    BY <1>14, RxTo DEF FreeSlot, RxPcs
  <2> QED BY <1>14, <2>2, <2>3 DEF FreeSlot, TypeOK
<1>15. CASE ReleaseSlotLease(c)
  <2>1. [mine EXCEPT !.lease = NoToken] \in SlotType
    BY <1>0 DEF SlotType
  <2>2. table' \in [Slots -> SlotType]
    BY <1>0, <1>15, <2>1 DEF ReleaseSlotLease, TypeOK
  <2>3. rx' \in [Consumers -> RxType]
    BY <1>15, RxTo DEF ReleaseSlotLease, RxPcs
  <2> QED BY <1>15, <2>2, <2>3 DEF ReleaseSlotLease, TypeOK
<1>16. CASE CrashConsumer(c)
  <2>1. \A n \in {0, rx[c].read} :
          [rx[c] EXCEPT !.pc = "dead", !.pending = FALSE, !.gen = 0, !.read = n] \in RxType
    <3>1. rx[c].read \in Nat
      BY <1>0 DEF RxType
    <3> QED BY <1>0, <3>1, HandleRecords DEF RxPcs
  <2>2. rx' \in [Consumers -> RxType]
    BY <1>16, <2>1 DEF CrashConsumer, TypeOK
  <2> QED BY <1>16, <2>2 DEF CrashConsumer, TypeOK
<1>17. CASE ForceDetach(c)
  <2>0. mine.epoch + 1 \in Nat
    BY <1>0 DEF SlotType
  <2>1. [mine EXCEPT !.state = "RETIRED", !.epoch = mine.epoch + 1] \in SlotType
    BY <1>0, <2>0, SlotRecords
  <2>2. table' \in [Slots -> SlotType]
    BY <1>0, <1>17, <2>1 DEF ForceDetach, TypeOK
  <2> QED BY <1>17, <2>2 DEF ForceDetach, TypeOK
<1> QED
  BY <1>1, <1>2, <1>3, <1>4, <1>5, <1>6, <1>7, <1>8, <1>10, <1>11, <1>12, <1>13, <1>14, <1>15,
     <1>16, <1>17
  DEF ConsumerStep

\* The record of a recovery after a change of stage.
LEMMA RecoveryRecords ==
  ASSUME NEW r \in RecoveryType, NEW stage \in Stages, NEW s \in Slots
  PROVE  /\ [r EXCEPT !.stage = stage] \in RecoveryType
         /\ [r EXCEPT !.stage = stage, !.slot = s] \in RecoveryType
         /\ [r EXCEPT !.stage = stage, !.slot = s, !.max_lag = 0] \in RecoveryType
BY DEF RecoveryType

\* Where a pass goes next, and what it carries along.
LEMMA NextSlotType ==
  ASSUME TypeOK, GateTableAssumption,
         NEW pass \in {"look", "sentinel"}, NEW next \in {"sentinel", "close"}
  PROVE  /\ NextSlot(pass, next) \in RecoveryType
         /\ NextSlot(pass, next).stage \in {pass, next}
         /\ NextSlot(pass, next).p = recovery.p /\ NextSlot(pass, next).c = recovery.c
         /\ NextSlot(pass, next).max_lag = recovery.max_lag
         /\ NextSlot(pass, next).resume = recovery.resume
         /\ NextSlot(pass, next).attempt = recovery.attempt
<1>1. recovery \in RecoveryType /\ recovery.slot \in Slots /\ 1 \in Slots
  BY DEF TypeOK, GateTableAssumption, RecoveryType, Slots
<1>2. recovery.slot < MaxSlots => recovery.slot + 1 \in Slots
  BY <1>1 DEF Slots, GateTableAssumption
<1>3. pass \in Stages /\ next \in Stages
  BY DEF Stages
<1>4. CASE recovery.slot < MaxSlots
  <2> DEFINE new == [recovery EXCEPT !.stage = pass, !.slot = recovery.slot + 1]
  <2>1. NextSlot(pass, next) = new
    BY <1>4 DEF NextSlot
  <2>2. new \in RecoveryType
    BY <1>1, <1>2, <1>3, <1>4 DEF RecoveryType
  <2>3. /\ new.stage = pass /\ new.p = recovery.p /\ new.c = recovery.c /\ new.max_lag = recovery.max_lag
        /\ new.resume = recovery.resume /\ new.attempt = recovery.attempt
    BY <1>1 DEF RecoveryType
  <2> HIDE DEF new
  <2> QED BY <2>1, <2>2, <2>3
<1>5. CASE ~(recovery.slot < MaxSlots)
  <2> DEFINE new == [recovery EXCEPT !.stage = next, !.slot = 1]
  <2>1. NextSlot(pass, next) = new
    BY <1>5 DEF NextSlot
  <2>2. new \in RecoveryType
    BY <1>1, <1>3 DEF RecoveryType
  <2>3. /\ new.stage = next /\ new.p = recovery.p /\ new.c = recovery.c /\ new.max_lag = recovery.max_lag
        /\ new.resume = recovery.resume /\ new.attempt = recovery.attempt
    BY <1>1 DEF RecoveryType
  <2> HIDE DEF new
  <2> QED BY <2>1, <2>2, <2>3
<1> QED BY <1>4, <1>5

\* The start of a recovery keeps the types.
LEMMA BeginTypes ==
  ASSUME TypeOK, GateTableAssumption, NEW p \in Producers, NEW c \in Consumers, BeginRecovery(p, c)
  PROVE  TypeOK'
<1>1. [NoRecovery EXCEPT !.stage = "take", !.p = p, !.c = c] \in RecoveryType
  <2>1. "take" \in Stages /\ 1 \in Slots /\ 0 \in 0 .. Attempts
    BY DEF Stages, Slots, GateTableAssumption
  <2> QED BY <2>1 DEF NoRecovery, RecoveryType
<1>2. tx' \in [Producers -> TxType]
  BY TxTo DEF BeginRecovery, TxPcs
<1> QED BY <1>1, <1>2 DEF BeginRecovery, TypeOK, region, gate, history

\* Every later step of a recovery keeps the types.
LEMMA RecoveryTypes ==
  ASSUME TypeOK, RecoveryInv, GateTableAssumption, RecoveryStep
  PROVE  TypeOK'
<1> USE DEF region, gate, history
<1>0. /\ recovery \in RecoveryType /\ recovery.slot \in Slots
      /\ table[recovery.slot] \in SlotType /\ generation + 1 \in Nat
  BY DEF TypeOK, RecoveryType
<1> DEFINE at == table[recovery.slot]
<1>a. \A stage \in {"look", "lease", "control", "cursor", "sentinel"} :
        /\ [recovery EXCEPT !.stage = stage] \in RecoveryType
        /\ Reset(stage) \in RecoveryType
  <2>1. 1 \in Slots /\ {"look", "lease", "control", "cursor", "sentinel"} \subseteq Stages
    BY DEF Stages, Slots, GateTableAssumption
  <2> QED BY <1>0, <2>1, RecoveryRecords DEF Reset
<1>b. Recovering => recovery.p \in Producers /\ recovery.c \in Consumers
  BY DEF RecoveryInv
<1>c. NoRecovery \in RecoveryType
  BY NoRecoveryType
<1>1. CASE \E p \in Producers, c \in Consumers : BeginRecovery(p, c)
  BY <1>1, BeginTypes
<1>2. CASE OpenReset
  BY <1>0, <1>2, <1>a DEF OpenReset, TypeOK
<1>3. CASE ResetLook
  <2>1. recovery' \in RecoveryType
    BY <1>3, <1>a, NextSlotType DEF ResetLook
  <2> QED BY <1>3, <2>1 DEF ResetLook, TypeOK
<1>4. CASE ResetCursor
  <2>1. Lag(at.cursor) \in Nat
    BY <1>0 DEF Lag, Larger, TypeOK, RecoveryType, SlotType, DETACHED, GateTableAssumption
  <2>2. [NextSlot("look", "sentinel") EXCEPT !.max_lag = Lag(at.cursor)] \in RecoveryType
    BY <2>1, NextSlotType DEF RecoveryType
  <2> QED BY <1>4, <2>2 DEF ResetCursor, TypeOK
<1>5. CASE ResetSentinel
  <2>1. [at EXCEPT !.cursor = DETACHED] \in SlotType
    BY <1>0 DEF SlotType
  <2>2. table' \in [Slots -> SlotType]
    BY <1>0, <1>5, <2>1 DEF ResetSentinel, TypeOK
  <2> QED BY <1>5, <1>a, <2>2 DEF ResetSentinel, Goto, TypeOK
<1>6. CASE ResetLease
  <2>1. [at EXCEPT !.lease = NoToken] \in SlotType
    BY <1>0 DEF SlotType
  <2>2. table' \in [Slots -> SlotType]
    BY <1>0, <1>6, <2>1 DEF ResetLease, TypeOK
  <2> QED BY <1>6, <1>a, <2>2 DEF ResetLease, Goto, TypeOK
<1>7. CASE ResetLoadControl
  <2>1. [recovery EXCEPT !.stage = "free", !.epoch = at.epoch] \in RecoveryType
    BY <1>0 DEF RecoveryType, SlotType, Stages
  <2> QED BY <1>7, <2>1 DEF ResetLoadControl, TypeOK
<1>8. CASE ResetFree
  <2>1. recovery.epoch + 1 \in Nat
    BY <1>0 DEF RecoveryType
  <2>2. [at EXCEPT !.state = "FREE", !.epoch = recovery.epoch + 1] \in SlotType
    BY <1>0, <2>1, SlotRecords
  <2>3. table' \in [Slots -> SlotType]
    BY <1>0, <1>8, <2>2 DEF ResetFree, TypeOK
  <2>4. [NextSlot("sentinel", "close") EXCEPT !.epoch = 0] \in RecoveryType
    BY NextSlotType DEF RecoveryType
  <2> QED BY <1>8, <2>3, <2>4 DEF ResetFree, TypeOK
<1>9. CASE CloseReset
  <2>1. Recovering /\ recovery.stage = "close"
    BY <1>9 DEF CloseReset, Resetting, Recovering
  <2>2. recovery.p \in Producers /\ recovery.c \in Consumers /\ recovery.max_lag <= write_cursor
    BY <2>1 DEF RecoveryInv
  <2>3. CASE recovery.attempt = Attempts
    <3>1. tx' \in [Producers -> TxType] /\ rx' \in [Consumers -> RxType]
      BY <1>9, <2>2, <2>3, TxTo, RxTo DEF CloseReset, TxPcs, RxPcs
    <3> QED BY <1>0, <1>9, <1>c, <2>3, <3>1 DEF CloseReset, TypeOK
  <2>4. CASE recovery.attempt # Attempts
    <3>1. Resume \in Nat
      BY <1>0, <2>2 DEF Resume, RecoveryType, TypeOK
    <3>2. [recovery EXCEPT !.stage = "join", !.resume = Resume, !.max_lag = 0] \in RecoveryType
      BY <1>0, <3>1 DEF RecoveryType, Stages
    <3>3. [rx[recovery.c] EXCEPT !.pc = "claim", !.slot = 1] \in RxType
      <4>1. rx[recovery.c] \in RxType /\ "claim" \in RxPcs /\ 1 \in Slots
        BY <2>2 DEF TypeOK, RxPcs, Slots, GateTableAssumption
      <4> QED BY <4>1 DEF RxType
    <3>4. rx' \in [Consumers -> RxType]
      <4>1. rx' = [rx EXCEPT ![recovery.c] = [rx[recovery.c] EXCEPT !.pc = "claim", !.slot = 1]]
        BY <1>9, <2>2, <2>4 DEF CloseReset, TypeOK
      <4> QED BY <3>3, <4>1 DEF TypeOK
    <3> QED BY <1>0, <1>9, <2>4, <3>2, <3>4 DEF CloseReset, TypeOK
  <2> QED BY <2>3, <2>4
<1>10. CASE RetryReset
  <2>1. recovery.attempt + 1 \in 0 .. Attempts
    BY <1>0, <1>10 DEF RetryReset, Resetting, RecoveryInv, Recovering, RecoveryType, GateTableAssumption
  <2>2. [Reset("look") EXCEPT !.attempt = recovery.attempt + 1] \in RecoveryType
    BY <1>a, <2>1 DEF RecoveryType
  <2>3. recovery' = [Reset("look") EXCEPT !.attempt = recovery.attempt + 1]
    BY <1>0, <1>10 DEF RetryReset, Reset, RecoveryType
  <2> QED BY <1>0, <1>10, <2>2, <2>3 DEF RetryReset, TypeOK
<1>11. CASE StoreResume
  <2>1. Recovering /\ recovery.resume \in Nat
    BY <1>0, <1>11 DEF StoreResume, Resetting, Recovering, RecoveryType
  <2>2. rx[recovery.c] \in RxType /\ rx[recovery.c].slot \in Slots /\ table[rx[recovery.c].slot] \in SlotType
    BY <1>b, <2>1 DEF TypeOK, RxType
  <2>3. [table[rx[recovery.c].slot] EXCEPT !.cursor = recovery.resume] \in SlotType
    BY <2>1, <2>2 DEF SlotType
  <2>4. table' \in [Slots -> SlotType]
    BY <1>11, <2>2, <2>3 DEF StoreResume, TypeOK
  <2>5. [rx[recovery.c] EXCEPT !.pc = "resumed", !.read = recovery.resume] \in RxType
    BY <2>1, <2>2 DEF RxType, RxPcs
  <2>6. rx' \in [Consumers -> RxType]
    BY <1>11, <2>5 DEF StoreResume, TypeOK
  <2>7. tx' \in [Producers -> TxType]
    BY <1>11, <1>b, <2>1, TxTo DEF StoreResume, TxPcs
  <2> QED BY <1>11, <2>4, <2>6, <2>7 DEF StoreResume, TypeOK
<1>12. CASE CrashRecoverer
  <2>1. Recovering
    BY <1>12 DEF CrashRecoverer
  <2>2. tx' \in [Producers -> TxType] /\ rx' \in [Consumers -> RxType]
    BY <1>12, <1>b, <2>1, TxTo, RxTo DEF CrashRecoverer, TxPcs, RxPcs
  <2> QED BY <1>12, <1>b, <1>c, <2>1, <2>2, ScanReset DEF CrashRecoverer, LoseGate, NoGate, TypeOK
<1> QED
  BY <1>1, <1>2, <1>3, <1>4, <1>5, <1>6, <1>7, <1>8, <1>9, <1>10, <1>11, <1>12 DEF RecoveryStep

-----------------------------------------------------------------------------
\* The lease: only the holder's own step, or a takeover when it is settled,
\* takes it away, and only the holder closes the ring.
LEMMA LeaseFrame ==
  ASSUME LeaseInv, UNCHANGED <<tx, producer_lease, closed>>
  PROVE  LeaseInv'
BY DEF LeaseInv, HasLease, Operating

\* A step of one handle that is operating, or that has no claim on the lease
\* afterwards, and leaves the lease and the ring's state alone.
LEMMA LeaseOfOne ==
  ASSUME LeaseInv, NEW p \in Producers, UNCHANGED <<producer_lease, closed>>,
         \A q \in Producers : q # p => tx'[q] = tx[q],
         \/ Operating(p) /\ tx[p].pc # "reopen"
         \/ tx'[p].pc \in {"out", "claim", "take", "release", "stale", "gone", "dead"}
  PROVE  LeaseInv'
BY DEF LeaseInv, HasLease, Operating

\* No step of a producer takes the lease from the handle that acts as one.
LEMMA LeaseProducer ==
  ASSUME TypeOK, LeaseInv, RecoveryInv, GateTableAssumption, NEW p \in Producers, ProducerStep(p)
  PROVE  LeaseInv'
<1> USE DEF region, gate, history
<1>1. CASE OpenProducer(p)
  <2>1. \A q \in Producers : q # p => tx'[q] = tx[q]
    BY <1>1 DEF OpenProducer, TypeOK
  <2>2. tx'[p].pc \in {"claim", "take"}
    BY <1>1 DEF OpenProducer, TypeOK
  <2> QED BY <1>1, <2>1, <2>2, LeaseOfOne DEF OpenProducer
<1>2. CASE ClaimLease(p)
  <2>1. CASE producer_lease = NoToken
    <3>1. producer_lease' = p /\ closed' = closed /\ tx'[p].pc = "recheck"
      BY <1>2, <2>1, TxTo DEF ClaimLease, TxPcs
    <3>2. \A q \in Producers : q # p => tx'[q] = tx[q]
      BY <1>2, <2>1, TxTo DEF ClaimLease, TxPcs
    <3> QED BY <2>1, <3>1, <3>2 DEF LeaseInv, HasLease, Operating, GateTableAssumption
  <2>2. CASE producer_lease # NoToken
    <3>1. tx'[p].pc = "gone" /\ \A q \in Producers : q # p => tx'[q] = tx[q]
      BY <1>2, <2>2, TxTo DEF ClaimLease, TxPcs
    <3> QED BY <1>2, <2>2, <3>1, LeaseOfOne DEF ClaimLease
  <2> QED BY <2>1, <2>2
<1>3. CASE RecheckLease(p)
  <2>1. tx'[p].pc \in {"reopen", "release"} /\ \A q \in Producers : q # p => tx'[q] = tx[q]
    BY <1>3, TxTo DEF RecheckLease, TxPcs
  <2> QED BY <1>3, <2>1 DEF RecheckLease, LeaseInv, HasLease, Operating
<1>4. CASE TakeLease(p)
  <2>1. \A q \in Producers :
          tx'[q].pc = IF q = p THEN "reopen" ELSE IF tx[q].pc = "live" THEN "stale" ELSE tx[q].pc
    <3>1. \A q \in Producers : tx[q] \in TxType
      BY DEF TypeOK
    <3> QED BY <1>4, <3>1 DEF TakeLease, TxType
  <2>2. producer_lease' = p /\ \A q \in Producers : q # p => tx[q].pc \in Settled
    BY <1>4 DEF TakeLease
  <2> QED BY <2>1, <2>2 DEF LeaseInv, HasLease, Operating, Settled
<1>5. CASE Reopen(p)
  <2>1. tx'[p].pc \in {"reset", "seed"} /\ \A q \in Producers : q # p => tx'[q] = tx[q]
    BY <1>5, TxTo DEF Reopen, TxPcs
  <2> QED BY <1>5, <2>1 DEF Reopen, LeaseInv, HasLease, Operating
<1>6. CASE Seed(p)
  <2>1. \A q \in Producers : q # p => tx'[q] = tx[q]
    BY <1>6, TxTo DEF Seed, TxPcs
  <2> QED BY <1>6, <2>1, LeaseOfOne DEF Seed, Operating
<1>7. CASE HasSpace(p)
  <2>1. \A q \in Producers : q # p => tx'[q] = tx[q]
    BY <1>7, TxTo DEF HasSpace, TxPcs
  <2> QED BY <1>7, <2>1, LeaseOfOne DEF HasSpace, Operating
<1>8. CASE ScanSlot(p)
  BY <1>8, LeaseFrame DEF ScanSlot
<1>9. CASE ScanFinish(p)
  <2>1. \A q \in Producers : q # p => tx'[q] = tx[q]
    BY <1>9, TxTo DEF ScanFinish, TxPcs
  <2> QED BY <1>9, <2>1, LeaseOfOne DEF ScanFinish, Scanning, Operating
<1>10. CASE Publish(p)
  <2>1. \A q \in Producers : q # p => tx'[q] = tx[q]
    BY <1>10, TxTo DEF Publish, TxPcs
  <2> QED BY <1>10, <2>1, LeaseOfOne DEF Publish, Operating
<1>11. CASE DropProducer(p)
  <2>1. tx'[p].pc = "release" /\ \A q \in Producers : q # p => tx'[q] = tx[q]
    BY <1>11, TxTo DEF DropProducer, TxPcs
  <2>2. producer_lease' = producer_lease /\ closed' = (closed \/ producer_lease = p)
    BY <1>11 DEF DropProducer
  <2> QED BY <2>1, <2>2 DEF LeaseInv, HasLease, Operating
<1>12. CASE ReleaseLease(p)
  <2>1. tx'[p].pc = "gone" /\ \A q \in Producers : q # p => tx'[q] = tx[q]
    BY <1>12, TxTo DEF ReleaseLease, TxPcs
  <2>2. /\ producer_lease' = (IF producer_lease = p THEN NoToken ELSE producer_lease)
        /\ closed' = closed
    BY <1>12 DEF ReleaseLease
  <2> QED BY <2>1, <2>2 DEF LeaseInv, HasLease, Operating
<1>13. CASE CrashProducer(p)
  <2>1. tx'[p].pc = "dead" /\ \A q \in Producers : q # p => tx'[q] = tx[q]
    BY <1>13, TxTo DEF CrashProducer, TxPcs
  <2> QED BY <1>13, <2>1, LeaseOfOne DEF CrashProducer
<1> QED
  BY <1>1, <1>2, <1>3, <1>4, <1>5, <1>6, <1>7, <1>8, <1>9, <1>10, <1>11, <1>12, <1>13
  DEF ProducerStep

\* A recovery moves its producer only while it holds the role, or before and
\* after.
LEMMA LeaseRecovery ==
  ASSUME TypeOK, LeaseInv, RecoveryInv, GateTableAssumption, RecoveryStep
  PROVE  LeaseInv'
<1> USE DEF region, gate, history
<1>0. Recovering => recovery.p \in Producers
  BY DEF RecoveryInv
<1>1. ASSUME NEW p \in Producers, NEW c \in Consumers, BeginRecovery(p, c) PROVE LeaseInv'
  <2>1. tx'[p].pc = "take" /\ \A q \in Producers : q # p => tx'[q] = tx[q]
    BY <1>1, TxTo DEF BeginRecovery, TxPcs
  <2> QED BY <1>1, <2>1, LeaseOfOne DEF BeginRecovery
<1>2. CASE OpenReset \/ ResetLook \/ ResetCursor \/ ResetSentinel \/ ResetLease \/ ResetLoadControl
           \/ ResetFree \/ RetryReset
  BY <1>2, LeaseFrame
  DEF OpenReset, ResetLook, ResetCursor, ResetSentinel, ResetLease, ResetLoadControl, ResetFree,
      RetryReset
<1>3. CASE CloseReset
  <2>1. Recovering
    BY <1>3 DEF CloseReset, Resetting, Recovering
  <2>2. CASE recovery.attempt = Attempts
    <3>1. tx'[recovery.p].pc = "release" /\ \A q \in Producers : q # recovery.p => tx'[q] = tx[q]
      BY <1>0, <1>3, <2>1, <2>2, TxTo DEF CloseReset, TxPcs
    <3> QED BY <1>0, <1>3, <2>1, <3>1, LeaseOfOne DEF CloseReset
  <2>3. CASE recovery.attempt # Attempts
    BY <1>3, <2>3, LeaseFrame DEF CloseReset
  <2> QED BY <2>2, <2>3
<1>4. CASE StoreResume
  <2>1. Recovering /\ tx[recovery.p].pc = "reset"
    BY <1>4 DEF StoreResume, Resetting, Recovering, RecoveryInv
  <2>2. \A q \in Producers : q # recovery.p => tx'[q] = tx[q]
    BY <1>0, <1>4, <2>1, TxTo DEF StoreResume, TxPcs
  <2> QED BY <1>0, <1>4, <2>1, <2>2, LeaseOfOne DEF StoreResume, Operating
<1>5. CASE CrashRecoverer
  <2>1. Recovering
    BY <1>5 DEF CrashRecoverer
  <2>2. tx'[recovery.p].pc = "dead" /\ \A q \in Producers : q # recovery.p => tx'[q] = tx[q]
    BY <1>0, <1>5, <2>1, TxTo DEF CrashRecoverer, TxPcs
  <2> QED BY <1>0, <1>5, <2>1, <2>2, LeaseOfOne DEF CrashRecoverer
<1> QED BY <1>1, <1>2, <1>3, <1>4, <1>5 DEF RecoveryStep

\* Consumers leave the lease alone.
LEMMA LeaseConsumer ==
  ASSUME LeaseInv, NEW c \in Consumers, ConsumerStep(c)
  PROVE  LeaseInv'
BY LeaseFrame
DEF ConsumerStep, OpenConsumer, ClaimSlot, StoreProvisional, LoadJoin, StoreJoin, StoreLease,
    RecheckClaim, release_table_claim, advance_one, flush_pending, DropConsumer, StoreSentinel,
    FreeSlot, ReleaseSlotLease, CrashConsumer, ForceDetach, region

-----------------------------------------------------------------------------
\* The stages of a recovery: a step of another handle leaves both of its
\* handles where they are.
LEMMA RecoveryFrame ==
  ASSUME TypeOK, RecoveryInv, recovery' = recovery,
         write_cursor' \in {write_cursor, write_cursor + 1},
         Recovering => /\ tx'[recovery.p].pc = tx[recovery.p].pc
                       /\ rx'[recovery.c].pc = rx[recovery.c].pc
  PROVE  RecoveryInv'
<1>1. recovery.max_lag \in Nat /\ write_cursor \in Nat
  BY DEF TypeOK, RecoveryType
<1> QED BY <1>1 DEF RecoveryInv, Recovering

\* The recovery proceeds as its producer does.
LEMMA RecoveryProducer ==
  ASSUME TypeOK, RecoveryInv, GateTableAssumption, NEW p \in Producers, ProducerStep(p)
  PROVE  RecoveryInv'
<1> USE DEF region, gate, history
<1>0. /\ Recovering => recovery.p \in Producers /\ recovery.c \in Consumers
      /\ Recoverer(p) <=> Recovering /\ p = recovery.p
      /\ Recovering => recovery.stage \in {"take", "join"} \union ResetStages
  BY DEF RecoveryInv, Recoverer, Recovering, GateTableAssumption, TypeOK, RecoveryType, Stages, ResetStages
\* The producer of a recovery has none of the other handles' states.
<1>1. ASSUME Recoverer(p) PROVE tx[p].pc \in {"take", "reopen", "reset", "seed", "first_scan"}
  BY <1>0, <1>1 DEF RecoveryInv, Recoverer
<1>2. CASE OpenProducer(p)
  <2>1. \A q \in Producers : q # p => tx'[q] = tx[q]
    BY <1>2 DEF OpenProducer, TypeOK
  <2> QED BY <1>0, <1>1, <1>2, <2>1, RecoveryFrame DEF OpenProducer
<1>3. CASE ClaimLease(p)
  <2>1. \A q \in Producers : q # p => tx'[q] = tx[q]
    BY <1>3, TxTo DEF ClaimLease, TxPcs
  <2> QED BY <1>0, <1>1, <1>3, <2>1, RecoveryFrame DEF ClaimLease
<1>4. CASE RecheckLease(p)
  <2>1. \A q \in Producers : q # p => tx'[q] = tx[q]
    BY <1>4, TxTo DEF RecheckLease, TxPcs
  <2> QED BY <1>0, <1>1, <1>4, <2>1, RecoveryFrame DEF RecheckLease
<1>5. CASE TakeLease(p)
  <2>1. \A q \in Producers :
          tx'[q].pc = IF q = p THEN "reopen" ELSE IF tx[q].pc = "live" THEN "stale" ELSE tx[q].pc
    <3>1. \A q \in Producers : tx[q] \in TxType
      BY DEF TypeOK
    <3> QED BY <1>5, <3>1 DEF TakeLease, TxType
  <2>2. /\ tx[p].pc = "take" /\ recovery' = recovery /\ rx' = rx /\ write_cursor' = write_cursor
        /\ \A q \in Producers \ {p} : tx[q].pc \in Settled
    BY <1>5 DEF TakeLease
  <2>3. CASE Recoverer(p)
    BY <1>0, <2>1, <2>2, <2>3 DEF RecoveryInv, Recovering
  <2>4. CASE ~Recoverer(p)
    <3>1. Recovering => tx[recovery.p].pc # "live"
      BY <1>0 DEF RecoveryInv
    <3> QED BY <1>0, <2>1, <2>2, <2>4, <3>1, RecoveryFrame
  <2> QED BY <2>3, <2>4
<1>6. CASE Reopen(p)
  <2>1. /\ tx[p].pc = "reopen" /\ tx'[p].pc = IF Recoverer(p) THEN "reset" ELSE "seed"
        /\ recovery' = recovery /\ rx' = rx /\ write_cursor' = write_cursor
        /\ \A q \in Producers : q # p => tx'[q] = tx[q]
    BY <1>6, TxTo DEF Reopen, TxPcs
  <2>2. CASE Recoverer(p)
    BY <1>0, <2>1, <2>2 DEF RecoveryInv, Recovering
  <2>3. CASE ~Recoverer(p)
    BY <1>0, <2>1, <2>3, RecoveryFrame
  <2> QED BY <2>2, <2>3
<1>7. CASE Seed(p)
  <2>1. /\ tx[p].pc = "seed" /\ tx'[p].pc = "first_scan"
        /\ recovery' = recovery /\ rx' = rx /\ write_cursor' = write_cursor
        /\ \A q \in Producers : q # p => tx'[q] = tx[q]
    BY <1>7, TxTo DEF Seed, TxPcs
  <2>2. CASE Recoverer(p)
    BY <1>0, <2>1, <2>2 DEF RecoveryInv, Recovering
  <2>3. CASE ~Recoverer(p)
    BY <1>0, <2>1, <2>3, RecoveryFrame
  <2> QED BY <2>2, <2>3
<1>8. CASE HasSpace(p)
  <2>1. \A q \in Producers : q # p => tx'[q] = tx[q]
    BY <1>8, TxTo DEF HasSpace, TxPcs
  <2> QED BY <1>0, <1>1, <1>8, <2>1, RecoveryFrame DEF HasSpace
<1>9. CASE ScanSlot(p)
  BY <1>9, RecoveryFrame DEF ScanSlot
<1>10. CASE ScanFinish(p)
  <2>1. CASE Recoverer(p)
    BY <1>10, <2>1 DEF ScanFinish, RecoveryInv, Recovering, NoRecovery
  <2>2. CASE ~Recoverer(p)
    <3>1. \A q \in Producers : q # p => tx'[q] = tx[q]
      BY <1>10, TxTo DEF ScanFinish, TxPcs
    <3> QED BY <1>0, <1>10, <2>2, <3>1, RecoveryFrame DEF ScanFinish
  <2> QED BY <2>1, <2>2
<1>11. CASE Publish(p)
  <2>1. \A q \in Producers : q # p => tx'[q] = tx[q]
    BY <1>11, TxTo DEF Publish, TxPcs
  <2> QED BY <1>0, <1>1, <1>11, <2>1, RecoveryFrame DEF Publish
<1>12. CASE DropProducer(p)
  <2>1. \A q \in Producers : q # p => tx'[q] = tx[q]
    BY <1>12, TxTo DEF DropProducer, TxPcs
  <2> QED BY <1>0, <1>1, <1>12, <2>1, RecoveryFrame DEF DropProducer
<1>13. CASE ReleaseLease(p)
  <2>1. \A q \in Producers : q # p => tx'[q] = tx[q]
    BY <1>13, TxTo DEF ReleaseLease, TxPcs
  <2> QED BY <1>0, <1>1, <1>13, <2>1, RecoveryFrame DEF ReleaseLease
<1>14. CASE CrashProducer(p)
  <2>1. \A q \in Producers : q # p => tx'[q] = tx[q]
    BY <1>14, TxTo DEF CrashProducer, TxPcs
  <2> QED BY <1>0, <1>14, <2>1, RecoveryFrame DEF CrashProducer
<1> QED
  BY <1>2, <1>3, <1>4, <1>5, <1>6, <1>7, <1>8, <1>9, <1>10, <1>11, <1>12, <1>13, <1>14
  DEF ProducerStep

\* A step of a consumer is its own: it moves no other handle, and of the region
\* it changes the table at most.
LEMMA OneConsumer ==
  ASSUME TypeOK, NEW c \in Consumers, ConsumerStep(c)
  PROVE  /\ UNCHANGED <<generation, producer_lease, closed, write_cursor, tx, gate, recovery>>
         /\ revoked \subseteq revoked' /\ revoked' \subseteq revoked \union {c}
         /\ \A d \in Consumers : d # c => rx'[d] = rx[d]
<1> USE DEF region, gate, history
<1>1. UNCHANGED <<generation, producer_lease, closed, write_cursor, tx, gate, recovery>>
  BY DEF ConsumerStep, OpenConsumer, ClaimSlot, StoreProvisional, LoadJoin, StoreJoin, StoreLease,
     RecheckClaim, release_table_claim, advance_one, flush_pending, DropConsumer, StoreSentinel,
     FreeSlot, ReleaseSlotLease, CrashConsumer, ForceDetach
<1>2. revoked \subseteq revoked' /\ revoked' \subseteq revoked \union {c}
  BY DEF ConsumerStep, OpenConsumer, ClaimSlot, StoreProvisional, LoadJoin, StoreJoin, StoreLease,
     RecheckClaim, release_table_claim, advance_one, flush_pending, DropConsumer, StoreSentinel,
     FreeSlot, ReleaseSlotLease, CrashConsumer, ForceDetach
<1>3. \A pc : rxTo(c, pc) => \A d \in Consumers : d # c => rx'[d] = rx[d]
  BY DEF rxTo, TypeOK
<1>4. \A d \in Consumers : d # c => rx'[d] = rx[d]
  BY <1>3 DEF ConsumerStep, OpenConsumer, ClaimSlot, StoreProvisional, LoadJoin, StoreJoin,
     StoreLease, RecheckClaim, release_table_claim, advance_one, flush, flush_pending, DropConsumer,
     StoreSentinel, FreeSlot, ReleaseSlotLease, CrashConsumer, ForceDetach, TypeOK
<1> QED BY <1>1, <1>2, <1>4

\* The consumer of a recovery is in its join, or waits before it.
LEMMA RecoveryConsumer ==
  ASSUME TypeOK, RecoveryInv, GateTableAssumption, NEW c \in Consumers, ConsumerStep(c)
  PROVE  RecoveryInv'
<1> USE DEF region, gate, history
<1>0. /\ Recovering => recovery.p \in Producers /\ recovery.c \in Consumers
      /\ Recoverer(c) <=> Recovering /\ c = recovery.c
      /\ Recovering => recovery.stage \in {"take", "join"} \union ResetStages
  BY DEF RecoveryInv, Recoverer, Recovering, GateTableAssumption, TypeOK, RecoveryType, Stages, ResetStages
<1>1. /\ recovery' = recovery /\ tx' = tx /\ write_cursor' = write_cursor
      /\ \A d \in Consumers : d # c => rx'[d] = rx[d]
  BY OneConsumer
<1>2. CASE ~Recoverer(c)
  BY <1>0, <1>1, <1>2, RecoveryFrame
<1>3. CASE Recoverer(c)
  <2>0. rx[c].pc \in {"out", "full", "claim", "claimed", "fenced", "joined", "lease", "resume", "resumed"}
    BY <1>0, <1>3 DEF RecoveryInv
  <2>1. rx'[c].pc = rx[c].pc
        \/ /\ rx[c].pc \in {"claim", "claimed", "fenced", "joined", "lease"}
           /\ rx'[c].pc \in {"claim", "full", "claimed", "fenced", "joined", "lease", "resume"}
    <3>0. rx[c] \in RxType
      BY DEF TypeOK
    <3>1. CASE ClaimSlot(c)
      <4>1. rx[c].pc = "claim"
        BY <3>1 DEF ClaimSlot
      <4>2. rx'[c].pc \in {"claimed", "claim", "full"}
        BY <1>3, <3>0, <3>1 DEF ClaimSlot, TypeOK, RxType
      <4> QED BY <4>1, <4>2
    <3>2. CASE StoreProvisional(c)
      BY <3>2, RxTo DEF StoreProvisional, RxPcs
    <3>3. CASE LoadJoin(c)
      BY <3>0, <3>3 DEF LoadJoin, TypeOK, RxType
    <3>4. CASE StoreJoin(c)
      BY <3>4, RxTo DEF StoreJoin, RxPcs
    <3>5. CASE StoreLease(c)
      BY <1>3, <3>5, RxTo DEF StoreLease, RxPcs
    <3> QED BY <1>3, <2>0, <3>1, <3>2, <3>3, <3>4, <3>5
        DEF ConsumerStep, OpenConsumer, RecheckClaim, release_table_claim, advance_one, flush_pending,
            DropConsumer, StoreSentinel, FreeSlot, ReleaseSlotLease, CrashConsumer, ForceDetach, Runs
  <2> QED BY <1>0, <1>1, <1>3, <2>1 DEF RecoveryInv, Recovering, ResetStages
<1> QED BY <1>2, <1>3

\* Every step of a recovery leaves its two handles where its stage says.
LEMMA RecoverySteps ==
  ASSUME TypeOK, RecoveryInv, GateTableAssumption, RecoveryStep
  PROVE  RecoveryInv'
<1> USE DEF region, gate, history
<1>0. /\ Recovering => recovery.p \in Producers /\ recovery.c \in Consumers
      /\ recovery \in RecoveryType /\ write_cursor \in Nat
  BY DEF RecoveryInv, TypeOK
<1>1. ASSUME NEW p \in Producers, NEW c \in Consumers, BeginRecovery(p, c) PROVE RecoveryInv'
  <2>1. /\ recovery'.stage = "take" /\ recovery'.p = p /\ recovery'.c = c /\ recovery'.max_lag = 0
        /\ rx[c].pc = "out" /\ rx' = rx /\ write_cursor' = write_cursor
    BY <1>1 DEF BeginRecovery, NoRecovery
  <2>2. tx'[p].pc = "take"
    BY <1>1, TxTo DEF BeginRecovery, TxPcs
  <2> QED BY <1>0, <2>1, <2>2 DEF RecoveryInv, ResetStages
\* The passes over the table leave both handles where they are.
<1>2. ASSUME Recovering, recovery.stage \in ResetStages, recovery'.stage \in ResetStages,
             recovery'.p = recovery.p, recovery'.c = recovery.c,
             recovery'.max_lag <= write_cursor, UNCHANGED <<tx, rx, write_cursor>>
      PROVE  RecoveryInv'
  BY <1>0, <1>2 DEF RecoveryInv, ResetStages
<1>3. ASSUME NEW stage \in ResetStages, Resetting(stage)
      PROVE  Recovering /\ recovery.stage \in ResetStages /\ recovery.max_lag <= write_cursor
  BY <1>3 DEF Resetting, Recovering, RecoveryInv, ResetStages
<1>4. CASE OpenReset
  <2>1. /\ Recovering /\ recovery'.stage = "look" /\ recovery'.max_lag = 0
        /\ recovery'.p = recovery.p /\ recovery'.c = recovery.c
        /\ tx[recovery.p].pc = "reset" /\ recovery.stage = "take" /\ UNCHANGED <<tx, rx, write_cursor>>
    BY <1>0, <1>4 DEF OpenReset, Resetting, Reset, Recovering, RecoveryType
  <2> QED BY <1>0, <2>1 DEF RecoveryInv, ResetStages
<1>5. CASE ResetLook
  <2>1. recovery'.stage \in {"look", "sentinel", "cursor"} /\ recovery'.max_lag = recovery.max_lag
        /\ recovery'.p = recovery.p /\ recovery'.c = recovery.c
    BY <1>0, <1>5, NextSlotType DEF ResetLook, RecoveryType
  <2> QED BY <1>2, <1>3, <1>5, <2>1 DEF ResetLook, ResetStages
<1>6. CASE ResetCursor
  <2> DEFINE cursor == table[recovery.slot].cursor
  <2>1. /\ NextSlot("look", "sentinel") \in RecoveryType
        /\ NextSlot("look", "sentinel").stage \in {"look", "sentinel"}
        /\ NextSlot("look", "sentinel").p = recovery.p /\ NextSlot("look", "sentinel").c = recovery.c
    BY NextSlotType
  <2>2. recovery'.stage \in {"look", "sentinel"} /\ recovery'.max_lag = Lag(cursor)
        /\ recovery'.p = recovery.p /\ recovery'.c = recovery.c
    BY <1>6, <2>1 DEF ResetCursor, RecoveryType
  <2>3. cursor \in Nat \union {DETACHED}
    <3>1. recovery.slot \in Slots
      BY <1>0 DEF RecoveryType
    <3> QED BY <3>1 DEF TypeOK, SlotType
  <2>4. recovery.max_lag \in Nat /\ recovery.max_lag <= write_cursor
    BY <1>0, <1>3, <1>6 DEF ResetCursor, ResetStages, RecoveryType
  <2>5. Lag(cursor) <= write_cursor
    BY <1>0, <2>3, <2>4 DEF Lag, Larger, GateTableAssumption
  <2> QED BY <1>2, <1>3, <1>6, <2>2, <2>5 DEF ResetCursor, ResetStages
<1>7. CASE ResetSentinel \/ ResetLease \/ ResetLoadControl
  <2>1. recovery'.stage \in {"lease", "control", "free"} /\ recovery'.max_lag = recovery.max_lag
        /\ recovery'.p = recovery.p /\ recovery'.c = recovery.c
    BY <1>0, <1>7 DEF ResetSentinel, ResetLease, ResetLoadControl, Goto, RecoveryType
  <2> QED BY <1>2, <1>3, <1>7, <2>1 DEF ResetSentinel, ResetLease, ResetLoadControl, ResetStages
<1>8. CASE ResetFree
  <2>1. /\ NextSlot("sentinel", "close") \in RecoveryType
        /\ NextSlot("sentinel", "close").stage \in {"sentinel", "close"}
        /\ NextSlot("sentinel", "close").max_lag = recovery.max_lag
        /\ NextSlot("sentinel", "close").p = recovery.p /\ NextSlot("sentinel", "close").c = recovery.c
    BY NextSlotType
  <2>2. recovery'.stage \in {"sentinel", "close"} /\ recovery'.max_lag = recovery.max_lag
        /\ recovery'.p = recovery.p /\ recovery'.c = recovery.c
    BY <1>8, <2>1 DEF ResetFree, RecoveryType
  <2> QED BY <1>2, <1>3, <1>8, <2>2 DEF ResetFree, ResetStages
<1>9. CASE CloseReset
  <2>1. /\ Recovering /\ recovery.stage = "close" /\ recovery.p \in Producers /\ recovery.c \in Consumers
        /\ tx[recovery.p].pc = "reset"
    BY <1>9 DEF CloseReset, Resetting, Recovering, RecoveryInv, ResetStages
  <2>2. CASE recovery.attempt = Attempts
    BY <1>9, <2>2 DEF CloseReset, RecoveryInv, Recovering, NoRecovery
  <2>3. CASE recovery.attempt # Attempts
    <3>1. /\ recovery'.stage = "join" /\ recovery'.p = recovery.p /\ recovery'.c = recovery.c
          /\ recovery'.max_lag = 0 /\ recovery'.attempt = recovery.attempt
      BY <1>0, <1>9, <2>3 DEF CloseReset, RecoveryType
    <3>2. rx'[recovery.c].pc = "claim" /\ tx' = tx /\ write_cursor' = write_cursor
      <4>1. rx[recovery.c] \in RxType
        BY <2>1 DEF TypeOK
      <4> QED BY <1>9, <2>1, <2>3, <4>1 DEF CloseReset, TypeOK, RxType
    <3>3. recovery.attempt < Attempts
      BY <1>0, <2>3 DEF RecoveryType, GateTableAssumption
    <3> QED BY <1>0, <2>1, <3>1, <3>2, <3>3 DEF RecoveryInv, ResetStages
  <2> QED BY <2>2, <2>3
<1>10. CASE RetryReset
  <2>1. /\ Recovering /\ recovery.stage = "join" /\ rx[recovery.c].pc = "full"
        /\ UNCHANGED <<tx, rx, write_cursor>>
    BY <1>10 DEF RetryReset, Resetting, Recovering
  <2>2. /\ recovery'.stage = "look" /\ recovery'.max_lag = 0
        /\ recovery'.p = recovery.p /\ recovery'.c = recovery.c
    BY <1>0, <1>10 DEF RetryReset, Reset, RecoveryType
  <2> QED BY <1>0, <2>1, <2>2 DEF RecoveryInv, ResetStages
<1>11. CASE StoreResume
  <2>1. Recovering /\ recovery.stage = "join" /\ recovery' = recovery /\ write_cursor' = write_cursor
    BY <1>11 DEF StoreResume, Resetting, Recovering
  <2>2. rx'[recovery.c].pc = "resumed"
    <3>1. rx[recovery.c] \in RxType
      BY <1>0, <2>1 DEF TypeOK
    <3> QED BY <1>0, <1>11, <2>1, <3>1 DEF StoreResume, TypeOK, RxType
  <2>3. tx'[recovery.p].pc = "seed"
    BY <1>0, <1>11, <2>1, TxTo DEF StoreResume, TxPcs
  <2> QED BY <1>0, <2>1, <2>2, <2>3 DEF RecoveryInv, Recovering, ResetStages
<1>12. CASE CrashRecoverer
  BY <1>12 DEF CrashRecoverer, RecoveryInv, Recovering, NoRecovery
<1> QED
  BY <1>1, <1>4, <1>5, <1>6, <1>7, <1>8, <1>9, <1>10, <1>11, <1>12 DEF RecoveryStep

-----------------------------------------------------------------------------
\* The parity of the generation.
LEMMA Parity == \A g \in Nat : Even(g) <=> ~Even(g + 1)
BY DEF Even

\* Producers leave the generation alone.
LEMMA ParityProducer ==
  ASSUME TypeOK, RecoveryInv, ParityInv, GateTableAssumption, NEW p \in Producers, ProducerStep(p)
  PROVE  ParityInv'
<1> USE DEF region, gate, history
<1>1. CASE ScanFinish(p) /\ Recoverer(p)
  <2>1. recovery.c \in Consumers /\ recovery' = NoRecovery
    BY <1>1 DEF ScanFinish, Recoverer, RecoveryInv
  <2>2. rx'[recovery.c].gen \in {0, rx[recovery.c].gen} /\ \A d \in Consumers : d # recovery.c => rx'[d] = rx[d]
    BY <1>1, <2>1, RxTo DEF ScanFinish, RxPcs
  <2>3. Even(0)
    BY DEF Even
  <2> QED BY <2>1, <2>2, <2>3 DEF ParityInv, NoRecovery, ResetStages
<1>2. CASE ~(ScanFinish(p) /\ Recoverer(p))
  <2>1. UNCHANGED <<generation, rx, recovery>>
    BY <1>2 DEF ProducerStep, OpenProducer, ClaimLease, RecheckLease, TakeLease, Reopen, Seed, HasSpace,
       ScanSlot, ScanFinish, Publish, DropProducer, ReleaseLease, CrashProducer
  <2> QED BY <2>1 DEF ParityInv
<1> QED BY <1>1, <1>2

\* A consumer snapshots an even generation only.
LEMMA ParityConsumer ==
  ASSUME TypeOK, ParityInv, GateTableAssumption, NEW c \in Consumers, ConsumerStep(c)
  PROVE  ParityInv'
<1> USE DEF region, gate, history
<1>1. generation' = generation /\ recovery' = recovery
  BY DEF ConsumerStep, OpenConsumer, ClaimSlot, StoreProvisional, LoadJoin, StoreJoin, StoreLease,
     RecheckClaim, release_table_claim, advance_one, flush_pending, DropConsumer, StoreSentinel,
     FreeSlot, ReleaseSlotLease, CrashConsumer, ForceDetach
<1>2. \A d \in Consumers : rx'[d].gen \in {0, rx[d].gen} \/ (rx'[d].gen = generation /\ Even(generation))
  <2>0. rx[c] \in RxType
    BY DEF TypeOK
  <2>1. CASE OpenConsumer(c)
    <3>1. CASE closed
      BY <2>1, <3>1, RxTo DEF OpenConsumer, RxPcs
    <3>2. CASE ~closed
      BY <2>0, <2>1, <3>2 DEF OpenConsumer, TypeOK, RxType
    <3> QED BY <3>1, <3>2
  <2>2. CASE ClaimSlot(c)
    <3>1. \A d \in Consumers : rx[d] \in RxType
      BY DEF TypeOK
    <3> QED BY <2>2, <3>1 DEF ClaimSlot, TypeOK, RxType
  <2>3. CASE LoadJoin(c)
    BY <2>0, <2>3 DEF LoadJoin, TypeOK, RxType
  <2>4. CASE advance_one(c) \/ flush_pending(c) \/ DropConsumer(c)
    BY <2>0, <2>4 DEF advance_one, flush_pending, flush, DropConsumer, TypeOK, RxType
  <2>5. CASE CrashConsumer(c)
    BY <2>0, <2>5 DEF CrashConsumer, TypeOK, RxType
  <2>6. CASE StoreProvisional(c) \/ StoreJoin(c) \/ StoreLease(c) \/ RecheckClaim(c)
             \/ release_table_claim(c) \/ StoreSentinel(c) \/ FreeSlot(c) \/ ReleaseSlotLease(c)
    <3>1. \E pc \in RxPcs : rxTo(c, pc)
      BY <2>6 DEF StoreProvisional, StoreJoin, StoreLease, RecheckClaim, release_table_claim,
         StoreSentinel, FreeSlot, ReleaseSlotLease, RxPcs
    <3> QED BY <3>1, RxTo
  <2>7. CASE ForceDetach(c)
    BY <2>7 DEF ForceDetach
  <2> QED BY <2>1, <2>2, <2>3, <2>4, <2>5, <2>6, <2>7 DEF ConsumerStep
<1>3. Even(0)
  BY DEF Even
<1> QED BY <1>1, <1>2, <1>3 DEF ParityInv

\* A reset makes the generation odd, and then even again.
LEMMA ParityRecovery ==
  ASSUME TypeOK, RecoveryInv, ParityInv, GateTableAssumption, RecoveryStep
  PROVE  ParityInv'
<1> USE DEF region, gate, history
<1>0. /\ Recovering => recovery.c \in Consumers
      /\ recovery \in RecoveryType /\ generation \in Nat /\ Even(0)
      /\ \A d \in Consumers : rx[d] \in RxType
  BY DEF RecoveryInv, TypeOK, Even
<1>1. ASSUME NEW p \in Producers, NEW c \in Consumers, BeginRecovery(p, c) PROVE ParityInv'
  BY <1>1 DEF BeginRecovery, NoRecovery, ParityInv, ResetStages
<1>2. CASE OpenReset \/ RetryReset
  <2>1. recovery'.stage = "look" /\ generation' = generation + 1 /\ rx' = rx
        /\ recovery.stage \in {"take", "join"}
    BY <1>0, <1>2 DEF OpenReset, RetryReset, Resetting, Reset, RecoveryType
  <2> QED BY <1>0, <2>1, Parity DEF ParityInv, ResetStages
<1>3. CASE ResetLook \/ ResetCursor \/ ResetSentinel \/ ResetLease \/ ResetLoadControl \/ ResetFree
  <2>1. generation' = generation /\ rx' = rx
    BY <1>3 DEF ResetLook, ResetCursor, ResetSentinel, ResetLease, ResetLoadControl, ResetFree
  <2>2. recovery.stage \in ResetStages
    BY <1>3 DEF ResetLook, ResetCursor, ResetSentinel, ResetLease, ResetLoadControl, ResetFree,
       Resetting, ResetStages
  <2>3. recovery'.stage \in ResetStages
    <3>1. \A pass \in {"look", "sentinel"}, next \in {"sentinel", "close"} :
            NextSlot(pass, next).stage \in {pass, next} /\ NextSlot(pass, next) \in RecoveryType
      BY NextSlotType
    <3>2. CASE ResetLook
      BY <1>0, <3>1, <3>2 DEF ResetLook, RecoveryType, ResetStages
    <3>3. CASE ResetCursor \/ ResetFree
      BY <3>1, <3>3 DEF ResetCursor, ResetFree, RecoveryType, ResetStages
    <3>4. CASE ResetSentinel \/ ResetLease \/ ResetLoadControl
      BY <1>0, <3>4 DEF ResetSentinel, ResetLease, ResetLoadControl, Goto, RecoveryType, ResetStages
    <3> QED BY <1>3, <3>2, <3>3, <3>4
  <2> QED BY <2>1, <2>2, <2>3 DEF ParityInv, ResetStages
<1>4. CASE CloseReset
  <2>0. recovery.stage = "close" /\ Recovering
    BY <1>4 DEF CloseReset, Resetting, Recovering
  <2>a. recovery'.stage \in {"none", "join"}
    <3>1. CASE recovery.attempt = Attempts
      BY <1>4, <3>1 DEF CloseReset, NoRecovery
    <3>2. CASE recovery.attempt # Attempts
      <4>1. recovery' = [recovery EXCEPT !.stage = "join", !.resume = Resume, !.max_lag = 0]
        BY <1>4, <3>2 DEF CloseReset
      <4> QED BY <1>0, <4>1 DEF RecoveryType
    <3> QED BY <3>1, <3>2
  <2>1. /\ recovery.c \in Consumers /\ generation' = generation + 1 /\ ~Even(generation)
    BY <1>0, <1>4, <2>0 DEF CloseReset, ParityInv, ResetStages
  <2>2. \A d \in Consumers : rx'[d].gen \in {0, rx[d].gen}
    <3>1. CASE recovery.attempt = Attempts
      BY <1>4, <2>1, <3>1, RxTo DEF CloseReset, RxPcs
    <3>2. CASE recovery.attempt # Attempts
      BY <1>0, <1>4, <2>1, <3>2 DEF CloseReset, TypeOK, RxType
    <3> QED BY <3>1, <3>2
  <2> QED BY <1>0, <2>a, <2>1, <2>2, Parity DEF ParityInv, ResetStages
<1>5. CASE StoreResume
  <2>1. recovery.c \in Consumers /\ recovery' = recovery /\ generation' = generation
    BY <1>0, <1>5 DEF StoreResume, Resetting, Recovering
  <2>2. \A d \in Consumers : rx'[d].gen = rx[d].gen
    BY <1>0, <1>5, <2>1 DEF StoreResume, TypeOK, RxType
  <2> QED BY <2>1, <2>2 DEF ParityInv
<1>6. CASE CrashRecoverer
  <2>1. recovery.c \in Consumers /\ recovery' = NoRecovery
    BY <1>0, <1>6 DEF CrashRecoverer
  <2>2. \A d \in Consumers : rx'[d].gen \in {0, rx[d].gen}
    BY <1>6, <2>1, RxTo DEF CrashRecoverer, RxPcs
  <2> QED BY <1>0, <2>1, <2>2 DEF ParityInv, NoRecovery, ResetStages
<1> QED BY <1>1, <1>2, <1>3, <1>4, <1>5, <1>6 DEF RecoveryStep

-----------------------------------------------------------------------------
\* The epochs: a step that changes no epoch and no availability of a slot, and
\* lets no claim go on that a reset has doomed.
LEMMA EpochFrame ==
  ASSUME TypeOK, EpochInv, EpochIdentifiesOccupancy,
         recovery'.stage = "free" => recovery' = recovery,
         \A s \in Slots : table'[s].epoch = table[s].epoch /\ table'[s].state = table[s].state,
         rx' \in [Consumers -> RxType],
         \A d \in Consumers :
           /\ rx'[d].slot = rx[d].slot \/ rx[d].epoch = 0
           /\ rx'[d].epoch = rx[d].epoch
           /\ rx'[d].pc \in {"out", "claim", "full"} => rx[d].pc \in {"out", "claim", "full"}
           /\ recovery.stage = "free" /\ rx[d].pc \in Doomed => rx'[d].pc \in Doomed
  PROVE  EpochInv' /\ EpochIdentifiesOccupancy'
<1>1. /\ recovery.slot \in Slots /\ recovery.epoch \in Nat
      /\ \A s \in Slots : table[s].epoch \in Nat
      /\ \A d \in Consumers : rx[d].slot \in Slots /\ rx'[d].slot \in Slots /\ rx[d].epoch \in Nat
  BY DEF TypeOK, RecoveryType, SlotType, RxType
<1>2. EpochInv'
  <2>1. \A d \in Consumers : /\ rx'[d].pc \in {"out", "claim", "full"} => rx'[d].epoch = 0
                             /\ rx'[d].epoch <= table'[rx'[d].slot].epoch
    BY <1>1 DEF EpochInv
  <2>2. ASSUME recovery'.stage = "free"
        PROVE  /\ table'[recovery'.slot].state = "FREE" => table'[recovery'.slot].epoch <= recovery'.epoch
               /\ \A d \in Consumers : rx'[d].slot = recovery'.slot =>
                    /\ rx'[d].epoch <= recovery'.epoch + 1
                    /\ rx'[d].epoch > recovery'.epoch => rx'[d].pc \in Doomed
    BY <1>1, <2>2 DEF EpochInv
  <2> QED BY <2>1, <2>2 DEF EpochInv
<1>3. EpochIdentifiesOccupancy'
  BY <1>1 DEF EpochIdentifiesOccupancy
<1> QED BY <1>2, <1>3

\* A producer claims no slot.
LEMMA EpochProducer ==
  ASSUME TypeOK, RecoveryInv, EpochInv, EpochIdentifiesOccupancy, GateTableAssumption,
         NEW p \in Producers, ProducerStep(p), TypeOK'
  PROVE  EpochInv' /\ EpochIdentifiesOccupancy'
<1> USE DEF region, gate, history
<1>0. rx' \in [Consumers -> RxType]
  BY DEF TypeOK
<1>1. CASE ScanFinish(p) /\ Recoverer(p)
  <2>1. recovery.c \in Consumers /\ recovery' = NoRecovery /\ table' = table
    BY <1>1 DEF ScanFinish, Recoverer, RecoveryInv
  <2>2. recovery.stage # "free"
    <3>1. p = recovery.p /\ tx[p].pc # "reset"
      BY <1>1, <2>1 DEF ScanFinish, Scanning, Recoverer, GateTableAssumption
    <3> QED BY <1>1, <3>1 DEF RecoveryInv, Recoverer, ResetStages
  <2>3. /\ rx'[recovery.c].pc = "live" /\ rx'[recovery.c].slot = rx[recovery.c].slot
        /\ rx'[recovery.c].epoch = rx[recovery.c].epoch
        /\ \A d \in Consumers : d # recovery.c => rx'[d] = rx[d]
    BY <1>1, <2>1, RxTo DEF ScanFinish, RxPcs
  <2>4. recovery'.stage # "free"
    BY <2>1 DEF NoRecovery
  <2> QED BY <1>0, <2>1, <2>2, <2>3, <2>4, EpochFrame
<1>2. CASE ~(ScanFinish(p) /\ Recoverer(p))
  <2>1. UNCHANGED <<table, rx, recovery>>
    BY <1>2 DEF ProducerStep, OpenProducer, ClaimLease, RecheckLease, TakeLease, Reopen, Seed, HasSpace,
       ScanSlot, ScanFinish, Publish, DropProducer, ReleaseLease, CrashProducer
  <2> QED BY <2>1 DEF EpochInv, EpochIdentifiesOccupancy
<1> QED BY <1>1, <1>2

\* A claim bumps the epoch of a slot that is free, so no claim has it yet; a
\* forced detach bumps it, and a release frees a slot that the reset either has
\* not loaded or loaded at this epoch.
LEMMA EpochConsumer ==
  ASSUME TypeOK, RecoveryInv, ParityInv, EpochInv, EpochIdentifiesOccupancy, GateTableAssumption,
         NEW c \in Consumers, ConsumerStep(c), TypeOK'
  PROVE  EpochInv' /\ EpochIdentifiesOccupancy'
<1> USE DEF region, gate, history
<1>0. /\ rx' \in [Consumers -> RxType] /\ rx \in [Consumers -> RxType]
      /\ recovery.slot \in Slots /\ recovery.epoch \in Nat
      /\ \A s \in Slots : table[s] \in SlotType /\ table[s].epoch \in Nat
      /\ \A d \in Consumers : rx[d] \in RxType /\ rx[d].slot \in Slots /\ rx[d].epoch \in Nat
  BY DEF TypeOK, RecoveryType, SlotType, RxType
<1>1. recovery' = recovery
  BY DEF ConsumerStep, OpenConsumer, ClaimSlot, StoreProvisional, LoadJoin, StoreJoin, StoreLease,
     RecheckClaim, release_table_claim, advance_one, flush_pending, DropConsumer, StoreSentinel,
     FreeSlot, ReleaseSlotLease, CrashConsumer, ForceDetach
<1> DEFINE SameSlots == \A s \in Slots : table'[s].epoch = table[s].epoch /\ table'[s].state = table[s].state
           Moves(d) == /\ rx'[d].slot = rx[d].slot \/ rx[d].epoch = 0
                       /\ rx'[d].epoch = rx[d].epoch
                       /\ rx'[d].pc \in {"out", "claim", "full"} => rx[d].pc \in {"out", "claim", "full"}
                       /\ recovery.stage = "free" /\ rx[d].pc \in Doomed => rx'[d].pc \in Doomed
\* What one handle does to itself and to the cursor or lease of a slot.
<1>2. ASSUME SameSlots, Moves(c), \A d \in Consumers : d # c => rx'[d] = rx[d]
      PROVE  EpochInv' /\ EpochIdentifiesOccupancy'
  BY <1>0, <1>1, <1>2, EpochFrame
<1>3. CASE OpenConsumer(c)
  <2>1. rx[c].pc = "out" /\ table' = table
    BY <1>3 DEF OpenConsumer
  <2>2. /\ rx'[c].slot = rx[c].slot /\ rx'[c].epoch = rx[c].epoch
        /\ \A d \in Consumers : d # c => rx'[d] = rx[d]
    <3>1. CASE closed
      BY <1>3, <3>1, RxTo DEF OpenConsumer, RxPcs
    <3>2. CASE ~closed
      BY <1>0, <1>3, <3>2 DEF OpenConsumer, RxType
    <3> QED BY <3>1, <3>2
  <2> QED BY <1>2, <2>1, <2>2 DEF Doomed
<1>4. CASE ClaimSlot(c)
  <2> DEFINE s == rx[c].slot
  <2>0. rx[c].pc = "claim" /\ rx[c].epoch = 0 /\ s \in Slots
    BY <1>0, <1>4 DEF ClaimSlot, EpochInv
  <2>1. CASE table[s].state = "FREE"
    <3>1. /\ table' = [table EXCEPT ![s].state = "ACTIVE", ![s].epoch = @ + 1]
          /\ rx' = [rx EXCEPT ![c].pc = "claimed", ![c].epoch = table[s].epoch + 1]
      BY <1>4, <2>1 DEF ClaimSlot
    <3>2. /\ table'[s].state = "ACTIVE" /\ table'[s].epoch = table[s].epoch + 1
          /\ \A t \in Slots : t # s => table'[t] = table[t]
      BY <1>0, <2>0, <3>1 DEF TypeOK, SlotType
    <3>3. /\ rx'[c].slot = s /\ rx'[c].epoch = table[s].epoch + 1 /\ rx'[c].pc = "claimed"
          /\ \A d \in Consumers : d # c => rx'[d] = rx[d]
      BY <1>0, <3>1 DEF RxType
    <3>4. EpochInv'
      <4>1. \A d \in Consumers : /\ rx'[d].pc \in {"out", "claim", "full"} => rx'[d].epoch = 0
                                 /\ rx'[d].epoch <= table'[rx'[d].slot].epoch
        BY <1>0, <2>0, <3>2, <3>3 DEF EpochInv
      <4>2. ASSUME recovery.stage = "free"
            PROVE  /\ table'[recovery.slot].state = "FREE" => table'[recovery.slot].epoch <= recovery.epoch
                   /\ \A d \in Consumers : rx'[d].slot = recovery.slot =>
                        /\ rx'[d].epoch <= recovery.epoch + 1
                        /\ rx'[d].epoch > recovery.epoch => rx'[d].pc \in Doomed
        BY <1>0, <2>0, <2>1, <3>2, <3>3, <4>2 DEF EpochInv, Doomed
      <4> QED BY <1>1, <4>1, <4>2 DEF EpochInv
    <3>5. EpochIdentifiesOccupancy'
      BY <1>0, <2>0, <3>3 DEF EpochInv, EpochIdentifiesOccupancy
    <3> QED BY <3>4, <3>5
  <2>2. CASE table[s].state # "FREE"
    <3>1. /\ table' = table
          /\ rx' = IF s < MaxSlots THEN [rx EXCEPT ![c].slot = s + 1]
                   ELSE [rx EXCEPT ![c].pc = IF Recoverer(c) THEN "full" ELSE "gone"]
      BY <1>4, <2>2 DEF ClaimSlot
    <3>2. /\ rx'[c].epoch = 0 /\ rx'[c].pc \in {"claim", "full", "gone"}
          /\ \A d \in Consumers : d # c => rx'[d] = rx[d]
      BY <1>0, <2>0, <3>1 DEF RxType
    <3> QED BY <1>2, <2>0, <3>1, <3>2 DEF Doomed
  <2> QED BY <2>1, <2>2
<1>5. CASE StoreProvisional(c) \/ StoreJoin(c) \/ StoreLease(c) \/ StoreSentinel(c) \/ ReleaseSlotLease(c)
  <2>1. SameSlots
    BY <1>0, <1>5
    DEF StoreProvisional, StoreJoin, StoreLease, StoreSentinel, ReleaseSlotLease, TypeOK, SlotType
  <2>2. StoreLease(c) /\ recovery.stage = "free" => ~Recoverer(c)
    <3>1. StoreLease(c) => rx[c].pc = "lease"
      BY DEF StoreLease
    <3>2. Recoverer(c) => c = recovery.c
      BY DEF Recoverer, RecoveryInv, GateTableAssumption
    <3> QED BY <3>1, <3>2 DEF RecoveryInv, Recoverer, ResetStages
  <2>3. PICK pc \in RxPcs : /\ rxTo(c, pc) /\ pc \notin {"out", "claim", "full"}
                            /\ recovery.stage = "free" /\ rx[c].pc \in Doomed => pc \in Doomed
    BY <1>5, <2>2
    DEF StoreProvisional, StoreJoin, StoreLease, StoreSentinel, ReleaseSlotLease, RxPcs, Doomed
  <2> QED BY <1>2, <2>1, <2>3, RxTo
<1>6. CASE LoadJoin(c)
  <2>1. /\ table' = table /\ rx'[c].slot = rx[c].slot /\ rx'[c].epoch = rx[c].epoch
        /\ rx'[c].pc = "joined" /\ \A d \in Consumers : d # c => rx'[d] = rx[d]
    BY <1>0, <1>6 DEF LoadJoin, RxType
  <2> QED BY <1>2, <2>1 DEF Doomed
<1>7. CASE RecheckClaim(c) \/ release_table_claim(c)
  <2>1. recovery.stage = "free" => generation # rx[c].gen
    BY DEF ParityInv, ResetStages
  <2>2. PICK pc \in RxPcs : /\ rxTo(c, pc) /\ pc \notin {"out", "claim", "full"}
                            /\ recovery.stage = "free" => pc \in Doomed
    BY <1>7, <2>1 DEF RecheckClaim, release_table_claim, RxPcs, Doomed
  <2>3. table' = table
    BY <1>7 DEF RecheckClaim, release_table_claim
  <2> QED BY <1>2, <2>2, <2>3, RxTo
<1>8. CASE advance_one(c) \/ flush_pending(c) \/ DropConsumer(c)
  <2>1. rx[c].pc = "live"
    BY <1>8 DEF advance_one, flush_pending, DropConsumer, Runs
  <2>2. SameSlots
    BY <1>0, <1>8 DEF advance_one, flush_pending, flush, DropConsumer, TypeOK, SlotType
  <2>3. /\ rx'[c].slot = rx[c].slot /\ rx'[c].epoch = rx[c].epoch
        /\ rx'[c].pc \in {"live", "sentinel", "gone"} /\ \A d \in Consumers : d # c => rx'[d] = rx[d]
    BY <1>0, <1>8, <2>1 DEF advance_one, flush_pending, flush, DropConsumer, RxType
  <2> QED BY <1>2, <2>1, <2>2, <2>3 DEF Doomed
<1>9. CASE FreeSlot(c)
  <2> DEFINE s == rx[c].slot
  <2>1. /\ rx[c].pc = "control" /\ rx'[c].pc = "unlease" /\ rx'[c].slot = s /\ rx'[c].epoch = rx[c].epoch
        /\ \A d \in Consumers : d # c => rx'[d] = rx[d]
    BY <1>9, RxTo DEF FreeSlot, RxPcs
  <2>2. \A t \in Slots : table'[t].epoch = table[t].epoch
    BY <1>0, <1>9 DEF FreeSlot, TypeOK, SlotType
  <2>3. \A t \in Slots : table'[t].state = "FREE" =>
          table[t].state = "FREE" \/ (t = s /\ table[t].epoch = rx[c].epoch)
    BY <1>0, <1>9 DEF FreeSlot, Occupies, TypeOK, SlotType
  <2>4. EpochInv'
    <3>1. \A d \in Consumers : /\ rx'[d].pc \in {"out", "claim", "full"} => rx'[d].epoch = 0
                               /\ rx'[d].epoch <= table'[rx'[d].slot].epoch
      BY <1>0, <2>1, <2>2 DEF EpochInv
    <3>2. ASSUME recovery.stage = "free"
          PROVE  /\ table'[recovery.slot].state = "FREE" => table'[recovery.slot].epoch <= recovery.epoch
                 /\ \A d \in Consumers : rx'[d].slot = recovery.slot =>
                      /\ rx'[d].epoch <= recovery.epoch + 1
                      /\ rx'[d].epoch > recovery.epoch => rx'[d].pc \in Doomed
      <4>1. s = recovery.slot => rx[c].epoch <= recovery.epoch
        BY <1>0, <2>1, <3>2 DEF EpochInv, Doomed
      <4>2. table'[recovery.slot].state = "FREE" => table'[recovery.slot].epoch <= recovery.epoch
        BY <1>0, <2>2, <2>3, <3>2, <4>1 DEF EpochInv
      <4>3. ASSUME NEW d \in Consumers, rx'[d].slot = recovery.slot
            PROVE  rx'[d].epoch <= recovery.epoch + 1 /\ (rx'[d].epoch > recovery.epoch => rx'[d].pc \in Doomed)
        BY <1>0, <2>1, <3>2, <4>1, <4>3 DEF EpochInv
      <4> QED BY <4>2, <4>3
    <3> QED BY <1>1, <3>1, <3>2 DEF EpochInv
  <2>5. EpochIdentifiesOccupancy'
    BY <2>1 DEF EpochIdentifiesOccupancy
  <2> QED BY <2>4, <2>5
<1>10. CASE CrashConsumer(c)
  <2>1. /\ table' = table /\ rx'[c].slot = rx[c].slot /\ rx'[c].epoch = rx[c].epoch
        /\ rx'[c].pc = "dead" /\ \A d \in Consumers : d # c => rx'[d] = rx[d]
    BY <1>0, <1>10 DEF CrashConsumer, RxType
  <2> QED BY <1>2, <2>1 DEF Doomed
<1>11. CASE ForceDetach(c)
  <2> DEFINE s == rx[c].slot
  <2>1. rx' = rx /\ table'[s].state = "RETIRED" /\ table'[s].epoch = table[s].epoch + 1
        /\ \A t \in Slots : t # s => table'[t] = table[t]
    BY <1>0, <1>11 DEF ForceDetach, TypeOK, SlotType
  <2>2. EpochInv'
    <3>1. \A d \in Consumers : rx[d].epoch <= table'[rx[d].slot].epoch
      BY <1>0, <2>1 DEF EpochInv
    <3>2. table'[recovery.slot].state = "FREE" => table'[recovery.slot] = table[recovery.slot]
      BY <1>0, <2>1
    <3> QED BY <1>1, <2>1, <3>1, <3>2 DEF EpochInv
  <2>3. EpochIdentifiesOccupancy'
    BY <2>1 DEF EpochIdentifiesOccupancy
  <2> QED BY <2>2, <2>3
<1> QED
  BY <1>3, <1>4, <1>5, <1>6, <1>7, <1>8, <1>9, <1>10, <1>11 DEF ConsumerStep

\* A reset leaves no epoch below that of a claim.
LEMMA EpochRecovery ==
  ASSUME TypeOK, RecoveryInv, EpochInv, EpochIdentifiesOccupancy, GateTableAssumption,
         RecoveryStep, TypeOK'
  PROVE  EpochInv' /\ EpochIdentifiesOccupancy'
<1> USE DEF region, gate, history
<1>0. /\ rx' \in [Consumers -> RxType] /\ rx \in [Consumers -> RxType]
      /\ recovery \in RecoveryType /\ recovery.slot \in Slots /\ recovery.epoch \in Nat
      /\ \A s \in Slots : table[s] \in SlotType /\ table[s].epoch \in Nat
      /\ \A d \in Consumers : rx[d] \in RxType /\ rx[d].slot \in Slots /\ rx[d].epoch \in Nat
      /\ Recovering => recovery.p \in Producers /\ recovery.c \in Consumers
  BY DEF TypeOK, RecoveryType, SlotType, RxType, RecoveryInv
<1>1. \A pass \in {"look", "sentinel"}, next \in {"sentinel", "close"} :
        NextSlot(pass, next).stage \in {pass, next} /\ NextSlot(pass, next) \in RecoveryType
  BY NextSlotType
<1>2. ASSUME NEW p \in Producers, NEW c \in Consumers, BeginRecovery(p, c)
      PROVE  EpochInv' /\ EpochIdentifiesOccupancy'
  <2>1. table' = table /\ rx' = rx /\ recovery'.stage # "free"
    BY <1>2 DEF BeginRecovery, NoRecovery
  <2> QED BY <1>0, <2>1, EpochFrame
<1>3. CASE OpenReset \/ RetryReset \/ ResetLook \/ ResetCursor \/ ResetSentinel \/ ResetLease
  <2>1. rx' = rx
    BY <1>3 DEF OpenReset, RetryReset, ResetLook, ResetCursor, ResetSentinel, ResetLease
  <2>2. \A s \in Slots : table'[s].epoch = table[s].epoch /\ table'[s].state = table[s].state
    BY <1>0, <1>3
    DEF OpenReset, RetryReset, ResetLook, ResetCursor, ResetSentinel, ResetLease, TypeOK, SlotType
  <2>3. recovery'.stage # "free"
    <3>1. CASE OpenReset \/ RetryReset
      BY <1>0, <3>1 DEF OpenReset, RetryReset, Reset, RecoveryType
    <3>2. CASE ResetLook \/ ResetCursor
      BY <1>0, <1>1, <3>2 DEF ResetLook, ResetCursor, RecoveryType
    <3>3. CASE ResetSentinel \/ ResetLease
      BY <1>0, <3>3 DEF ResetSentinel, ResetLease, Goto, RecoveryType
    <3> QED BY <1>3, <3>1, <3>2, <3>3
  <2> QED BY <1>0, <2>1, <2>2, <2>3, EpochFrame
\* The epoch that the reset loads is at or above that of every claim so far.
<1>4. CASE ResetLoadControl
  <2>1. /\ table' = table /\ rx' = rx /\ recovery'.slot = recovery.slot
        /\ recovery'.epoch = table[recovery.slot].epoch
    BY <1>0, <1>4 DEF ResetLoadControl, RecoveryType
  <2>2. EpochInv'
    BY <1>0, <2>1 DEF EpochInv
  <2>3. EpochIdentifiesOccupancy'
    BY <2>1 DEF EpochIdentifiesOccupancy
  <2> QED BY <2>2, <2>3
<1>5. CASE ResetFree
  <2>1. /\ rx' = rx /\ recovery.stage = "free"
        /\ table'[recovery.slot].epoch = recovery.epoch + 1
        /\ \A t \in Slots : t # recovery.slot => table'[t] = table[t]
    BY <1>0, <1>5 DEF ResetFree, Resetting, TypeOK, SlotType
  <2>2. recovery'.stage # "free"
    BY <1>1, <1>5 DEF ResetFree, RecoveryType
  <2>3. EpochInv'
    BY <1>0, <2>1, <2>2 DEF EpochInv
  <2>4. EpochIdentifiesOccupancy'
    BY <2>1 DEF EpochIdentifiesOccupancy
  <2> QED BY <2>3, <2>4
<1>6. CASE CloseReset
  <2>1. /\ Recovering /\ recovery.stage = "close" /\ rx[recovery.c].pc \in {"out", "full"}
        /\ recovery.c \in Consumers /\ table' = table
    BY <1>0, <1>6 DEF CloseReset, Resetting, Recovering, RecoveryInv, ResetStages
  <2>2. rx[recovery.c].epoch = 0
    BY <2>1 DEF EpochInv
  <2>3. CASE recovery.attempt = Attempts
    <3>1. /\ rx'[recovery.c].slot = rx[recovery.c].slot /\ rx'[recovery.c].epoch = 0
          /\ rx'[recovery.c].pc = "gone" /\ \A d \in Consumers : d # recovery.c => rx'[d] = rx[d]
      BY <1>6, <2>1, <2>2, <2>3, RxTo DEF CloseReset, RxPcs
    <3>2. recovery'.stage # "free"
      BY <1>6, <2>3 DEF CloseReset, NoRecovery
    <3> QED BY <1>0, <2>1, <2>2, <3>1, <3>2, EpochFrame
  <2>4. CASE recovery.attempt # Attempts
    <3>1. /\ rx'[recovery.c].epoch = 0 /\ rx'[recovery.c].pc = "claim"
          /\ \A d \in Consumers : d # recovery.c => rx'[d] = rx[d]
      BY <1>0, <1>6, <2>1, <2>2, <2>4 DEF CloseReset, RxType
    <3>2. recovery'.stage # "free"
      <4>1. recovery' = [recovery EXCEPT !.stage = "join", !.resume = Resume, !.max_lag = 0]
        BY <1>6, <2>4 DEF CloseReset
      <4> QED BY <1>0, <4>1 DEF RecoveryType
    <3> QED BY <1>0, <2>1, <2>2, <3>1, <3>2, EpochFrame
  <2> QED BY <2>3, <2>4
<1>7. CASE StoreResume
  <2>1. /\ recovery.c \in Consumers /\ recovery' = recovery /\ recovery.stage = "join"
        /\ \A s \in Slots : table'[s].epoch = table[s].epoch /\ table'[s].state = table[s].state
    BY <1>0, <1>7 DEF StoreResume, Resetting, Recovering, TypeOK, SlotType
  <2>2. /\ rx'[recovery.c].slot = rx[recovery.c].slot /\ rx'[recovery.c].epoch = rx[recovery.c].epoch
        /\ rx'[recovery.c].pc = "resumed" /\ \A d \in Consumers : d # recovery.c => rx'[d] = rx[d]
    BY <1>0, <1>7, <2>1 DEF StoreResume, RxType
  <2> QED BY <1>0, <2>1, <2>2, EpochFrame
<1>8. CASE CrashRecoverer
  <2>1. recovery.c \in Consumers /\ table' = table /\ recovery'.stage # "free"
    BY <1>0, <1>8 DEF CrashRecoverer, NoRecovery
  <2>2. /\ rx'[recovery.c].slot = rx[recovery.c].slot /\ rx'[recovery.c].epoch = rx[recovery.c].epoch
        /\ rx'[recovery.c].pc = "dead" /\ \A d \in Consumers : d # recovery.c => rx'[d] = rx[d]
    BY <1>8, <2>1, RxTo DEF CrashRecoverer, RxPcs
  <2> QED BY <1>0, <2>1, <2>2, EpochFrame DEF Doomed
<1> QED BY <1>2, <1>3, <1>4, <1>5, <1>6, <1>7, <1>8 DEF RecoveryStep

-----------------------------------------------------------------------------
\* After create_shm the invariant holds.
LEMMA Initial == ASSUME GateTableAssumption, Init PROVE IInv
<1>1. PICK p \in Producers, holder \in [1 .. Initially -> Consumers] :
        /\ \A s, t \in 1 .. Initially : holder[s] = holder[t] => s = t
        /\ producer_lease = p
        /\ tx = [q \in Producers |-> [pc |-> IF q = p THEN "live" ELSE "out", gen |-> 0]]
        /\ rx = [c \in Consumers |->
                   IF \E s \in 1 .. Initially : holder[s] = c
                   THEN [Outside EXCEPT !.pc = "live", !.epoch = 1,
                           !.slot = CHOOSE s \in 1 .. Initially : holder[s] = c]
                   ELSE Outside]
        /\ table = [s \in Slots |-> IF s \in 1 .. Initially
                      THEN [epoch |-> 1, state |-> "ACTIVE", cursor |-> 0, lease |-> holder[s]]
                      ELSE [epoch |-> IF s = 1 THEN 1 ELSE 0, state |-> "FREE", cursor |-> DETACHED,
                            lease |-> NoToken]]
  BY DEF Init
<1>2. /\ generation = 2 /\ ~closed /\ closed \in BOOLEAN /\ write_cursor = 0
      /\ cached_min = 0 /\ scan = NoScan /\ recovery = NoRecovery
      /\ cached_cursors = [s \in Slots |-> IF s = 1 THEN 0 ELSE 0 - Capacity]
      /\ written = 0 /\ revoked = {} /\ owed = {} /\ interrupted = FALSE
  BY DEF Init
<1>3. \A s \in 1 .. Initially : s \in Slots /\ holder[s] \in Consumers
  BY DEF GateTableAssumption, Slots
<1> DEFINE slot(c) == CHOOSE s \in 1 .. Initially : holder[s] = c
           Joined(c) == \E s \in 1 .. Initially : holder[s] = c
<1>4. \A c \in Consumers : Joined(c) => slot(c) \in 1 .. Initially /\ holder[slot(c)] = c /\ slot(c) \in Slots
  BY <1>3
<1> HIDE DEF slot
<1>5. Outside \in RxType /\ Outside.gen = 0 /\ Outside.epoch = 0 /\ Outside.pc = "out"
  <2>1. "out" \in RxPcs /\ 1 \in Slots
    BY DEF RxPcs, Slots, GateTableAssumption
  <2> QED BY <2>1 DEF Outside, RxType
<1>6. \A c \in Consumers : rx[c] = IF Joined(c) THEN [Outside EXCEPT !.pc = "live", !.epoch = 1, !.slot = slot(c)]
                                   ELSE Outside
  BY <1>1 DEF slot
<1>7. \A c \in Consumers : /\ rx[c] \in RxType /\ rx[c].gen = 0
                           /\ Joined(c) => rx[c].slot = slot(c) /\ rx[c].epoch = 1 /\ rx[c].pc = "live"
                           /\ ~Joined(c) => rx[c] = Outside
  <2> SUFFICES ASSUME NEW c \in Consumers
      PROVE  /\ rx[c] \in RxType /\ rx[c].gen = 0
             /\ Joined(c) => rx[c].slot = slot(c) /\ rx[c].epoch = 1 /\ rx[c].pc = "live"
             /\ ~Joined(c) => rx[c] = Outside
    OBVIOUS
  <2>1. CASE Joined(c)
    <3>1. "live" \in RxPcs /\ slot(c) \in Slots
      BY <1>4, <2>1 DEF RxPcs
    <3>2. rx[c] = [Outside EXCEPT !.pc = "live", !.epoch = 1, !.slot = slot(c)]
      BY <1>6, <2>1
    <3>3. rx[c] \in RxType
      <4> DEFINE at == slot(c)
      <4>1. Outside \in RxType /\ at \in Slots /\ "live" \in RxPcs /\ 1 \in Nat
        BY <1>5, <3>1
      <4>2. rx[c] = [Outside EXCEPT !.pc = "live", !.epoch = 1, !.slot = at]
        BY <3>2
      <4> HIDE DEF at
      <4> QED BY <4>1, <4>2 DEF RxType
    <3>4. rx[c].gen = 0 /\ rx[c].slot = slot(c) /\ rx[c].epoch = 1 /\ rx[c].pc = "live"
      BY <1>5, <3>2 DEF RxType
    <3> QED BY <2>1, <3>3, <3>4
  <2>2. CASE ~Joined(c)
    BY <1>5, <1>6, <2>2
  <2> QED BY <2>1, <2>2
<1>8. TypeOK
  <2>1. tx \in [Producers -> TxType] /\ producer_lease \in Producers \union {NoToken}
    BY <1>1 DEF TxType, TxPcs
  <2>2. rx \in [Consumers -> RxType]
    BY <1>1, <1>7
  <2>3. table \in [Slots -> SlotType]
    BY <1>1, <1>3 DEF SlotType
  <2>4. cached_cursors \in [Slots -> Int]
    <3>1. Capacity \in Nat /\ 0 - Capacity \in Int
      BY DEF GateTableAssumption
    <3> QED BY <1>2, <3>1
  <2>5. scan \in ScanType /\ recovery \in RecoveryType
    BY <1>2, ScanReset, NoRecoveryType
  <2>6. /\ generation \in Nat /\ write_cursor \in Nat /\ written \in Nat /\ cached_min \in Int
        /\ revoked \subseteq Consumers /\ owed \subseteq Consumers
    BY <1>2
  <2> QED BY <1>2, <2>1, <2>2, <2>3, <2>4, <2>5, <2>6 DEF TypeOK
<1>9. LeaseInv
  BY <1>1, <1>2 DEF LeaseInv, HasLease, Operating
<1>10. RecoveryInv
  BY <1>2 DEF RecoveryInv, Recovering, NoRecovery
<1>11. ParityInv
  BY <1>2, <1>7 DEF ParityInv, NoRecovery, Even, ResetStages
<1>12. EpochInv
  <2>1. ASSUME NEW c \in Consumers, Joined(c) PROVE table[rx[c].slot].epoch = 1
    <3>1. rx[c].slot = slot(c) /\ slot(c) \in Slots /\ slot(c) \in 1 .. Initially
      BY <1>4, <1>7, <2>1
    <3> QED BY <1>1, <3>1
  <2>2. \A c \in Consumers : table[rx[c].slot].epoch \in Nat
    BY <1>7, <1>8 DEF TypeOK, RxType, SlotType
  <2> QED BY <1>2, <1>5, <1>7, <2>1, <2>2 DEF EpochInv, NoRecovery
<1>13. EpochIdentifiesOccupancy
  BY <1>4, <1>5, <1>7 DEF EpochIdentifiesOccupancy
<1> QED BY <1>8, <1>9, <1>10, <1>11, <1>12, <1>13 DEF IInv

\* The invariant is inductive: every step of every handle and of a recovery
\* keeps it.
THEOREM Invariance == Spec => []IInv
<1> USE GateTableAssumption
<1>1. Init => IInv
  BY Initial
<1>2. IInv /\ [Next]_vars => IInv'
  <2> SUFFICES ASSUME IInv, [Next]_vars PROVE IInv'
    OBVIOUS
  <2>0. TypeOK /\ LeaseInv /\ RecoveryInv /\ ParityInv /\ EpochInv /\ EpochIdentifiesOccupancy
    BY DEF IInv
  <2>1. ASSUME NEW p \in Producers, ProducerStep(p) PROVE IInv'
    <3>1. TypeOK'
      BY <2>0, <2>1, ProducerTypes
    <3> QED BY <2>0, <2>1, <3>1, LeaseProducer, RecoveryProducer, ParityProducer, EpochProducer DEF IInv
  <2>2. ASSUME NEW c \in Consumers, ConsumerStep(c) PROVE IInv'
    <3>1. TypeOK'
      BY <2>0, <2>2, ConsumerTypes
    <3> QED BY <2>0, <2>2, <3>1, LeaseConsumer, RecoveryConsumer, ParityConsumer, EpochConsumer DEF IInv
  <2>3. CASE RecoveryStep
    <3>1. TypeOK'
      BY <2>0, <2>3, RecoveryTypes
    <3> QED BY <2>0, <2>3, <3>1, LeaseRecovery, RecoverySteps, ParityRecovery, EpochRecovery DEF IInv
  <2>4. CASE UNCHANGED vars
    BY <2>0, <2>4 DEF vars, region, gate, history, IInv, TypeOK, LeaseInv, HasLease, Operating,
       RecoveryInv, Recovering, ParityInv, EpochInv, EpochIdentifiesOccupancy
  <2> QED BY <2>1, <2>2, <2>3, <2>4 DEF Next
<1> QED BY <1>1, <1>2, PTL DEF Spec

\* Every variable of the region and of the handles stays in its domain, whatever
\* the number of slots, handles and faults.
THEOREM TypeCorrect == Spec => []TypeOK
<1>1. IInv => TypeOK
  BY DEF IInv
<1> QED BY <1>1, Invariance, PTL

\* However the role changes hands (attach, takeover, recovery, late drop), one
\* handle acts as the producer, holds the lease and works on an open ring.
THEOREM OneProducer == Spec => []ProducerIsAlone
<1>1. IInv => ProducerIsAlone
  BY DEF IInv, LeaseInv, HasLease, ProducerIsAlone
<1> QED BY <1>1, Invariance, PTL

\* No two claims of a slot have the same epoch, whichever of them a reset or a
\* forced detach overtakes.
THEOREM EpochsDiffer == Spec => []EpochIdentifiesOccupancy
<1>1. IInv => EpochIdentifiesOccupancy
  BY DEF IInv
<1> QED BY <1>1, Invariance, PTL

-----------------------------------------------------------------------------
(* The gate: whichever handle is the producer, and however it came by the     *)
(* role, it never overwrites what a consumer it must honour has yet to read,  *)
(* and no such consumer loses its slot.  The attach/recover races of `Races`  *)
(* are excluded: with them it is false (the runs of MCGateTableClobber and    *)
(* MCGateTableTornResume).                                                    *)

\* A claim that its re-check will let stand, and the handles it leads to.
Current(c) ==
  \/ rx[c].pc \in Mid_claim \union {"recheck"} /\ (rx[c].gen = generation \/ Recoverer(c))
  \/ rx[c].pc \in {"resume", "resumed"}
  \/ rx[c].pc = "live" /\ c \notin revoked
Reading(c) == Current(c) /\ rx[c].pc \notin {"claimed", "fenced"}
Holds(c) == rx[c].pc \in Mid_claim \/ Current(c)

\* A handle that may still store to its slot, or to its slot's control word.
Engaged(c) ==
  Holds(c) \/ rx[c].pc \in {"sentinel", "control"} \/ (rx[c].pc = "live" /\ owns_slot(c))

\* No snapshot is of a later generation, and a reset outdates them all.
SnapshotInv ==
  \A c \in Consumers :
    /\ rx[c].gen <= generation
    /\ rx[c].pc = "rollback" \/ recovery.stage \in ResetStages \union {"join"} => rx[c].gen < generation

\* While a reset works on the table no handle is between its claim and its
\* re-check, or leaving, and no live one is honoured.
ResetInv ==
  /\ recovery.stage \in ResetStages => \A c \in Consumers :
       \/ rx[c].pc \in {"out", "claim", "recheck", "rollback", "live", "gone", "dead"}
       \/ rx[c].pc = "full" /\ c = recovery.c
  /\ recovery.stage \in ResetStages \union {"join"} => \A c \in Consumers :
       rx[c].pc = "live" => c \in revoked
  /\ recovery.stage \in {"control", "free"} => table[recovery.slot].lease = NoToken

\* A holder occupies its slot.  One that leaves or, being revoked, flushes may
\* find its slot retired, but never another's.
HoldOf(c) ==
  /\ rx[c].pc \notin {"out", "claim", "full", "gone", "dead"} => rx[c].epoch >= 1
  /\ Holds(c) => Occupies(c)
  /\ Current(c) /\ rx[c].pc \notin Mid_claim => owns_slot(c)
  /\ Engaged(c) => Occupies(c) \/ table[rx[c].slot].state = "RETIRED"
HoldInv == \A c \in Consumers : HoldOf(c)

\* What a scan finds in the slot of a holder is at or before its read position.
CursorOf(c) ==
  /\ Current(c) /\ rx[c].pc = "fenced" => table[rx[c].slot].cursor \in 0 .. write_cursor
  /\ Reading(c) =>
       /\ table[rx[c].slot].cursor \in 0 .. rx[c].read
       /\ rx[c].read <= write_cursor /\ write_cursor - rx[c].read <= Capacity
CursorInv == \A c \in Consumers : CursorOf(c)

\* Nobody is ahead of the producer.
BehindInv ==
  /\ \A c \in Consumers : rx[c].read <= write_cursor
  /\ \A s \in Slots : table[s].cursor <= write_cursor

\* The resume point is within a ring of the write cursor.
ResumeInv ==
  /\ recovery.stage = "take" => recovery.attempt = 0
  /\ recovery.stage \in ResetStages => recovery.max_lag <= Capacity
  /\ recovery.stage = "join" \/ (recovery.stage \in ResetStages /\ recovery.attempt > 0) =>
       recovery.resume <= write_cursor /\ write_cursor - recovery.resume <= Capacity

TableInv == SnapshotInv /\ ResetInv /\ HoldInv /\ CursorInv /\ BehindInv /\ ResumeInv

\* A consumer that died registered, whose backlog a recovery is to deliver; after
\* one that was interrupted, none is.
Awaits(c) == c \in owed /\ ~interrupted
\* The consumers whose stored cursor holds the producer back: the dead do until a
\* recovery has taken the role and resets the table.
Standing(c) ==
  \/ Current(c) /\ rx[c].pc # "claimed"
  \/ Awaits(c) /\ recovery.stage \in {"none", "take"}
CursorAt(c) == table[rx[c].slot].cursor

Gating(p) == tx[p].pc \in {"first_scan", "live", "scan", "granted"}
\* What the producer has cached, and what its scan has found so far, is at or
\* before the cursor of everyone standing.
GateOf(p, c) ==
  /\ Gating(p) => cached_min <= CursorAt(c) /\ cached_cursors[rx[c].slot] <= CursorAt(c)
  /\ Scanning(p) /\ rx[c].slot < scan.slot =>
       /\ write_cursor - scan.max_lag <= CursorAt(c)
       /\ ~scan.any_active => CursorAt(c) = write_cursor
  /\ tx[p].pc = "granted" => write_cursor + 1 - CursorAt(c) <= Capacity
InRing(c) == CursorAt(c) \in 0 .. write_cursor /\ write_cursor - CursorAt(c) <= Capacity
GateInv ==
  /\ cached_min <= write_cursor /\ \A s \in Slots : cached_cursors[s] <= write_cursor
  /\ (\A p \in Producers : ~Scanning(p)) => scan = NoScan
  /\ \A c \in Consumers : Standing(c) => InRing(c) /\ \A p \in Producers : GateOf(p, c)

\* A backlog that the first pass of a reset has yet to come to, and one that its
\* resume point allows for.
Unseen(c) ==
  /\ Occupies(c) /\ rx[c].epoch >= 1
  /\ CursorAt(c) \in 0 .. rx[c].read /\ write_cursor - CursorAt(c) <= Capacity
Seen(c) == write_cursor - recovery.max_lag <= rx[c].read
Settles(c) ==
  /\ rx[c].pc \in {"dead", "live"}
  /\ recovery.stage \in {"none", "take"} => rx[c].pc = "dead" /\ Unseen(c)
  /\ recovery.stage \in {"look", "cursor"} /\ recovery.attempt = 0 =>
       Seen(c) \/ (recovery.slot <= rx[c].slot /\ Unseen(c))
  /\ recovery.stage \in ResetStages \ {"look", "cursor"} /\ recovery.attempt = 0 => Seen(c)
  /\ recovery.stage = "join" \/ (recovery.stage \in ResetStages /\ recovery.attempt > 0) =>
       recovery.resume <= rx[c].read
  /\ recovery.stage = "join" => rx[recovery.c].pc # "resumed"
OwedInv == \A c \in Consumers : Awaits(c) => Settles(c)

-----------------------------------------------------------------------------
\* A handle that may store to its slot shares it with no other occupant.
LEMMA Apart ==
  ASSUME IInv, HoldInv, NEW c \in Consumers, NEW d \in Consumers, c # d,
         Engaged(c), Holds(d) \/ Occupies(d)
  PROVE  rx[c].slot # rx[d].slot
<1>1. Occupies(d)
  BY DEF HoldInv, HoldOf
<1>2. SUFFICES ASSUME rx[c].slot = rx[d].slot PROVE FALSE
  OBVIOUS
<1>3. Occupies(c)
  BY <1>1, <1>2 DEF HoldInv, HoldOf, Occupies
<1>4. rx[c].epoch >= 1
  BY DEF HoldInv, HoldOf, Engaged, Holds, Current, Mid_claim
<1>5. rx[c].epoch \in Nat /\ rx[c].epoch = rx[d].epoch
  BY <1>1, <1>2, <1>3 DEF Occupies, IInv, TypeOK, RxType
<1> QED BY <1>2, <1>4, <1>5 DEF IInv, EpochIdentifiesOccupancy

\* No claim lands on the slot of a handle that may still store to it.
LEMMA NotFree ==
  ASSUME HoldInv, NEW c \in Consumers, Engaged(c)
  PROVE  table[rx[c].slot].state # "FREE"
BY DEF HoldInv, HoldOf, Occupies

\* A step leaves a handle what it has: where it may store, the control word is
\* the same and the lease is still its own.
LEMMA HoldFrame ==
  ASSUME TypeOK, NEW c \in Consumers, HoldOf(c), rx'[c] = rx[c], generation' = generation,
         revoked \subseteq revoked', Recoverer(c)' => Recoverer(c),
         table'[rx[c].slot].lease = c => table[rx[c].slot].lease = c,
         Engaged(c) => /\ table'[rx[c].slot].epoch = table[rx[c].slot].epoch
                       /\ table'[rx[c].slot].state = table[rx[c].slot].state
                       /\ table[rx[c].slot].lease = c => table'[rx[c].slot].lease = c
  PROVE  HoldOf(c)' /\ (Current(c)' => Current(c))
<1>1. Current(c)' => Current(c)
  BY DEF Current
<1>2. Holds(c)' => Holds(c)
  BY <1>1 DEF Holds
<1>3. Engaged(c)' => Engaged(c)
  BY <1>2 DEF Engaged, owns_slot
<1>4. HoldOf(c)'
  BY <1>1, <1>2, <1>3 DEF HoldOf, Occupies, owns_slot, Engaged, Holds
<1> QED BY <1>1, <1>4

\* A step leaves the cursor of a holder what it is.
LEMMA CursorFrame ==
  ASSUME TypeOK, NEW c \in Consumers, CursorOf(c), rx'[c] = rx[c], write_cursor' = write_cursor,
         Current(c)' => Current(c),
         Current(c) => table'[rx[c].slot].cursor = table[rx[c].slot].cursor
  PROVE  CursorOf(c)'
BY DEF CursorOf, Reading

-----------------------------------------------------------------------------
\* The consumers' steps.

\* A consumer takes no snapshot during a recovery, and none of a later generation.
LEMMA SnapshotConsumer ==
  ASSUME Races = {}, IInv, SnapshotInv, GateTableAssumption, NEW c \in Consumers, ConsumerStep(c)
  PROVE  SnapshotInv'
<1> USE DEF region, gate, history
<1>0. /\ rx[c] \in RxType /\ rx[c].gen \in Nat /\ generation \in Nat
      /\ rx[c].gen <= generation
      /\ rx[c].pc = "rollback" \/ recovery.stage \in ResetStages \union {"join"} => rx[c].gen < generation
  BY DEF IInv, TypeOK, RxType, SnapshotInv
<1>1. /\ generation' = generation /\ recovery' = recovery
      /\ \A d \in Consumers : d # c => rx'[d] = rx[d]
  BY OneConsumer DEF IInv
<1>2. SUFFICES /\ rx'[c].gen <= generation
               /\ rx'[c].pc = "rollback" \/ recovery.stage \in ResetStages \union {"join"}
                    => rx'[c].gen < generation
  BY <1>1 DEF SnapshotInv
<1>3. CASE OpenConsumer(c)
  <2>1. recovery.stage = "none" /\ rx'[c].pc # "rollback" /\ rx'[c].gen \in {0, rx[c].gen, generation}
    <3>1. recovery.stage = "none"
      BY <1>3 DEF OpenConsumer, Recovering
    <3>2. CASE closed
      BY <1>3, <3>1, <3>2, RxTo DEF OpenConsumer, RxPcs, IInv
    <3>3. CASE ~closed
      BY <1>0, <1>3, <3>1, <3>3 DEF OpenConsumer, IInv, TypeOK, RxType
    <3> QED BY <3>2, <3>3
  <2> QED BY <1>0, <2>1 DEF ResetStages
<1>4. CASE ~OpenConsumer(c)
  <2>1. /\ rx'[c].gen \in {0, rx[c].gen}
        /\ rx'[c].pc = "rollback" => rx[c].gen # generation
    <3>1. CASE ClaimSlot(c)
      BY <1>0, <3>1 DEF ClaimSlot, IInv, TypeOK, RxType
    <3>2. CASE LoadJoin(c)
      BY <1>0, <3>2 DEF LoadJoin, IInv, TypeOK, RxType
    <3>3. CASE advance_one(c) \/ flush_pending(c) \/ DropConsumer(c)
      <4>1. rx[c].pc = "live"
        BY <3>3 DEF advance_one, flush_pending, DropConsumer, Runs
      <4> QED BY <1>0, <3>3, <4>1 DEF advance_one, flush_pending, flush, DropConsumer, IInv, TypeOK, RxType
    <3>4. CASE CrashConsumer(c)
      BY <1>0, <3>4 DEF CrashConsumer, IInv, TypeOK, RxType
    <3>5. CASE StoreProvisional(c) \/ StoreJoin(c) \/ StoreLease(c) \/ release_table_claim(c)
               \/ StoreSentinel(c) \/ FreeSlot(c) \/ ReleaseSlotLease(c) \/ RecheckClaim(c)
      <4>1. PICK pc \in RxPcs : rxTo(c, pc) /\ (pc = "rollback" => rx[c].gen # generation)
        BY <3>5 DEF StoreProvisional, StoreJoin, StoreLease, RecheckClaim, release_table_claim,
           StoreSentinel, FreeSlot, ReleaseSlotLease, RxPcs
      <4> QED BY <4>1, RxTo DEF IInv
    <3>6. CASE ForceDetach(c)
      BY <1>0, <3>6 DEF ForceDetach
    <3> QED BY <1>4, <3>1, <3>2, <3>3, <3>4, <3>5, <3>6 DEF ConsumerStep
  <2> QED BY <1>0, <2>1
<1> QED BY <1>3, <1>4

\* During a reset a consumer can be rolled back, or die, and no more.
LEMMA ResetConsumer ==
  ASSUME Races = {}, IInv, SnapshotInv, ResetInv, GateTableAssumption,
         NEW c \in Consumers, ConsumerStep(c)
  PROVE  ResetInv'
<1> USE DEF region, gate, history
<1>0. /\ rx[c] \in RxType /\ TypeOK /\ generation \in Nat /\ rx[c].gen \in Nat
      /\ recovery.stage \in ResetStages => ~Even(generation)
      /\ recovery.stage \in ResetStages \union {"join"} => rx[c].gen < generation /\ Recovering
      /\ recovery.slot \in Slots
  BY DEF IInv, TypeOK, RxType, ParityInv, SnapshotInv, Recovering, RecoveryType, ResetStages
<1>1. /\ recovery' = recovery /\ revoked \subseteq revoked'
      /\ \A d \in Consumers : d # c => rx'[d] = rx[d]
  BY <1>0, OneConsumer
<1>2. ASSUME recovery.stage \in ResetStages
      PROVE  /\ \/ rx'[c].pc \in {"out", "claim", "recheck", "rollback", "live", "gone", "dead"}
                \/ rx'[c].pc = "full" /\ c = recovery.c
             /\ rx'[c].pc = "live" => c \in revoked'
             /\ \A s \in Slots : table'[s].lease = table[s].lease
  <2>1. CASE RecheckClaim(c) \/ release_table_claim(c)
    <3>1. \E pc \in {"rollback", "gone"} : rxTo(c, pc)
      BY <1>0, <1>2, <2>1 DEF RecheckClaim, release_table_claim
    <3>2. rx'[c].pc \in {"rollback", "gone"} /\ table' = table
      BY <1>0, <2>1, <3>1, RxTo DEF RxPcs, RecheckClaim, release_table_claim
    <3> QED BY <3>2
  <2>2. CASE CrashConsumer(c)
    BY <1>0, <2>2 DEF CrashConsumer, TypeOK, RxType
  <2>3. CASE ForceDetach(c)
    <3>1. \A s \in Slots : table'[s].lease = table[s].lease
      BY <1>0, <2>3 DEF ForceDetach, TypeOK, SlotType
    <3>2. rx' = rx
      BY <2>3 DEF ForceDetach
    <3> QED BY <1>1, <1>2, <3>1, <3>2 DEF ResetInv
  <2> QED BY <1>0, <1>2, <2>1, <2>2, <2>3
      DEF ConsumerStep, OpenConsumer, ClaimSlot, StoreProvisional, LoadJoin, StoreJoin, StoreLease,
          advance_one, flush_pending, DropConsumer, Runs, StoreSentinel, FreeSlot, ReleaseSlotLease,
          ResetInv
<1>3. ASSUME recovery.stage = "join", rx'[c].pc = "live" PROVE c \in revoked'
  <2>1. rx[c].pc = "live"
    <3>1. CASE RecheckClaim(c) \/ release_table_claim(c)
      <4>1. \E pc \in {"rollback", "gone"} : rxTo(c, pc)
        BY <1>0, <1>3, <3>1 DEF RecheckClaim, release_table_claim
      <4> QED BY <1>0, <1>3, <4>1, RxTo DEF RxPcs
    <3>2. CASE advance_one(c) \/ flush_pending(c) \/ DropConsumer(c)
      BY <3>2 DEF advance_one, flush_pending, DropConsumer, Runs
    <3>3. CASE OpenConsumer(c) \/ ClaimSlot(c) \/ LoadJoin(c) \/ CrashConsumer(c)
      <4>1. rx'[c].pc # "live"
        <5>1. CASE OpenConsumer(c)
          BY <1>0, <1>3, <5>1 DEF OpenConsumer
        <5>2. CASE ClaimSlot(c)
          BY <1>0, <5>2 DEF ClaimSlot, TypeOK, RxType
        <5>3. CASE LoadJoin(c) \/ CrashConsumer(c)
          BY <1>0, <5>3 DEF LoadJoin, CrashConsumer, TypeOK, RxType
        <5> QED BY <3>3, <5>1, <5>2, <5>3
      <4> QED BY <1>3, <4>1
    <3>4. CASE StoreProvisional(c) \/ StoreJoin(c) \/ StoreLease(c)
               \/ StoreSentinel(c) \/ FreeSlot(c) \/ ReleaseSlotLease(c)
      <4>1. \E pc \in RxPcs \ {"live"} : rxTo(c, pc)
        BY <3>4 DEF StoreProvisional, StoreJoin, StoreLease, StoreSentinel, FreeSlot, ReleaseSlotLease, RxPcs
      <4> QED BY <1>0, <1>3, <4>1, RxTo
    <3>5. CASE ForceDetach(c)
      BY <1>3, <3>5 DEF ForceDetach
    <3> QED BY <3>1, <3>2, <3>3, <3>4, <3>5 DEF ConsumerStep
  <2> QED BY <1>1, <1>3, <2>1 DEF ResetInv
<1> QED BY <1>0, <1>1, <1>2, <1>3 DEF ResetInv, ResetStages

\* Whatever one consumer does, it and all the others keep what they hold.
LEMMA HoldConsumer ==
  ASSUME IInv, SnapshotInv, HoldInv, GateTableAssumption, NEW c \in Consumers, ConsumerStep(c)
  PROVE  HoldInv' /\ \A d \in Consumers : d # c => (Current(d)' => Current(d))
<1> USE DEF region, gate, history
<1>0. /\ TypeOK /\ rx[c] \in RxType /\ rx[c].slot \in Slots /\ HoldOf(c)
      /\ \A s \in Slots : table[s] \in SlotType /\ table[s].epoch \in Nat
      /\ rx[c].pc = "rollback" => rx[c].gen # generation
      /\ rx[c].gen \in Nat /\ generation \in Nat /\ rx[c].epoch \in Nat
      /\ \A d \in Consumers : rx[d].slot \in Slots
      /\ NoToken \notin Consumers
  BY DEF IInv, TypeOK, RxType, SlotType, HoldInv, SnapshotInv, GateTableAssumption
<1>1. /\ generation' = generation /\ recovery' = recovery /\ revoked \subseteq revoked'
      /\ \A d \in Consumers : d # c => rx'[d] = rx[d]
  BY <1>0, OneConsumer
<1> DEFINE s == rx[c].slot
           Same(t) == /\ table'[t].epoch = table[t].epoch /\ table'[t].state = table[t].state
                      /\ table'[t].lease = table[t].lease
           Kept(d) == /\ table'[rx[d].slot].lease = d => table[rx[d].slot].lease = d
                      /\ Engaged(d) => /\ table'[rx[d].slot].epoch = table[rx[d].slot].epoch
                                       /\ table'[rx[d].slot].state = table[rx[d].slot].state
                                       /\ table[rx[d].slot].lease = d => table'[rx[d].slot].lease = d
\* The others follow from what becomes of their slots.
<1>2. ASSUME HoldOf(c)', \A d \in Consumers : d # c => Kept(d)
      PROVE  HoldInv' /\ \A d \in Consumers : d # c => (Current(d)' => Current(d))
  <2>1. ASSUME NEW d \in Consumers, d # c PROVE HoldOf(d)' /\ (Current(d)' => Current(d))
    <3>1. HoldOf(d) /\ (Recoverer(d)' => Recoverer(d))
      BY <1>1 DEF HoldInv, Recoverer, Recovering
    <3> QED BY <1>0, <1>1, <1>2, <2>1, <3>1, HoldFrame
  <2> QED BY <1>2, <2>1 DEF HoldInv
<1>3. ASSUME HoldOf(c)', \A t \in Slots : Same(t)
      PROVE  HoldInv' /\ \A d \in Consumers : d # c => (Current(d)' => Current(d))
  BY <1>0, <1>2, <1>3
\* A handle that has left is no holder.
<1>4. ASSUME rx'[c].pc \in {"out", "claim", "full", "gone", "dead"} PROVE HoldOf(c)'
  BY <1>4 DEF HoldOf, Engaged, Holds, Current, Mid_claim
<1>5. CASE OpenConsumer(c)
  <2>1. rx'[c].pc \in {"claim", "gone"} /\ table' = table
    <3>1. CASE closed
      BY <1>0, <1>5, <3>1, RxTo DEF OpenConsumer, RxPcs
    <3>2. CASE ~closed
      BY <1>0, <1>5, <3>2 DEF OpenConsumer, TypeOK, RxType
    <3> QED BY <3>1, <3>2
  <2> QED BY <1>3, <1>4, <2>1
<1>6. CASE ClaimSlot(c)
  <2>1. CASE table[s].state = "FREE"
    <3>1. /\ table' = [table EXCEPT ![s].state = "ACTIVE", ![s].epoch = @ + 1]
          /\ rx' = [rx EXCEPT ![c].pc = "claimed", ![c].epoch = table[s].epoch + 1]
      BY <1>6, <2>1 DEF ClaimSlot
    <3>2. /\ table'[s].state = "ACTIVE" /\ table'[s].epoch = table[s].epoch + 1
          /\ table'[s].lease = table[s].lease
          /\ \A t \in Slots : t # s => table'[t] = table[t]
      BY <1>0, <3>1 DEF TypeOK, SlotType
    <3>3. rx'[c].slot = s /\ rx'[c].epoch = table[s].epoch + 1 /\ rx'[c].pc = "claimed"
      BY <1>0, <3>1 DEF TypeOK, RxType
    <3>4. HoldOf(c)'
      BY <1>0, <3>2, <3>3 DEF HoldOf, Occupies, Mid_claim
    <3>5. ASSUME NEW d \in Consumers, d # c PROVE Kept(d)
      <4>1. Engaged(d) => rx[d].slot # s
        BY <2>1, NotFree
      <4> QED BY <1>0, <3>2, <4>1
    <3> QED BY <1>2, <3>4, <3>5
  <2>2. CASE table[s].state # "FREE"
    <3>1. rx[c].pc = "claim" /\ table' = table
          /\ rx' = IF s < MaxSlots THEN [rx EXCEPT ![c].slot = s + 1]
                   ELSE [rx EXCEPT ![c].pc = IF Recoverer(c) THEN "full" ELSE "gone"]
      BY <1>6, <2>2 DEF ClaimSlot
    <3>2. rx'[c].pc \in {"claim", "full", "gone"}
      BY <1>0, <3>1 DEF TypeOK, RxType
    <3> QED BY <1>3, <1>4, <3>1, <3>2
  <2> QED BY <2>1, <2>2
<1>7. CASE StoreProvisional(c) \/ LoadJoin(c) \/ StoreJoin(c)
  <2>1. rx[c].pc \in Mid_claim
    BY <1>7 DEF StoreProvisional, LoadJoin, StoreJoin, Mid_claim
  <2>2. \A t \in Slots : Same(t)
    BY <1>0, <1>7 DEF StoreProvisional, LoadJoin, StoreJoin, TypeOK, SlotType
  <2>3. rx'[c].pc \in Mid_claim /\ rx'[c].slot = s /\ rx'[c].epoch = rx[c].epoch
    <3>1. CASE LoadJoin(c)
      BY <1>0, <3>1 DEF LoadJoin, TypeOK, RxType, Mid_claim
    <3>2. CASE StoreProvisional(c) \/ StoreJoin(c)
      <4>1. \E pc \in {"fenced", "lease"} : rxTo(c, pc)
        BY <3>2 DEF StoreProvisional, StoreJoin
      <4> QED BY <1>0, <4>1, RxTo DEF RxPcs, Mid_claim
    <3> QED BY <1>7, <3>1, <3>2
  <2>4. HoldOf(c)'
    BY <1>0, <2>1, <2>2, <2>3 DEF HoldOf, Holds, Occupies, Mid_claim
  <2> QED BY <1>3, <2>2, <2>4
<1>8. CASE StoreLease(c)
  <2>1. /\ rx'[c].pc \in {"resume", "recheck"} /\ rx'[c].slot = s /\ rx'[c].epoch = rx[c].epoch
        /\ rx[c].pc \in Mid_claim
    BY <1>0, <1>8, RxTo DEF StoreLease, RxPcs, Mid_claim
  <2>2. /\ table'[s].lease = c /\ table'[s].state = table[s].state /\ table'[s].epoch = table[s].epoch
        /\ \A t \in Slots : t # s => table'[t] = table[t]
    BY <1>0, <1>8 DEF StoreLease, TypeOK, SlotType
  <2>3. HoldOf(c)'
    BY <1>0, <2>1, <2>2 DEF HoldOf, Holds, Occupies, owns_slot, Mid_claim
  <2>4. ASSUME NEW d \in Consumers, d # c PROVE Kept(d)
    <3>1. Engaged(d) => rx[d].slot # s
      BY <2>1, <2>4, Apart DEF Holds
    <3> QED BY <1>0, <2>2, <2>4, <3>1
  <2> QED BY <1>2, <2>3, <2>4
<1>9. CASE RecheckClaim(c)
  <2>1. /\ rx[c].pc = "recheck" /\ table' = table /\ rx'[c].slot = s /\ rx'[c].epoch = rx[c].epoch
        /\ rx'[c].pc = IF generation = rx[c].gen THEN "live" ELSE "rollback"
    BY <1>0, <1>9, RxTo DEF RecheckClaim, RxPcs
  <2>2. HoldOf(c)'
    BY <1>0, <2>1 DEF HoldOf, Engaged, Holds, Current, Occupies, owns_slot, Mid_claim
  <2> QED BY <1>3, <2>1, <2>2
<1>10. CASE release_table_claim(c)
  <2>1. rx'[c].pc = "gone" /\ table' = table
    BY <1>0, <1>10, RxTo DEF release_table_claim, RxPcs
  <2> QED BY <1>3, <1>4, <2>1
<1>11. CASE advance_one(c) \/ flush_pending(c)
  <2>1. rx[c].pc = "live" /\ revoked' = revoked
    BY <1>11 DEF advance_one, flush_pending, Runs
  <2>2. \A t \in Slots : Same(t)
    BY <1>0, <1>11 DEF advance_one, flush_pending, flush, TypeOK, SlotType
  <2>3. rx'[c].pc = "live" /\ rx'[c].slot = s /\ rx'[c].epoch = rx[c].epoch
    BY <1>0, <1>11, <2>1 DEF advance_one, flush_pending, flush, TypeOK, RxType
  <2>4. HoldOf(c)'
    BY <1>0, <2>1, <2>2, <2>3 DEF HoldOf, Engaged, Holds, Current, Occupies, owns_slot, Mid_claim
  <2> QED BY <1>3, <2>2, <2>4
<1>12. CASE DropConsumer(c)
  <2>1. rx[c].pc = "live"
    BY <1>12 DEF DropConsumer, Runs
  <2>2. \A t \in Slots : Same(t)
    BY <1>0, <1>12 DEF DropConsumer, TypeOK, SlotType
  <2>3. /\ rx'[c].pc = IF owns_slot(c) THEN "sentinel" ELSE "gone"
        /\ rx'[c].slot = s /\ rx'[c].epoch = rx[c].epoch
    BY <1>0, <1>12, <2>1 DEF DropConsumer, TypeOK, RxType
  <2>4. HoldOf(c)'
    BY <1>0, <2>1, <2>2, <2>3 DEF HoldOf, Engaged, Holds, Current, Occupies, Mid_claim
  <2> QED BY <1>3, <2>2, <2>4
<1>13. CASE StoreSentinel(c)
  <2>1. \A t \in Slots : Same(t)
    BY <1>0, <1>13 DEF StoreSentinel, TypeOK, SlotType
  <2>2. rx[c].pc = "sentinel" /\ rx'[c].pc = "control" /\ rx'[c].slot = s /\ rx'[c].epoch = rx[c].epoch
    BY <1>0, <1>13, RxTo DEF StoreSentinel, RxPcs
  <2>3. HoldOf(c)'
    BY <1>0, <2>1, <2>2 DEF HoldOf, Engaged, Holds, Current, Occupies, Mid_claim
  <2> QED BY <1>3, <2>1, <2>3
<1>14. CASE FreeSlot(c)
  <2>1. rx[c].pc = "control" /\ rx'[c].pc = "unlease" /\ rx'[c].epoch = rx[c].epoch
    BY <1>0, <1>14, RxTo DEF FreeSlot, RxPcs
  <2>2. HoldOf(c)'
    BY <1>0, <2>1 DEF HoldOf, Engaged, Holds, Current, Mid_claim
  <2>3. CASE Occupies(c)
    <3>1. /\ table'[s].lease = table[s].lease /\ \A t \in Slots : t # s => table'[t] = table[t]
      BY <1>0, <1>14, <2>3 DEF FreeSlot, TypeOK, SlotType
    <3>2. ASSUME NEW d \in Consumers, d # c PROVE Kept(d)
      <4>1. Engaged(d) => rx[d].slot # s
        BY <2>3, <3>2, Apart
      <4> QED BY <1>0, <3>1, <4>1
    <3> QED BY <1>2, <2>2, <3>2
  <2>4. CASE ~Occupies(c)
    BY <1>3, <1>14, <2>2, <2>4 DEF FreeSlot
  <2> QED BY <2>3, <2>4
<1>15. CASE ReleaseSlotLease(c)
  <2>1. rx'[c].pc = "gone"
    BY <1>0, <1>15, RxTo DEF ReleaseSlotLease, RxPcs
  <2>2. CASE owns_slot(c)
    <3>1. /\ table[s].lease = c /\ table'[s].lease = NoToken /\ table'[s].epoch = table[s].epoch
          /\ table'[s].state = table[s].state /\ \A t \in Slots : t # s => table'[t] = table[t]
      BY <1>0, <1>15, <2>2 DEF ReleaseSlotLease, owns_slot, TypeOK, SlotType
    <3>2. \A d \in Consumers : d # c => Kept(d)
      BY <1>0, <3>1
    <3> QED BY <1>2, <1>4, <2>1, <3>2
  <2>3. CASE ~owns_slot(c)
    BY <1>3, <1>4, <1>15, <2>1, <2>3 DEF ReleaseSlotLease
  <2> QED BY <2>2, <2>3
<1>16. CASE CrashConsumer(c)
  <2>1. rx'[c].pc = "dead" /\ table' = table
    BY <1>0, <1>16 DEF CrashConsumer, TypeOK, RxType
  <2> QED BY <1>3, <1>4, <2>1
<1>17. CASE ForceDetach(c)
  <2>1. /\ rx' = rx /\ rx[c].pc \in {"live", "dead", "gone"} /\ c \in revoked' /\ Occupies(c)
    BY <1>17 DEF ForceDetach
  <2>2. /\ table'[s].state = "RETIRED" /\ \A t \in Slots : t # s => table'[t] = table[t]
        /\ table'[s].lease = table[s].lease
    BY <1>0, <1>17 DEF ForceDetach, TypeOK, SlotType
  <2>3. HoldOf(c)'
    BY <1>0, <2>1, <2>2 DEF HoldOf, Engaged, Holds, Current, Mid_claim
  <2>4. ASSUME NEW d \in Consumers, d # c PROVE Kept(d)
    <3>1. Engaged(d) => rx[d].slot # s
      BY <2>1, <2>4, Apart
    <3> QED BY <1>0, <2>2, <3>1
  <2> QED BY <1>2, <2>3, <2>4
<1> QED
  BY <1>5, <1>6, <1>7, <1>8, <1>9, <1>10, <1>11, <1>12, <1>13, <1>14, <1>15, <1>16, <1>17
  DEF ConsumerStep

\* The cursor of a holder moves with it alone.
LEMMA CursorConsumer ==
  ASSUME IInv, SnapshotInv, HoldInv, CursorInv, GateTableAssumption,
         NEW c \in Consumers, ConsumerStep(c)
  PROVE  CursorInv'
<1> USE DEF region, gate, history
<1>0. /\ TypeOK /\ rx[c] \in RxType /\ rx[c].slot \in Slots /\ CursorOf(c) /\ HoldOf(c)
      /\ \A s \in Slots : table[s] \in SlotType
      /\ \A d \in Consumers : rx[d].slot \in Slots
      /\ rx[c].read \in Nat /\ write_cursor \in Nat /\ Capacity \in Nat
      /\ rx[c].pc = "rollback" => rx[c].gen # generation
  BY DEF IInv, TypeOK, RxType, SlotType, HoldInv, CursorInv, SnapshotInv, GateTableAssumption
<1>1. /\ write_cursor' = write_cursor /\ generation' = generation /\ recovery' = recovery
      /\ revoked \subseteq revoked' /\ \A d \in Consumers : d # c => rx'[d] = rx[d]
  BY <1>0, OneConsumer
<1>2. \A d \in Consumers : d # c => (Current(d)' => Current(d))
  BY HoldConsumer
<1> DEFINE s == rx[c].slot
           Kept(d) == Current(d) => table'[rx[d].slot].cursor = table[rx[d].slot].cursor
\* The others follow from what becomes of the cursors in their slots.
<1>3. ASSUME CursorOf(c)', \A d \in Consumers : d # c => Kept(d) PROVE CursorInv'
  <2>1. ASSUME NEW d \in Consumers, d # c PROVE CursorOf(d)'
    <3>1. CursorOf(d)
      BY DEF CursorInv
    <3> QED BY <1>0, <1>1, <1>2, <1>3, <2>1, <3>1, CursorFrame
  <2> QED BY <1>3, <2>1 DEF CursorInv
<1>4. ASSUME CursorOf(c)', Engaged(c), \A t \in Slots : t # s => table'[t] = table[t] PROVE CursorInv'
  <2>1. ASSUME NEW d \in Consumers, d # c PROVE Kept(d)
    <3>1. Current(d) => rx[d].slot # s
      BY <1>4, <2>1, Apart DEF Holds
    <3> QED BY <1>0, <1>4, <3>1
  <2> QED BY <1>3, <1>4, <2>1
<1>5. ASSUME CursorOf(c)', \A t \in Slots : table'[t].cursor = table[t].cursor PROVE CursorInv'
  BY <1>0, <1>3, <1>5
\* A handle that is not in a claim, live or resuming is not current.
<1>6. ASSUME rx'[c].pc \notin Mid_claim \union {"recheck", "resume", "resumed", "live"} PROVE CursorOf(c)'
  BY <1>6 DEF CursorOf, Reading, Current
<1>7. CASE OpenConsumer(c)
  <2>1. rx'[c].pc \in {"claim", "gone"} /\ table' = table
    <3>1. CASE closed
      BY <1>0, <1>7, <3>1, RxTo DEF OpenConsumer, RxPcs
    <3>2. CASE ~closed
      BY <1>0, <1>7, <3>2 DEF OpenConsumer, TypeOK, RxType
    <3> QED BY <3>1, <3>2
  <2> QED BY <1>5, <1>6, <2>1 DEF Mid_claim
<1>8. CASE ClaimSlot(c)
  <2>1. \A t \in Slots : table'[t].cursor = table[t].cursor
    BY <1>0, <1>8 DEF ClaimSlot, TypeOK, SlotType
  <2>2. rx'[c].pc \in {"claimed", "claim", "full", "gone"}
    BY <1>0, <1>8 DEF ClaimSlot, TypeOK, RxType
  <2>3. CursorOf(c)'
    BY <2>2 DEF CursorOf, Reading, Current, Mid_claim
  <2> QED BY <1>5, <2>1, <2>3
<1>9. CASE StoreProvisional(c)
  <2>1. rx[c].pc = "claimed" /\ rx'[c].pc = "fenced" /\ rx'[c].slot = s
    BY <1>0, <1>9, RxTo DEF StoreProvisional, RxPcs
  <2>2. table'[s].cursor = write_cursor /\ \A t \in Slots : t # s => table'[t] = table[t]
    BY <1>0, <1>9 DEF StoreProvisional, TypeOK, SlotType
  <2>3. CursorOf(c)'
    BY <1>0, <1>1, <2>1, <2>2 DEF CursorOf, Reading
  <2> QED BY <1>4, <2>1, <2>2, <2>3 DEF Engaged, Holds, Mid_claim
<1>10. CASE LoadJoin(c)
  <2>1. /\ rx[c].pc = "fenced" /\ rx'[c].pc = "joined" /\ rx'[c].slot = s /\ rx'[c].read = write_cursor
        /\ rx'[c].gen = rx[c].gen /\ table' = table
    BY <1>0, <1>10 DEF LoadJoin, TypeOK, RxType
  <2>2. Current(c)' => Current(c)
    BY <1>1, <2>1 DEF Current, Mid_claim, Recoverer, Recovering
  <2>3. CursorOf(c)'
    BY <1>0, <1>1, <2>1, <2>2 DEF CursorOf, Reading
  <2> QED BY <1>5, <2>1, <2>3
<1>11. CASE StoreJoin(c)
  <2>1. /\ rx[c].pc = "joined" /\ rx'[c].pc = "lease" /\ rx'[c].slot = s /\ rx'[c].read = rx[c].read
        /\ rx'[c].gen \in {0, rx[c].gen}
    BY <1>0, <1>11, RxTo DEF StoreJoin, RxPcs
  <2>2. table'[s].cursor = rx[c].read /\ \A t \in Slots : t # s => table'[t] = table[t]
    BY <1>0, <1>11 DEF StoreJoin, TypeOK, SlotType
  <2>3. rx'[c].gen = rx[c].gen
    BY <1>0, <1>11 DEF StoreJoin, rxTo, Checked, TypeOK, RxType
  <2>4. Current(c)' => Current(c)
    BY <1>1, <2>1, <2>3 DEF Current, Mid_claim, Recoverer, Recovering
  <2>5. CursorOf(c)'
    BY <1>0, <1>1, <2>1, <2>2, <2>4 DEF CursorOf, Reading
  <2> QED BY <1>4, <2>1, <2>2, <2>5 DEF Engaged, Holds, Mid_claim
<1>12. CASE StoreLease(c)
  <2>1. /\ rx[c].pc = "lease" /\ rx'[c].pc = IF Recoverer(c) THEN "resume" ELSE "recheck"
        /\ rx'[c].slot = s /\ rx'[c].read = rx[c].read
    BY <1>0, <1>12, RxTo DEF StoreLease, RxPcs
  <2>2. \A t \in Slots : table'[t].cursor = table[t].cursor
    BY <1>0, <1>12 DEF StoreLease, TypeOK, SlotType
  <2>3. rx'[c].gen = rx[c].gen
    BY <1>0, <1>12 DEF StoreLease, rxTo, Checked, TypeOK, RxType
  <2>4. Current(c)' => Current(c)
    BY <1>1, <2>1, <2>3 DEF Current, Mid_claim, Recoverer, Recovering
  <2>5. CursorOf(c)'
    BY <1>0, <1>1, <2>1, <2>2, <2>4 DEF CursorOf, Reading
  <2> QED BY <1>5, <2>2, <2>5
<1>13. CASE RecheckClaim(c)
  <2>1. /\ rx[c].pc = "recheck" /\ rx'[c].pc = (IF generation = rx[c].gen THEN "live" ELSE "rollback")
        /\ rx'[c].slot = s /\ rx'[c].read = rx[c].read /\ table' = table
    BY <1>0, <1>13, RxTo DEF RecheckClaim, RxPcs
  <2>2. Current(c)' => Current(c)
    BY <2>1 DEF Current, Mid_claim
  <2>3. CursorOf(c)'
    BY <1>0, <1>1, <2>1, <2>2 DEF CursorOf, Reading
  <2> QED BY <1>5, <2>1, <2>3
<1>14. CASE release_table_claim(c)
  <2>1. rx'[c].pc = "gone" /\ table' = table
    BY <1>0, <1>14, RxTo DEF release_table_claim, RxPcs
  <2> QED BY <1>5, <1>6, <2>1 DEF Mid_claim
<1>15. ASSUME NEW read \in Nat, flush(c, read), rx[c].pc = "live", c \notin revoked => rx[c].read <= read,
              read <= write_cursor \/ c \in revoked, revoked' = revoked
       PROVE  CursorInv'
  <2>1. rx'[c].pc = "live" /\ rx'[c].slot = s /\ rx'[c].read = read
    BY <1>0, <1>15 DEF flush, TypeOK, RxType
  <2>2. CASE owns_slot(c)
    <3>1. table'[s].cursor = read /\ \A t \in Slots : t # s => table'[t] = table[t]
      BY <1>0, <1>15, <2>2 DEF flush, TypeOK, SlotType
    <3>2. CursorOf(c)'
      BY <1>0, <1>1, <1>15, <2>1, <3>1 DEF CursorOf, Reading, Current, Mid_claim
    <3> QED BY <1>4, <1>15, <2>2, <3>1, <3>2 DEF Engaged
  <2>3. CASE ~owns_slot(c)
    <3>1. c \in revoked /\ table' = table
      BY <1>0, <1>15, <2>3 DEF flush, HoldOf, Current, Mid_claim
    <3>2. CursorOf(c)'
      BY <1>15, <2>1, <3>1 DEF CursorOf, Reading, Current, Mid_claim
    <3> QED BY <1>5, <3>1, <3>2
  <2> QED BY <2>2, <2>3
<1>16. CASE advance_one(c)
  <2>1. /\ rx[c].pc = "live" /\ c \notin revoked /\ revoked' = revoked /\ rx[c].read + 1 \in Nat
        /\ rx[c].read <= rx[c].read + 1 /\ rx[c].read + 1 <= write_cursor
    BY <1>0, <1>16 DEF advance_one, Runs
  <2>2. CASE flush(c, rx[c].read + 1)
    BY <1>15, <2>1, <2>2
  <2>3. CASE rx' = [rx EXCEPT ![c].read = @ + 1, ![c].pending = TRUE] /\ UNCHANGED table
    <3>1. rx'[c].pc = "live" /\ rx'[c].slot = s /\ rx'[c].read = rx[c].read + 1
      BY <1>0, <2>1, <2>3 DEF TypeOK, RxType
    <3>2. CursorOf(c)'
      <4>1. Reading(c) /\ table[s].cursor \in 0 .. rx[c].read /\ write_cursor - rx[c].read <= Capacity
        BY <1>0, <2>1 DEF CursorOf, Reading, Current
      <4> QED BY <1>0, <1>1, <2>1, <2>3, <3>1, <4>1 DEF CursorOf, Reading
    <3> QED BY <1>5, <2>3, <3>2
  <2> QED BY <1>16, <2>2, <2>3 DEF advance_one
<1>17. CASE flush_pending(c)
  <2>1. rx[c].pc = "live" /\ flush(c, rx[c].read) /\ revoked' = revoked
    BY <1>17 DEF flush_pending, Runs
  <2>2. rx[c].read <= write_cursor \/ c \in revoked
    BY <1>0, <2>1 DEF CursorOf, Reading, Current
  <2> QED BY <1>0, <1>15, <2>1, <2>2
<1>18. CASE DropConsumer(c)
  <2>1. rx[c].pc = "live" /\ rx'[c].pc \in {"sentinel", "gone"}
    BY <1>0, <1>18 DEF DropConsumer, Runs, TypeOK, RxType
  <2>2. CASE owns_slot(c)
    <3>1. \A t \in Slots : t # s => table'[t] = table[t]
      BY <1>0, <1>18 DEF DropConsumer, TypeOK
    <3> QED BY <1>4, <1>6, <2>1, <2>2, <3>1 DEF Engaged, Mid_claim
  <2>3. CASE ~owns_slot(c)
    BY <1>5, <1>6, <1>18, <2>1, <2>3 DEF DropConsumer, Mid_claim
  <2> QED BY <2>2, <2>3
<1>19. CASE StoreSentinel(c)
  <2>1. rx[c].pc = "sentinel" /\ rx'[c].pc = "control"
    BY <1>0, <1>19, RxTo DEF StoreSentinel, RxPcs
  <2>2. \A t \in Slots : t # s => table'[t] = table[t]
    BY <1>0, <1>19 DEF StoreSentinel, TypeOK
  <2> QED BY <1>4, <1>6, <2>1, <2>2 DEF Engaged, Mid_claim
<1>20. CASE FreeSlot(c) \/ ReleaseSlotLease(c)
  <2>1. rx'[c].pc \in {"unlease", "gone"}
    BY <1>0, <1>20, RxTo DEF FreeSlot, ReleaseSlotLease, RxPcs
  <2>2. \A t \in Slots : table'[t].cursor = table[t].cursor
    BY <1>0, <1>20 DEF FreeSlot, ReleaseSlotLease, TypeOK, SlotType
  <2> QED BY <1>5, <1>6, <2>1, <2>2 DEF Mid_claim
<1>21. CASE CrashConsumer(c)
  <2>1. rx'[c].pc = "dead" /\ table' = table
    BY <1>0, <1>21 DEF CrashConsumer, TypeOK, RxType
  <2> QED BY <1>5, <1>6, <2>1 DEF Mid_claim
<1>22. CASE ForceDetach(c)
  <2>1. rx' = rx /\ rx[c].pc \in {"live", "dead", "gone"} /\ c \in revoked'
    BY <1>22 DEF ForceDetach
  <2>2. \A t \in Slots : table'[t].cursor = table[t].cursor
    BY <1>0, <1>22 DEF ForceDetach, TypeOK, SlotType
  <2>3. CursorOf(c)'
    BY <2>1 DEF CursorOf, Reading, Current, Mid_claim
  <2> QED BY <1>5, <2>2, <2>3
<1> QED
  BY <1>7, <1>8, <1>9, <1>10, <1>11, <1>12, <1>13, <1>14, <1>16, <1>17, <1>18, <1>19, <1>20, <1>21,
     <1>22
  DEF ConsumerStep

\* No consumer gets ahead of the producer, or stores that it did.
LEMMA BehindConsumer ==
  ASSUME IInv, BehindInv, GateTableAssumption, NEW c \in Consumers, ConsumerStep(c)
  PROVE  BehindInv'
<1> USE DEF region, gate, history
<1>0. /\ TypeOK /\ rx[c] \in RxType /\ rx[c].slot \in Slots
      /\ \A s \in Slots : table[s] \in SlotType
      /\ rx[c].read \in Nat /\ write_cursor \in Nat
      /\ rx[c].read <= write_cursor /\ DETACHED <= write_cursor
  BY DEF IInv, TypeOK, RxType, BehindInv, DETACHED
<1>1. write_cursor' = write_cursor /\ \A d \in Consumers : d # c => rx'[d] = rx[d]
  BY <1>0, OneConsumer
<1>2. SUFFICES /\ rx'[c].read <= write_cursor
               /\ \A s \in Slots : table'[s].cursor <= write_cursor
  BY <1>1 DEF BehindInv
<1>3. ASSUME NEW read \in Nat, flush(c, read), read <= write_cursor
      PROVE  rx'[c].read <= write_cursor /\ \A s \in Slots : table'[s].cursor <= write_cursor
  BY <1>0, <1>3 DEF flush, TypeOK, RxType, SlotType, BehindInv
<1>4. ASSUME NEW pc \in RxPcs, rxTo(c, pc) PROVE rx'[c].read <= write_cursor
  <2>1. CASE pc = "gone"
    BY <1>0, <1>4, <2>1 DEF rxTo, TypeOK, RxType
  <2>2. CASE pc # "gone"
    BY <1>0, <1>4, <2>2, RxTo
  <2> QED BY <2>1, <2>2
<1>5. CASE OpenConsumer(c)
  <2>1. table' = table
    BY <1>5 DEF OpenConsumer
  <2>2. rx'[c].read <= write_cursor
    <3>1. CASE closed
      BY <1>4, <1>5, <3>1 DEF OpenConsumer, RxPcs
    <3>2. CASE ~closed
      BY <1>0, <1>5, <3>2 DEF OpenConsumer, TypeOK, RxType
    <3> QED BY <3>1, <3>2
  <2> QED BY <2>1, <2>2 DEF BehindInv
<1>6. CASE ClaimSlot(c)
  BY <1>0, <1>6 DEF ClaimSlot, TypeOK, RxType, SlotType, BehindInv
<1>7. CASE LoadJoin(c) \/ CrashConsumer(c)
  BY <1>0, <1>7 DEF LoadJoin, CrashConsumer, TypeOK, RxType, BehindInv
<1>8. CASE StoreProvisional(c) \/ StoreJoin(c) \/ StoreLease(c) \/ RecheckClaim(c) \/ release_table_claim(c)
           \/ StoreSentinel(c) \/ FreeSlot(c) \/ ReleaseSlotLease(c)
  <2>1. \E pc \in RxPcs : rxTo(c, pc)
    BY <1>8 DEF StoreProvisional, StoreJoin, StoreLease, RecheckClaim, release_table_claim,
       StoreSentinel, FreeSlot, ReleaseSlotLease, RxPcs
  <2>2. \A s \in Slots : table'[s].cursor \in {table[s].cursor, write_cursor, rx[c].read, DETACHED}
    BY <1>0, <1>8 DEF StoreProvisional, StoreJoin, StoreLease, RecheckClaim, release_table_claim,
       StoreSentinel, FreeSlot, ReleaseSlotLease, TypeOK, SlotType
  <2> QED BY <1>0, <1>4, <2>1, <2>2 DEF BehindInv
<1>9. CASE advance_one(c)
  <2>1. rx[c].read + 1 \in Nat /\ rx[c].read + 1 <= write_cursor
    BY <1>0, <1>9 DEF advance_one
  <2>2. CASE flush(c, rx[c].read + 1)
    BY <1>3, <2>1, <2>2
  <2>3. CASE rx' = [rx EXCEPT ![c].read = @ + 1, ![c].pending = TRUE] /\ UNCHANGED table
    BY <1>0, <2>1, <2>3 DEF TypeOK, RxType, BehindInv
  <2> QED BY <1>9, <2>2, <2>3 DEF advance_one
<1>10. CASE flush_pending(c)
  BY <1>0, <1>3, <1>10 DEF flush_pending
<1>11. CASE DropConsumer(c)
  BY <1>0, <1>11 DEF DropConsumer, TypeOK, RxType, SlotType, BehindInv
<1>12. CASE ForceDetach(c)
  BY <1>0, <1>12 DEF ForceDetach, TypeOK, SlotType, BehindInv
<1> QED
  BY <1>5, <1>6, <1>7, <1>8, <1>9, <1>10, <1>11, <1>12 DEF ConsumerStep

\* All of TableInv, for the consumers' steps.
LEMMA TableConsumer ==
  ASSUME Races = {}, IInv, TableInv, GateTableAssumption, NEW c \in Consumers, ConsumerStep(c)
  PROVE  TableInv' /\ \A d \in Consumers : d # c => (Current(d)' => Current(d))
<1>1. SnapshotInv' /\ ResetInv'
  BY SnapshotConsumer, ResetConsumer DEF TableInv
<1>2. HoldInv' /\ \A d \in Consumers : d # c => (Current(d)' => Current(d))
  BY HoldConsumer DEF TableInv
<1>3. CursorInv' /\ BehindInv'
  BY CursorConsumer, BehindConsumer DEF TableInv
<1>4. ResumeInv'
  <2>1. recovery' = recovery /\ write_cursor' = write_cursor
    BY OneConsumer DEF IInv
  <2> QED BY <2>1 DEF ResumeInv, TableInv
<1> QED BY <1>1, <1>2, <1>3, <1>4 DEF TableInv

-----------------------------------------------------------------------------
\* The producers' steps.

\* What concerns neither the table nor the consumers.
LEMMA TableFrame ==
  ASSUME TableInv,
         UNCHANGED <<generation, table, rx, revoked, recovery, write_cursor>>
  PROVE  TableInv' /\ \A c \in Consumers : Current(c)' => Current(c)
<1>1. \A c \in Consumers : /\ Current(c)' <=> Current(c)
                           /\ Occupies(c)' <=> Occupies(c)
                           /\ owns_slot(c)' <=> owns_slot(c)
  BY DEF Current, Recoverer, Recovering, Occupies, owns_slot
<1>2. \A c \in Consumers : (HoldOf(c)' <=> HoldOf(c)) /\ (CursorOf(c)' <=> CursorOf(c))
  BY <1>1 DEF HoldOf, CursorOf, Reading, Engaged, Holds
<1>3. SnapshotInv' /\ ResetInv' /\ BehindInv' /\ ResumeInv'
  BY DEF TableInv, SnapshotInv, ResetInv, BehindInv, ResumeInv
<1> QED BY <1>1, <1>2, <1>3 DEF TableInv, HoldInv, CursorInv

\* The recovery ends when its producer's first scan does.
LEMMA RecoveryEnds ==
  ASSUME IInv, TableInv, GateTableAssumption, NEW p \in Producers, ScanFinish(p), Recoverer(p)
  PROVE  /\ TableInv' /\ \A c \in Consumers : Current(c)' => Current(c)
         /\ \A c \in Consumers : rx'[c].slot = rx[c].slot /\ rx'[c].read = rx[c].read
<1> USE DEF region, gate, history
<1>0. /\ TypeOK /\ recovery.c \in Consumers /\ recovery.p = p /\ rx[recovery.c].pc = "resumed"
      /\ generation \in Nat
  <2>1. TypeOK /\ Recovering /\ RecoveryInv /\ p # recovery.c
    BY DEF Recoverer, IInv, RecoveryInv, GateTableAssumption
  <2>2. recovery.p = p /\ recovery.c \in Consumers /\ recovery.stage \in Stages
    BY <2>1 DEF Recoverer, RecoveryInv, TypeOK, RecoveryType
  <2>3. tx[p].pc \in {"first_scan", "scan"}
    BY DEF ScanFinish, Scanning
  <2> QED BY <2>1, <2>2, <2>3 DEF RecoveryInv, Recovering, Stages, ResetStages, IInv, TypeOK
<1>1. PICK c \in Consumers : c = recovery.c /\ rx[c].pc = "resumed"
  BY <1>0
<1>2. /\ rx'[c].pc = "live" /\ rx'[c].slot = rx[c].slot /\ rx'[c].read = rx[c].read
      /\ rx'[c].epoch = rx[c].epoch /\ \A d \in Consumers : d # c => rx'[d] = rx[d]
      /\ recovery' = NoRecovery
  BY <1>0, <1>1, RxTo DEF ScanFinish, RxPcs
<1>3. rx'[c].gen = 0
  BY <1>0, <1>1 DEF ScanFinish, rxTo, Checked, TypeOK, RxType
<1>4. UNCHANGED <<generation, table, revoked, write_cursor>>
  BY DEF ScanFinish
<1>5. ~Recovering' /\ \A h : ~Recoverer(h)'
  BY <1>2 DEF Recovering, Recoverer, NoRecovery
<1>6. Current(c) /\ (Current(c)' => c \notin revoked)
  BY <1>1, <1>2, <1>4 DEF Current, Mid_claim
<1>7. ASSUME NEW d \in Consumers, d # c PROVE HoldOf(d)' /\ CursorOf(d)' /\ (Current(d)' => Current(d))
  <2>1. HoldOf(d) /\ CursorOf(d)
    BY DEF TableInv, HoldInv, CursorInv
  <2>2. HoldOf(d)' /\ (Current(d)' => Current(d))
    BY <1>0, <1>1, <1>2, <1>4, <1>5, <1>7, <2>1, HoldFrame
  <2> QED BY <1>0, <1>1, <1>2, <1>4, <1>7, <2>1, <2>2, CursorFrame
<1>8. HoldOf(c)' /\ CursorOf(c)'
  <2>1. HoldOf(c) /\ CursorOf(c)
    BY <1>1 DEF TableInv, HoldInv, CursorInv
  <2>2. (Occupies(c)' <=> Occupies(c)) /\ (owns_slot(c)' <=> owns_slot(c))
    BY <1>2, <1>4 DEF Occupies, owns_slot
  <2>3. Occupies(c) /\ owns_slot(c) /\ rx[c].epoch >= 1
    BY <1>1, <1>6, <2>1 DEF HoldOf, Holds, Mid_claim
  <2>4. HoldOf(c)'
    BY <1>2, <2>2, <2>3 DEF HoldOf
  <2>5. CursorOf(c)'
    BY <1>1, <1>2, <1>4, <1>6, <2>1 DEF CursorOf, Reading
  <2> QED BY <2>4, <2>5
<1>9. SnapshotInv' /\ ResetInv' /\ ResumeInv' /\ BehindInv'
  <2>1. SnapshotInv'
    BY <1>0, <1>1, <1>2, <1>3, <1>4 DEF TableInv, SnapshotInv, NoRecovery, ResetStages
  <2>2. ResetInv' /\ ResumeInv'
    BY <1>2 DEF ResetInv, ResumeInv, NoRecovery, ResetStages
  <2>3. \A d \in Consumers : rx'[d].read = rx[d].read
    BY <1>2
  <2>4. BehindInv'
    BY <1>4, <2>3 DEF TableInv, BehindInv
  <2> QED BY <2>1, <2>2, <2>4
<1> QED BY <1>2, <1>6, <1>7, <1>8, <1>9 DEF TableInv, HoldInv, CursorInv

\* Nobody resets the table or resumes while a producer publishes.
LEMMA PublishesAlone ==
  ASSUME IInv, GateTableAssumption, NEW p \in Producers, Publish(p)
  PROVE  recovery.stage \notin ResetStages \union {"join"}
<1>1. SUFFICES ASSUME recovery.stage \in ResetStages \union {"join"} PROVE FALSE
  OBVIOUS
<1>2. recovery.p \in Producers /\ tx[recovery.p].pc \in {"reset", "seed", "first_scan"}
  BY <1>1 DEF IInv, RecoveryInv, Recovering, ResetStages
<1>3. tx[p].pc = "granted"
  BY DEF Publish
<1>4. producer_lease = p /\ producer_lease = recovery.p
  BY <1>2, <1>3 DEF IInv, LeaseInv, HasLease, Operating
<1> QED BY <1>2, <1>3, <1>4

\* Publishing leaves every reader within the ring.
LEMMA TablePublish ==
  ASSUME IInv, TableInv, GateInv, GateTableAssumption, NEW p \in Producers, Publish(p)
  PROVE  TableInv' /\ \A c \in Consumers : Current(c)' => Current(c)
<1> USE DEF region, gate, history
<1>1. /\ TypeOK /\ write_cursor \in Nat /\ write_cursor' = write_cursor + 1 /\ Capacity \in Nat
      /\ UNCHANGED <<generation, table, rx, revoked, recovery>> /\ tx[p].pc = "granted"
      /\ \A c \in Consumers : rx[c].read \in Nat
      /\ \A s \in Slots : table[s].cursor \in Int
      /\ \A c \in Consumers : rx[c].slot \in Slots
      /\ recovery.stage \in Stages
  BY DEF Publish, IInv, TypeOK, RxType, SlotType, DETACHED, GateTableAssumption, RecoveryType
<1>2. \A c \in Consumers : /\ Current(c)' <=> Current(c)
                           /\ Occupies(c)' <=> Occupies(c)
                           /\ owns_slot(c)' <=> owns_slot(c)
  BY <1>1 DEF Current, Recoverer, Recovering, Occupies, owns_slot
<1>3. \A c \in Consumers : HoldOf(c)' <=> HoldOf(c)
  BY <1>1, <1>2 DEF HoldOf, Engaged, Holds
<1>4. ASSUME NEW c \in Consumers PROVE CursorOf(c)'
  <2>1. Reading(c) => Standing(c)
    BY DEF Reading, Standing
  <2>2. CursorOf(c)
    BY DEF TableInv, CursorInv
  <2>4. Reading(c) => write_cursor + 1 - CursorAt(c) <= Capacity /\ CursorAt(c) \in 0 .. rx[c].read
    BY <1>1, <2>1, <2>2 DEF GateInv, GateOf, CursorOf, CursorAt
  <2>3. Reading(c)' = Reading(c)
    BY <1>1, <1>2 DEF Reading
  <2>5. Reading(c) => write_cursor + 1 - rx[c].read <= Capacity
    BY <1>1, <2>4
  <2> QED BY <1>1, <1>2, <2>2, <2>3, <2>5 DEF CursorOf
<1>5. recovery.stage \notin ResetStages \union {"join"}
  BY PublishesAlone
<1>6. SnapshotInv' /\ ResetInv' /\ ResumeInv' /\ BehindInv'
  <2>1. SnapshotInv' /\ ResetInv'
    BY <1>1 DEF TableInv, SnapshotInv, ResetInv
  <2>2. ResumeInv'
    BY <1>1, <1>5 DEF TableInv, ResumeInv
  <2>3. BehindInv'
    BY <1>1 DEF TableInv, BehindInv
  <2> QED BY <2>1, <2>2, <2>3
<1> QED BY <1>2, <1>3, <1>4, <1>6 DEF TableInv, HoldInv, CursorInv

\* All of TableInv, for the producers' steps.
LEMMA TableProducer ==
  ASSUME IInv, TableInv, GateInv, GateTableAssumption, NEW p \in Producers, ProducerStep(p)
  PROVE  /\ TableInv' /\ \A c \in Consumers : Current(c)' => Current(c)
         /\ \A c \in Consumers : rx'[c].slot = rx[c].slot /\ rx'[c].read = rx[c].read
<1> USE DEF region, gate, history
<1>1. CASE Publish(p)
  BY <1>1, TablePublish DEF Publish
<1>2. CASE ScanFinish(p) /\ Recoverer(p)
  BY <1>2, RecoveryEnds
<1>3. CASE ~Publish(p) /\ ~(ScanFinish(p) /\ Recoverer(p))
  <2>1. UNCHANGED <<generation, table, rx, revoked, recovery, write_cursor>>
    BY <1>3 DEF ProducerStep, OpenProducer, ClaimLease, RecheckLease, TakeLease, Reopen, Seed, HasSpace,
       ScanSlot, ScanFinish, DropProducer, ReleaseLease, CrashProducer
  <2> QED BY <2>1, TableFrame
<1> QED BY <1>1, <1>2, <1>3

-----------------------------------------------------------------------------
\* The recovery's steps.

\* What the invariants say of the variables that a recovery uses.
LEMMA RecoveryFacts ==
  ASSUME IInv, TableInv, GateTableAssumption
  PROVE  /\ Recovering => recovery.p \in Producers /\ recovery.c \in Consumers
         /\ recovery \in RecoveryType /\ recovery.slot \in Slots /\ recovery.max_lag \in Nat
         /\ recovery.resume \in Nat /\ recovery.attempt \in 0 .. Attempts
         /\ write_cursor \in Nat /\ generation \in Nat /\ Capacity \in Nat /\ Attempts \in Nat
         /\ \A d \in Consumers : /\ rx[d] \in RxType /\ rx[d].slot \in Slots /\ rx[d].gen \in Nat
                                 /\ rx[d].gen <= generation /\ rx[d].epoch \in Nat
                                 /\ HoldOf(d) /\ CursorOf(d)
         /\ \A s \in Slots : table[s] \in SlotType
BY DEF IInv, TypeOK, RecoveryInv, RecoveryType, RxType, GateTableAssumption, TableInv, SnapshotInv,
   HoldInv, CursorInv

\* No handle is current while a reset is under way, nor right after it.
LEMMA NobodyIsCurrent ==
  ASSUME IInv, TableInv, GateTableAssumption, recovery.stage \in ResetStages, NEW d \in Consumers
  PROVE  ~Current(d) /\ (Engaged(d) => rx[d].pc = "live" /\ owns_slot(d)) /\ ~Holds(d)
<1>1. /\ rx[d].pc \in {"out", "claim", "full", "recheck", "rollback", "live", "gone", "dead"}
      /\ rx[d].pc = "live" => d \in revoked
      /\ rx[d].gen < generation /\ rx[d].gen # generation
  BY RecoveryFacts DEF TableInv, ResetInv, SnapshotInv
<1>2. Recoverer(d) => rx[d].pc \in {"out", "full"}
  <2>1. Recovering /\ recovery.p \in Producers
    BY RecoveryFacts DEF Recovering, ResetStages
  <2>2. Recoverer(d) => d = recovery.c
    BY <2>1 DEF Recoverer, GateTableAssumption
  <2> QED BY <2>1, <2>2 DEF IInv, RecoveryInv
<1>3. ~Current(d)
  BY <1>1, <1>2 DEF Current, Mid_claim
<1>4. ~Holds(d)
  BY <1>1, <1>3 DEF Holds, Mid_claim
<1> QED BY <1>1, <1>3, <1>4 DEF Engaged

\* A new generation outdates every claim.
LEMMA Outdated ==
  ASSUME IInv, TableInv, GateTableAssumption, generation' = generation + 1, NEW d \in Consumers,
         rx'[d] = rx[d], rx[d].pc \in {"out", "claim", "full", "recheck", "rollback", "live", "gone", "dead"},
         rx[d].pc = "live" => d \in revoked', Recoverer(d)' => rx[d].pc # "recheck",
         table' = table
  PROVE  ~Current(d)' /\ HoldOf(d)' /\ CursorOf(d)'
<1>1. rx[d].gen # generation' /\ HoldOf(d)
  BY RecoveryFacts
<1>2. ~Current(d)' /\ ~Holds(d)'
  BY <1>1 DEF Current, Holds, Mid_claim
<1>3. owns_slot(d)' <=> owns_slot(d)
  BY DEF owns_slot
<1>4. Engaged(d)' => Engaged(d)
  BY <1>2, <1>3 DEF Engaged
<1>5. HoldOf(d)'
  BY <1>1, <1>2, <1>4 DEF HoldOf, Occupies
<1>6. CursorOf(d)'
  BY <1>2 DEF CursorOf, Reading
<1> QED BY <1>2, <1>5, <1>6

\* A reset starts, or starts again.
LEMMA TableReset ==
  ASSUME Races = {}, IInv, TableInv, GateTableAssumption, OpenReset \/ RetryReset
  PROVE  TableInv' /\ \A d \in Consumers : ~Current(d)'
<1> USE DEF region, gate, history
<1>0. /\ Recovering /\ recovery.c \in Consumers /\ recovery.p \in Producers
      /\ generation \in Nat /\ recovery \in RecoveryType /\ recovery.attempt \in 0 .. Attempts
      /\ Attempts \in Nat /\ Capacity \in Nat
  BY RecoveryFacts DEF OpenReset, RetryReset, Resetting, Recovering
<1>1. /\ generation' = generation + 1 /\ rx' = rx /\ table' = table /\ write_cursor' = write_cursor
      /\ recovery'.stage = "look" /\ recovery'.c = recovery.c /\ recovery'.p = recovery.p
      /\ recovery'.max_lag = 0 /\ recovery'.resume = recovery.resume
  BY <1>0 DEF OpenReset, RetryReset, Reset, RecoveryType
<1>2. rx[recovery.c].pc \in {"out", "full"}
  BY <1>0 DEF OpenReset, RetryReset, Resetting, IInv, RecoveryInv
<1>3. \A d \in Consumers :
        /\ \/ rx[d].pc \in {"out", "claim", "recheck", "rollback", "live", "gone", "dead"}
           \/ rx[d].pc = "full" /\ d = recovery.c
        /\ rx[d].pc = "live" => d \in revoked'
  <2>1. CASE OpenReset
    BY <1>0, <2>1 DEF OpenReset, HoldersGone
  <2>2. CASE RetryReset
    <3>1. \A d \in Consumers : rx[d].pc = "live" => d \in revoked
      BY <2>2 DEF RetryReset, Resetting, TableInv, ResetInv
    <3>2. revoked' = revoked
      BY <2>2 DEF RetryReset
    <3> QED BY <1>2, <2>2, <3>1, <3>2 DEF RetryReset, HoldersGone
  <2> QED BY <2>1, <2>2
<1>4. \A d \in Consumers : Recoverer(d)' => d = recovery.c
  BY <1>0, <1>1 DEF Recoverer, Recovering, GateTableAssumption
<1>5. \A d \in Consumers : ~Current(d)' /\ HoldOf(d)' /\ CursorOf(d)'
  BY <1>1, <1>2, <1>3, <1>4, Outdated
<1>6. SnapshotInv' /\ ResetInv'
  <2>1. \A d \in Consumers : rx[d].gen < generation' /\ rx[d].gen <= generation'
    BY <1>0, <1>1, RecoveryFacts
  <2>2. SnapshotInv'
    BY <1>1, <2>1 DEF SnapshotInv
  <2>3. ResetInv'
    BY <1>1, <1>3 DEF ResetInv
  <2> QED BY <2>2, <2>3
<1>7. ResumeInv'
  <2>1. CASE OpenReset
    <3>1. recovery'.attempt = 0
      BY <1>0, <2>1 DEF OpenReset, Reset, Resetting, RecoveryType, TableInv, ResumeInv
    <3> QED BY <1>0, <1>1, <3>1 DEF ResumeInv
  <2>2. CASE RetryReset
    <3>1. recovery.stage = "join"
      BY <2>2 DEF RetryReset, Resetting
    <3> QED BY <1>0, <1>1, <3>1 DEF TableInv, ResumeInv
  <2> QED BY <2>1, <2>2
<1>8. BehindInv'
  BY <1>1 DEF TableInv, BehindInv
<1> QED BY <1>5, <1>6, <1>7, <1>8 DEF TableInv, HoldInv, CursorInv

\* The passes over the table, while no handle is current.
LEMMA TablePasses ==
  ASSUME IInv, TableInv, GateTableAssumption,
         ResetLook \/ ResetCursor \/ ResetSentinel \/ ResetLease \/ ResetLoadControl \/ ResetFree
  PROVE  TableInv' /\ \A d \in Consumers : ~Current(d)'
<1> USE DEF region, gate, history
<1>0. /\ recovery.stage \in ResetStages /\ Recovering
      /\ recovery \in RecoveryType /\ recovery.slot \in Slots /\ generation \in Nat
      /\ recovery.max_lag \in Nat /\ Capacity \in Nat /\ write_cursor \in Nat
      /\ \A s \in Slots : table[s] \in SlotType
      /\ NoToken \notin Consumers
  BY RecoveryFacts
  DEF ResetLook, ResetCursor, ResetSentinel, ResetLease, ResetLoadControl, ResetFree, Resetting,
      ResetStages, Recovering, GateTableAssumption
<1>1. /\ UNCHANGED <<generation, rx, revoked, write_cursor>>
      /\ \A s \in Slots : s # recovery.slot => table'[s] = table[s]
  BY <1>0 DEF ResetLook, ResetCursor, ResetSentinel, ResetLease, ResetLoadControl, ResetFree, IInv, TypeOK
<1>2. \A pass \in {"look", "sentinel"}, next \in {"sentinel", "close"} :
        /\ NextSlot(pass, next) \in RecoveryType /\ NextSlot(pass, next).stage \in {pass, next}
        /\ NextSlot(pass, next).p = recovery.p /\ NextSlot(pass, next).c = recovery.c
        /\ NextSlot(pass, next).max_lag = recovery.max_lag
        /\ NextSlot(pass, next).resume = recovery.resume
        /\ NextSlot(pass, next).attempt = recovery.attempt
  <2>1. TypeOK
    BY DEF IInv
  <2> QED BY <2>1, NextSlotType
<1>3. /\ recovery'.stage \in ResetStages /\ recovery'.p = recovery.p /\ recovery'.c = recovery.c
      /\ recovery'.resume = recovery.resume /\ recovery'.attempt = recovery.attempt
      /\ recovery'.max_lag \in {recovery.max_lag, Lag(table[recovery.slot].cursor)}
      /\ recovery'.stage \in {"control", "free"} =>
           /\ recovery'.slot = recovery.slot
           /\ ResetLease \/ (recovery.stage = "control" /\ table' = table)
  <2>1. CASE ResetLook
    BY <1>0, <1>2, <2>1 DEF ResetLook, RecoveryType, ResetStages
  <2>2. CASE ResetCursor
    BY <1>0, <1>2, <2>2 DEF ResetCursor, RecoveryType, ResetStages
  <2>3. CASE ResetSentinel \/ ResetLease
    BY <1>0, <2>3 DEF ResetSentinel, ResetLease, Goto, RecoveryType, ResetStages
  <2>4. CASE ResetLoadControl
    BY <1>0, <2>4 DEF ResetLoadControl, Resetting, RecoveryType, ResetStages
  <2>5. CASE ResetFree
    BY <1>0, <1>2, <2>5 DEF ResetFree, RecoveryType, ResetStages
  <2> QED BY <2>1, <2>2, <2>3, <2>4, <2>5
<1>4. /\ table'[recovery.slot].cursor \in {table[recovery.slot].cursor, DETACHED}
      /\ table'[recovery.slot].lease \in {table[recovery.slot].lease, NoToken}
      /\ ResetLease => table'[recovery.slot].lease = NoToken
      /\ \/ /\ table'[recovery.slot].state = table[recovery.slot].state
            /\ table'[recovery.slot].epoch = table[recovery.slot].epoch
         \/ table[recovery.slot].lease = NoToken
  BY <1>0 DEF ResetLook, ResetCursor, ResetSentinel, ResetLease, ResetLoadControl, ResetFree,
     Resetting, TableInv, ResetInv, IInv, TypeOK, SlotType
<1>5. ASSUME NEW d \in Consumers PROVE ~Current(d)' /\ HoldOf(d)' /\ CursorOf(d)'
  <2>1. ~Current(d) /\ ~Holds(d) /\ HoldOf(d) /\ rx[d].slot \in Slots
    BY <1>0, NobodyIsCurrent, RecoveryFacts
  <2>2. Recoverer(d)' => Recoverer(d)
    BY <1>0, <1>3 DEF Recoverer, Recovering, ResetStages
  <2>3. ~Current(d)' /\ ~Holds(d)'
    BY <1>1, <2>1, <2>2 DEF Current, Holds
  <2>4. owns_slot(d)' => owns_slot(d) /\ (Occupies(d)' <=> Occupies(d))
                         /\ table'[rx[d].slot].state = table[rx[d].slot].state
    BY <1>0, <1>1, <1>4, <2>1 DEF owns_slot, Occupies
  <2>5. ASSUME rx[d].pc \in {"sentinel", "control"} PROVE FALSE
    BY <1>0, <2>5, NobodyIsCurrent DEF Engaged
  <2>6. Engaged(d)' => owns_slot(d)' /\ Engaged(d)
    BY <1>1, <2>3, <2>4, <2>5 DEF Engaged
  <2>7. HoldOf(d)'
    BY <1>1, <2>1, <2>3, <2>4, <2>6 DEF HoldOf
  <2> QED BY <2>3, <2>7 DEF CursorOf, Reading
<1>6. SnapshotInv'
  BY <1>0, <1>1, <1>3 DEF TableInv, SnapshotInv
<1>7. ResetInv'
  <2>1. recovery'.stage \in {"control", "free"} => table'[recovery'.slot].lease = NoToken
    BY <1>3, <1>4 DEF TableInv, ResetInv
  <2> QED BY <1>0, <1>1, <1>3, <2>1 DEF TableInv, ResetInv
<1>8. ResumeInv'
  <2>1. recovery.max_lag <= Capacity
    BY <1>0 DEF TableInv, ResumeInv
  <2>2. table[recovery.slot].cursor \in Int
    BY <1>0 DEF SlotType, DETACHED
  <2>3. recovery'.max_lag <= Capacity
    BY <1>0, <1>3, <2>1, <2>2 DEF Lag, Larger
  <2> QED BY <1>0, <1>1, <1>3, <2>3 DEF TableInv, ResumeInv, ResetStages
<1>9. BehindInv'
  BY <1>0, <1>1, <1>4 DEF TableInv, BehindInv, DETACHED
<1> QED BY <1>5, <1>6, <1>7, <1>8, <1>9 DEF TableInv, HoldInv, CursorInv

\* The end of a reset.
LEMMA TableClose ==
  ASSUME IInv, TableInv, GateTableAssumption, CloseReset
  PROVE  TableInv' /\ \A d \in Consumers : ~Current(d)'
<1> USE DEF region, gate, history
<1>0. /\ Recovering /\ recovery.c \in Consumers /\ recovery.p \in Producers /\ TypeOK
      /\ recovery.stage = "close" /\ recovery.stage \in ResetStages
      /\ generation \in Nat /\ recovery \in RecoveryType /\ recovery.attempt \in 0 .. Attempts
      /\ Attempts \in Nat /\ Capacity \in Nat /\ write_cursor \in Nat /\ recovery.max_lag \in Nat
      /\ recovery.resume \in Nat /\ rx[recovery.c] \in RxType
  BY RecoveryFacts DEF CloseReset, Resetting, Recovering, ResetStages, IInv
<1>1. PICK c \in Consumers : c = recovery.c
  BY <1>0
<1>2. /\ generation' = generation + 1 /\ table' = table /\ write_cursor' = write_cursor
      /\ revoked' = revoked
  BY DEF CloseReset
<1>3. /\ rx'[c].pc \in {"gone", "claim"} /\ \A d \in Consumers : d # c => rx'[d] = rx[d]
      /\ rx'[c].read \in {0, rx[c].read} /\ rx'[c].gen \in {0, rx[c].gen}
  <2>1. CASE recovery.attempt = Attempts
    <3>1. rxTo(c, "gone")
      BY <1>1, <2>1 DEF CloseReset
    <3>2. rx'[c].read = 0
      BY <1>0, <1>1, <3>1 DEF rxTo, RxType, TypeOK
    <3> QED BY <1>0, <3>1, <3>2, RxTo DEF RxPcs
  <2>2. CASE recovery.attempt # Attempts
    BY <1>0, <1>1, <2>2 DEF CloseReset, TypeOK, RxType
  <2> QED BY <2>1, <2>2
<1>4. \/ recovery' = NoRecovery
      \/ /\ recovery'.stage = "join" /\ recovery'.c = c /\ recovery'.p = recovery.p
         /\ recovery'.resume = Resume /\ rx'[c].pc = "claim"
  <2>1. CASE recovery.attempt = Attempts
    BY <2>1 DEF CloseReset
  <2>2. CASE recovery.attempt # Attempts
    <3>1. rx'[c].pc = "claim"
      BY <1>0, <1>1, <2>2 DEF CloseReset, TypeOK, RxType
    <3>2. recovery' = [recovery EXCEPT !.stage = "join", !.resume = Resume, !.max_lag = 0]
      BY <2>2 DEF CloseReset
    <3> QED BY <1>0, <1>1, <3>1, <3>2 DEF RecoveryType
  <2> QED BY <2>1, <2>2
<1>5. \A d \in Consumers : Recoverer(d)' => d = c
  BY <1>0, <1>4 DEF Recoverer, Recovering, NoRecovery, GateTableAssumption
<1>6. ASSUME NEW d \in Consumers, d # c PROVE ~Current(d)' /\ HoldOf(d)' /\ CursorOf(d)'
  <2>1. /\ rx[d].pc \in {"out", "claim", "full", "recheck", "rollback", "live", "gone", "dead"}
        /\ rx[d].pc = "live" => d \in revoked'
    BY <1>0, <1>2 DEF TableInv, ResetInv
  <2> QED BY <1>2, <1>3, <1>5, <1>6, <2>1, Outdated
<1>7. ~Current(c)' /\ HoldOf(c)' /\ CursorOf(c)'
  BY <1>3 DEF Current, HoldOf, CursorOf, Reading, Engaged, Holds, Mid_claim
<1>8. SnapshotInv'
  <2>1. \A d \in Consumers : rx'[d].gen <= generation' /\ rx'[d].gen < generation'
    <3>1. \A d \in Consumers : rx'[d].gen \in {0, rx[d].gen}
      BY <1>3
    <3>2. \A d \in Consumers : rx[d].gen \in Nat /\ rx[d].gen <= generation
      BY RecoveryFacts
    <3> QED BY <1>0, <1>2, <3>1, <3>2
  <2> QED BY <2>1 DEF SnapshotInv
<1>9. ResetInv'
  <2>1. recovery'.stage \in {"none", "join"}
    BY <1>4 DEF NoRecovery
  <2>2. \A d \in Consumers : rx'[d].pc = "live" => d \in revoked'
    BY <1>0, <1>2, <1>3 DEF TableInv, ResetInv
  <2> QED BY <2>1, <2>2 DEF ResetInv, ResetStages
<1>10. ResumeInv'
  <2>1. CASE recovery' = NoRecovery
    BY <2>1 DEF ResumeInv, NoRecovery, ResetStages
  <2>2. CASE recovery'.stage = "join" /\ recovery'.resume = Resume
    <3>1. /\ recovery.max_lag <= Capacity
          /\ recovery.attempt > 0 => recovery.resume <= write_cursor /\ write_cursor - recovery.resume <= Capacity
      BY <1>0 DEF TableInv, ResumeInv
    <3>2. Resume <= write_cursor /\ write_cursor - Resume <= Capacity
      BY <1>0, <3>1 DEF Resume
    <3> QED BY <1>2, <2>2, <3>2 DEF ResumeInv, ResetStages
  <2> QED BY <1>4, <2>1, <2>2
<1>11. BehindInv'
  <2>1. \A d \in Consumers : rx'[d].read \in {0, rx[d].read} /\ rx[d].read <= write_cursor
    BY <1>3 DEF TableInv, BehindInv
  <2>2. \A s \in Slots : table[s].cursor <= write_cursor
    BY DEF TableInv, BehindInv
  <2> QED BY <1>0, <1>2, <2>1, <2>2 DEF BehindInv
<1> QED BY <1>6, <1>7, <1>8, <1>9, <1>10, <1>11 DEF TableInv, HoldInv, CursorInv

\* What the other handles keep when one of a recovery moves on.
LEMMA OthersKeep ==
  ASSUME IInv, TableInv, GateTableAssumption, NEW d \in Consumers, rx'[d] = rx[d],
         generation' = generation, revoked' = revoked, write_cursor' = write_cursor,
         table'[rx[d].slot] = table[rx[d].slot], Recoverer(d)' => Recoverer(d)
  PROVE  HoldOf(d)' /\ CursorOf(d)' /\ (Current(d)' => Current(d))
<1>1. HoldOf(d) /\ CursorOf(d) /\ TypeOK
  BY RecoveryFacts DEF IInv
<1>2. HoldOf(d)' /\ (Current(d)' => Current(d))
  BY <1>1, HoldFrame
<1> QED BY <1>1, <1>2, CursorFrame

\* The start of a recovery disturbs nobody.
LEMMA TableBegin ==
  ASSUME IInv, TableInv, GateTableAssumption, NEW p \in Producers, NEW c \in Consumers, BeginRecovery(p, c)
  PROVE  TableInv' /\ \A d \in Consumers : Current(d)' => Current(d)
<1> USE DEF region, gate, history
<1>1. /\ UNCHANGED <<generation, table, rx, revoked, write_cursor>> /\ rx[c].pc = "out"
      /\ recovery'.stage = "take" /\ recovery'.p = p /\ recovery'.c = c /\ recovery'.attempt = 0
      /\ recovery'.max_lag = 0
  BY DEF BeginRecovery, NoRecovery
<1>2. \A d \in Consumers : Recoverer(d)' => d = c
  BY <1>1 DEF Recoverer, Recovering, GateTableAssumption
<1>3. ASSUME NEW d \in Consumers, d # c PROVE HoldOf(d)' /\ CursorOf(d)' /\ (Current(d)' => Current(d))
  BY <1>1, <1>2, <1>3, OthersKeep
<1>4. ~Current(c)' /\ HoldOf(c)' /\ CursorOf(c)'
  BY <1>1 DEF Current, HoldOf, CursorOf, Reading, Engaged, Holds, Mid_claim
<1>5. SnapshotInv' /\ ResetInv' /\ ResumeInv' /\ BehindInv'
  BY <1>1 DEF TableInv, SnapshotInv, ResetInv, ResumeInv, BehindInv, ResetStages
<1> QED BY <1>3, <1>4, <1>5 DEF TableInv, HoldInv, CursorInv

\* recover_shm gives its own slot, and nobody else's, the resume point.
LEMMA TableResume ==
  ASSUME IInv, TableInv, GateTableAssumption, StoreResume
  PROVE  TableInv' /\ \A d \in Consumers : Current(d)' => Current(d)
<1> USE DEF region, gate, history
<1>0. /\ Recovering /\ recovery.c \in Consumers /\ recovery.p \in Producers /\ TypeOK
      /\ recovery.stage = "join" /\ rx[recovery.c].pc = "resume"
      /\ generation \in Nat /\ write_cursor \in Nat /\ Capacity \in Nat
      /\ recovery.resume \in Nat /\ recovery.resume <= write_cursor
      /\ write_cursor - recovery.resume <= Capacity
  BY RecoveryFacts DEF StoreResume, Resetting, Recovering, IInv, TableInv, ResumeInv
<1>1. PICK c \in Consumers : c = recovery.c
  BY <1>0
<1> DEFINE s == rx[c].slot
<1>2. /\ generation' = generation /\ write_cursor' = write_cursor /\ revoked' = revoked
      /\ recovery' = recovery /\ s \in Slots /\ rx[c] \in RxType /\ HoldOf(c) /\ rx[c].pc = "resume"
      /\ \A d \in Consumers : rx[d].slot \in Slots
  BY <1>0, <1>1, RecoveryFacts DEF StoreResume
<1>3. /\ rx'[c].pc = "resumed" /\ rx'[c].read = recovery.resume /\ rx'[c].slot = s
      /\ rx'[c].epoch = rx[c].epoch /\ rx'[c].gen = rx[c].gen
      /\ \A d \in Consumers : d # c => rx'[d] = rx[d]
  BY <1>0, <1>1, <1>2 DEF StoreResume, TypeOK, RxType
<1>4. /\ table'[s].cursor = recovery.resume /\ table'[s].state = table[s].state
      /\ table'[s].epoch = table[s].epoch /\ table'[s].lease = table[s].lease
      /\ \A t \in Slots : t # s => table'[t] = table[t]
  BY <1>0, <1>1, <1>2 DEF StoreResume, TypeOK, SlotType
<1>5. Current(c) /\ Engaged(c)
  BY <1>2 DEF Current, Engaged, Holds
<1>6. Occupies(c) /\ owns_slot(c) /\ rx[c].epoch >= 1
  BY <1>2, <1>5 DEF HoldOf, Holds, Mid_claim
<1>7. HoldOf(c)' /\ CursorOf(c)'
  <2>1. Occupies(c)' /\ owns_slot(c)'
    BY <1>3, <1>4, <1>6 DEF Occupies, owns_slot
  <2>2. HoldOf(c)'
    BY <1>3, <1>6, <2>1 DEF HoldOf
  <2>3. CursorOf(c)'
    BY <1>0, <1>2, <1>3, <1>4 DEF CursorOf, Reading
  <2> QED BY <2>2, <2>3
<1>8. \A d \in Consumers : (Recoverer(d)' <=> Recoverer(d))
  BY <1>2 DEF Recoverer, Recovering
<1>9. ASSUME NEW d \in Consumers, d # c PROVE HoldOf(d)' /\ CursorOf(d)' /\ (Current(d)' => Current(d))
  <2>1. HoldOf(d) /\ CursorOf(d)
    BY RecoveryFacts
  <2>2. HoldOf(d)' /\ (Current(d)' => Current(d))
    <3>1. /\ table'[rx[d].slot].lease = table[rx[d].slot].lease
          /\ table'[rx[d].slot].epoch = table[rx[d].slot].epoch
          /\ table'[rx[d].slot].state = table[rx[d].slot].state
      BY <1>2, <1>4
    <3> QED BY <1>0, <1>2, <1>3, <1>8, <1>9, <2>1, <3>1, HoldFrame
  <2>3. Current(d) => rx[d].slot # s
    BY <1>5, <1>9, Apart DEF Holds, TableInv
  <2>4. Current(d) => table'[rx[d].slot].cursor = table[rx[d].slot].cursor
    BY <1>2, <1>4, <2>3
  <2>5. CursorOf(d)'
    BY <1>0, <1>2, <1>3, <1>9, <2>1, <2>2, <2>4, CursorFrame
  <2> QED BY <2>2, <2>5
<1>10. SnapshotInv'
  BY <1>2, <1>3 DEF TableInv, SnapshotInv
<1>11. ResetInv' /\ ResumeInv'
  <2>1. \A d \in Consumers : rx'[d].pc = "live" => d \in revoked'
    BY <1>0, <1>2, <1>3 DEF TableInv, ResetInv
  <2> QED BY <1>0, <1>2, <2>1 DEF TableInv, ResetInv, ResumeInv, ResetStages
<1>12. BehindInv'
  BY <1>0, <1>2, <1>3, <1>4 DEF TableInv, BehindInv
<1> QED BY <1>5, <1>7, <1>9, <1>10, <1>11, <1>12 DEF TableInv, HoldInv, CursorInv

\* A recoverer that dies disturbs nobody.
LEMMA TableCrash ==
  ASSUME IInv, TableInv, GateTableAssumption, CrashRecoverer
  PROVE  TableInv' /\ \A d \in Consumers : Current(d)' => Current(d)
<1> USE DEF region, gate, history
<1>0. Recovering /\ recovery.c \in Consumers /\ TypeOK /\ write_cursor \in Nat /\ generation \in Nat
  BY RecoveryFacts DEF CrashRecoverer, IInv
<1>1. PICK c \in Consumers : c = recovery.c
  BY <1>0
<1>2. /\ UNCHANGED <<generation, table, revoked, write_cursor>> /\ recovery' = NoRecovery
      /\ rx'[c].pc = "dead" /\ rx'[c].read = rx[c].read /\ rx'[c].gen \in {0, rx[c].gen}
      /\ \A d \in Consumers : d # c => rx'[d] = rx[d]
  BY <1>0, <1>1, RxTo DEF CrashRecoverer, RxPcs
<1>3. \A d \in Consumers : ~Recoverer(d)'
  BY <1>2 DEF Recoverer, Recovering, NoRecovery
<1>4. ASSUME NEW d \in Consumers, d # c PROVE HoldOf(d)' /\ CursorOf(d)' /\ (Current(d)' => Current(d))
  BY <1>2, <1>3, <1>4, OthersKeep
<1>5. ~Current(c)' /\ HoldOf(c)' /\ CursorOf(c)'
  BY <1>2 DEF Current, HoldOf, CursorOf, Reading, Engaged, Holds, Mid_claim
<1>6. SnapshotInv'
  <2>1. \A d \in Consumers : /\ rx[d].gen <= generation /\ rx[d].gen \in Nat
                             /\ rx[d].pc = "rollback" => rx[d].gen < generation
    BY RecoveryFacts DEF TableInv, SnapshotInv
  <2>2. rx'[c].gen <= generation /\ rx'[c].pc # "rollback"
    BY <1>0, <1>2, <2>1
  <2> QED BY <1>2, <2>1, <2>2 DEF SnapshotInv, NoRecovery, ResetStages
<1>7. ResetInv' /\ ResumeInv'
  BY <1>2 DEF ResetInv, ResumeInv, NoRecovery, ResetStages
<1>8. BehindInv'
  <2>1. \A d \in Consumers : rx'[d].read = rx[d].read
    BY <1>2
  <2> QED BY <1>2, <2>1 DEF TableInv, BehindInv
<1> QED BY <1>4, <1>5, <1>6, <1>7, <1>8 DEF TableInv, HoldInv, CursorInv

\* All of TableInv, for the recovery's steps.
LEMMA TableRecovery ==
  ASSUME Races = {}, IInv, TableInv, GateTableAssumption, RecoveryStep
  PROVE  TableInv' /\ \A d \in Consumers : Current(d)' => Current(d)
BY TableBegin, TableReset, TablePasses, TableClose, TableResume, TableCrash DEF RecoveryStep

-----------------------------------------------------------------------------
\* The gate.

\* What the invariants say of the variables that the gate is computed from.
LEMMA GateFacts ==
  ASSUME IInv, TableInv, GateInv, GateTableAssumption
  PROVE  /\ TypeOK /\ write_cursor \in Nat /\ Capacity \in Nat /\ Capacity >= 2 /\ MaxSlots \in Nat
         /\ cached_min \in Int /\ cached_min <= write_cursor
         /\ \A s \in Slots : /\ cached_cursors[s] \in Int /\ cached_cursors[s] <= write_cursor
                             /\ table[s].cursor \in Int /\ table[s].cursor <= write_cursor
         /\ scan.slot \in 1 .. MaxSlots + 1 /\ scan.max_lag \in Nat /\ scan.any_active \in BOOLEAN
         /\ \A c \in Consumers : /\ rx[c].read \in Nat /\ rx[c].slot \in Slots
                                 /\ rx[c].read <= write_cursor /\ CursorOf(c) /\ HoldOf(c)
                                 /\ CursorAt(c) \in Int /\ CursorAt(c) <= write_cursor
         /\ \A c \in Consumers : Standing(c) => InRing(c) /\ \A p \in Producers : GateOf(p, c)
         /\ \A p, q \in Producers : Operating(p) /\ Operating(q) => p = q
<1>1. \A s \in Slots : table[s].cursor \in Int /\ table[s].cursor <= write_cursor
  BY DEF IInv, TypeOK, SlotType, DETACHED, TableInv, BehindInv
<1>2. \A c \in Consumers : rx[c].slot \in Slots
  BY DEF IInv, TypeOK, RxType
<1>3. \A c \in Consumers : CursorAt(c) \in Int /\ CursorAt(c) <= write_cursor
  BY <1>1, <1>2 DEF CursorAt
<1> QED
  BY <1>1, <1>3 DEF IInv, TypeOK, ScanType, RxType, GateTableAssumption, GateInv, TableInv, BehindInv,
     CursorInv, HoldInv, LeaseInv, HasLease

\* Whoever stands occupies its slot.
LEMMA StandingOccupies ==
  ASSUME IInv, TableInv, OwedInv, NEW c \in Consumers, Standing(c)
  PROVE  Occupies(c) /\ rx[c].epoch >= 1 /\ rx[c].pc \notin {"out", "claim", "full", "gone", "claimed"}
<1>1. CASE Current(c) /\ rx[c].pc # "claimed"
  <2>1. HoldOf(c)
    BY DEF TableInv, HoldInv
  <2> QED BY <1>1, <2>1 DEF HoldOf, Holds, Current, Mid_claim
<1>2. CASE Awaits(c) /\ recovery.stage \in {"none", "take"}
  BY <1>2 DEF OwedInv, Settles, Unseen
<1> QED BY <1>1, <1>2 DEF Standing

\* A step leaves someone standing where it stood, if it leaves it standing.
Stays(c) == Standing(c)' => Standing(c) /\ rx'[c].slot = rx[c].slot /\ CursorAt(c)' = CursorAt(c)

\* Those who stay, move on, or join at the write cursor, are ahead of an unchanged gate.
LEMMA GateOfReaders ==
  ASSUME IInv, TableInv, GateInv, GateTableAssumption,
         UNCHANGED <<tx, gate, write_cursor>>,
         \A c \in Consumers : Standing(c)' =>
           /\ CursorAt(c)' \in Nat /\ CursorAt(c)' <= write_cursor
           /\ \/ Standing(c) /\ rx'[c].slot = rx[c].slot /\ CursorAt(c) <= CursorAt(c)'
              \/ rx'[c].slot \in Slots /\ CursorAt(c)' = write_cursor
  PROVE  GateInv'
<1> USE DEF gate
<1>1. \A p \in Producers : (Gating(p)' <=> Gating(p)) /\ (Scanning(p)' <=> Scanning(p))
  BY DEF Gating, Scanning
<1>2. ASSUME NEW c \in Consumers, Standing(c)', NEW at \in Nat, at = CursorAt(c)'
      PROVE  /\ at <= write_cursor /\ write_cursor - at <= Capacity
             /\ \A p \in Producers :
                  /\ Gating(p) => cached_min <= at /\ cached_cursors[rx'[c].slot] <= at
                  /\ Scanning(p) /\ rx'[c].slot < scan.slot =>
                       /\ write_cursor - scan.max_lag <= at
                       /\ ~scan.any_active => at = write_cursor
                  /\ tx[p].pc = "granted" => write_cursor + 1 - at <= Capacity
  <2>1. CASE rx'[c].slot \in Slots /\ at = write_cursor
    BY <2>1, GateFacts
  <2>2. CASE Standing(c) /\ rx'[c].slot = rx[c].slot /\ CursorAt(c) <= at
    <3>1. at <= write_cursor
      BY <1>2
    <3>2. InRing(c) /\ CursorAt(c) \in Int /\ \A p \in Producers : GateOf(p, c)
      BY <2>2, GateFacts
    <3> QED BY <2>2, <3>1, <3>2, GateFacts DEF GateOf, InRing
  <2> QED BY <1>2, <2>1, <2>2
<1>3. ASSUME NEW c \in Consumers, Standing(c)'
      PROVE  InRing(c)' /\ \A p \in Producers : GateOf(p, c)'
  <2>1. PICK at \in Nat : at = CursorAt(c)'
    BY <1>3
  <2>2. InRing(c)'
    BY <1>2, <1>3, <2>1 DEF InRing
  <2>3. \A p \in Producers : GateOf(p, c)'
    BY <1>1, <1>2, <1>3, <2>1 DEF GateOf
  <2> QED BY <2>2, <2>3
<1>4. (\A p \in Producers : ~Scanning(p)') => scan' = NoScan
  BY <1>1 DEF GateInv
<1>5. cached_min' <= write_cursor' /\ \A s \in Slots : cached_cursors'[s] <= write_cursor'
  BY GateFacts
<1> QED BY <1>3, <1>4, <1>5 DEF GateInv

\* A gate that goes with its handle leaves none.
LEMMA GateIsGone ==
  ASSUME IInv, TableInv, GateInv, GateTableAssumption, NoGate, write_cursor' = write_cursor,
         \A p \in Producers : ~Gating(p)', \A c \in Consumers : Stays(c)
  PROVE  GateInv'
<1>1. \A p \in Producers : ~Scanning(p)' /\ tx'[p].pc # "granted"
  BY DEF Gating, Scanning
<1>2. \A c \in Consumers : Standing(c)' => InRing(c)' /\ \A p \in Producers : GateOf(p, c)'
  BY <1>1, GateFacts DEF Stays, InRing, GateOf
<1>3. cached_min' <= write_cursor' /\ \A s \in Slots : cached_cursors'[s] <= write_cursor'
  BY GateFacts DEF NoGate
<1> QED BY <1>1, <1>2, <1>3 DEF GateInv, NoGate

\* A handle that is not gating, and does not start to.
LEMMA GateOfOthers ==
  ASSUME GateInv, UNCHANGED <<gate, write_cursor>>,
         \A c \in Consumers : Stays(c),
         \A p \in Producers : \/ tx'[p].pc = tx[p].pc
                              \/ ~Gating(p)' /\ ~Scanning(p)
  PROVE  GateInv'
<1> USE DEF gate
<1>1. \A p \in Producers : /\ Gating(p)' => Gating(p)
                           /\ Scanning(p)' <=> Scanning(p)
                           /\ tx'[p].pc = "granted" => tx[p].pc = "granted"
  BY DEF Gating, Scanning
<1>2. ASSUME NEW c \in Consumers, Standing(c)' PROVE InRing(c)' /\ \A p \in Producers : GateOf(p, c)'
  <2>1. InRing(c) /\ (\A p \in Producers : GateOf(p, c)) /\ rx'[c].slot = rx[c].slot /\ CursorAt(c)' = CursorAt(c)
    BY <1>2 DEF Stays, GateInv
  <2> QED BY <1>1, <2>1 DEF InRing, GateOf
<1> QED BY <1>1, <1>2 DEF GateInv

\* The step of a handle that gates, or is about to: nobody else does.
LEMMA GateOfOne ==
  ASSUME IInv, TableInv, GateInv, GateTableAssumption, NEW p \in Producers, Operating(p),
         \A q \in Producers : q # p => tx'[q] = tx[q]
  PROVE  /\ \A q \in Producers : q # p =>
              ~Gating(q)' /\ ~Scanning(q)' /\ tx'[q].pc # "granted" /\ ~Operating(q)
         /\ ~Scanning(p) => scan = NoScan
<1>1. \A q \in Producers : q # p => ~Operating(q)
  BY GateFacts
<1>2. \A q \in Producers : q # p => ~Scanning(q) /\ ~Gating(q)
  BY <1>1 DEF Operating, Scanning, Gating
<1>3. \A q \in Producers : q # p => ~Gating(q)' /\ ~Scanning(q)' /\ tx'[q].pc # "granted"
  BY <1>1, <1>2 DEF Operating, Scanning, Gating
<1> QED BY <1>1, <1>2, <1>3 DEF GateInv

\* When no other handle gates, the invariant is about one.
LEMMA GateFromOne ==
  ASSUME NEW p \in Producers,
         \A q \in Producers : q # p => ~Gating(q)' /\ ~Scanning(q)' /\ tx'[q].pc # "granted",
         cached_min' <= write_cursor', \A s \in Slots : cached_cursors'[s] <= write_cursor',
         ~Scanning(p)' => scan' = NoScan,
         \A c \in Consumers : Standing(c)' => InRing(c)' /\ GateOf(p, c)'
  PROVE  GateInv'
<1>1. ASSUME NEW q \in Producers, NEW c \in Consumers, Standing(c)' PROVE GateOf(q, c)'
  BY <1>1 DEF GateOf
<1> QED BY <1>1 DEF GateInv

\* A consumer's step leaves the words of the slots that others occupy alone.
LEMMA OthersSlot ==
  ASSUME IInv, TableInv, GateTableAssumption, NEW c \in Consumers, ConsumerStep(c),
         NEW d \in Consumers, d # c, Occupies(d), rx[d].epoch >= 1
  PROVE  Occupies(d)' /\ CursorAt(d)' = CursorAt(d) /\ rx'[d] = rx[d]
<1>0. /\ TypeOK /\ rx[c].slot \in Slots /\ rx[d].slot \in Slots /\ rx[c].epoch \in Nat /\ rx[d].epoch \in Nat
      /\ rx'[d] = rx[d] /\ table \in [Slots -> SlotType] /\ table[rx[d].slot].state = "ACTIVE"
  BY OneConsumer DEF IInv, TypeOK, RxType, Occupies
<1>1. Engaged(c) => rx[c].slot # rx[d].slot
  BY Apart DEF TableInv
<1>2. SUFFICES /\ table'[rx[d].slot].cursor = table[rx[d].slot].cursor
               /\ table'[rx[d].slot].state = table[rx[d].slot].state
               /\ table'[rx[d].slot].epoch = table[rx[d].slot].epoch
  BY <1>0 DEF Occupies, CursorAt
<1>3. CASE rx[c].slot # rx[d].slot
  <2>1. table'[rx[d].slot] = table[rx[d].slot]
    BY <1>0, <1>3
    DEF ConsumerStep, OpenConsumer, ClaimSlot, StoreProvisional, LoadJoin, StoreJoin, StoreLease,
        RecheckClaim, release_table_claim, advance_one, flush, flush_pending, DropConsumer, StoreSentinel,
        FreeSlot, ReleaseSlotLease, CrashConsumer, ForceDetach, region
  <2> QED BY <2>1
<1>4. CASE rx[c].slot = rx[d].slot
  <2>1. ~Engaged(c)
    BY <1>1, <1>4
  <2>2. /\ rx[c].pc \notin {"claimed", "fenced", "joined", "lease", "sentinel", "control"}
        /\ rx[c].pc = "live" => ~owns_slot(c)
    BY <2>1 DEF Engaged, Holds, Mid_claim
  <2>3. ~ForceDetach(c)
    <3>1. SUFFICES ASSUME Occupies(c) PROVE FALSE
      BY DEF ForceDetach
    <3>2. rx[c].epoch = rx[d].epoch
      BY <1>4, <3>1 DEF Occupies
    <3> QED BY <1>0, <1>4, <3>2 DEF IInv, EpochIdentifiesOccupancy
  <2>4. CASE ClaimSlot(c)
    BY <1>0, <1>4, <2>4 DEF ClaimSlot
  <2>5. CASE ReleaseSlotLease(c)
    BY <1>0, <2>5 DEF ReleaseSlotLease
  <2>6. CASE OpenConsumer(c) \/ LoadJoin(c) \/ RecheckClaim(c) \/ release_table_claim(c)
             \/ CrashConsumer(c)
    BY <2>6 DEF OpenConsumer, LoadJoin, RecheckClaim, release_table_claim, CrashConsumer, region
  <2>7. CASE advance_one(c) \/ flush_pending(c) \/ DropConsumer(c)
    BY <2>2, <2>7 DEF advance_one, flush_pending, flush, DropConsumer, Runs
  <2> QED
    BY <2>2, <2>3, <2>4, <2>5, <2>6, <2>7 DEF ConsumerStep, StoreProvisional, StoreJoin, StoreLease,
       StoreSentinel, FreeSlot
<1> QED BY <1>3, <1>4

\* What a consumer's step does to the backlogs: its own death may add one.
LEMMA OwedOfOne ==
  ASSUME NEW c \in Consumers, ConsumerStep(c)
  PROVE  /\ interrupted' = interrupted
         /\ \A d \in Consumers : d # c => (d \in owed' => d \in owed)
         /\ CrashConsumer(c) \/ owed' \subseteq owed
BY DEF ConsumerStep, OpenConsumer, ClaimSlot, StoreProvisional, LoadJoin, StoreJoin, StoreLease,
       RecheckClaim, release_table_claim, advance_one, flush, flush_pending, DropConsumer, StoreSentinel,
       FreeSlot, ReleaseSlotLease, CrashConsumer, ForceDetach, history

\* Once it is owed, a consumer takes no step that leaves it so, but for its death.
LEMMA OwedIsStill ==
  ASSUME IInv, TableInv, OwedInv, GateTableAssumption, NEW c \in Consumers, ConsumerStep(c), Awaits(c)'
  PROVE  /\ CrashConsumer(c)
         /\ \/ rx[c].pc = "live" /\ c \notin revoked
            \/ Awaits(c) /\ rx[c].pc = "live" /\ recovery.stage \notin {"none", "take"}
<1>1. CASE Awaits(c)
  <2>1. rx[c].pc \in {"dead", "live"} /\ (recovery.stage \in {"none", "take"} => rx[c].pc = "dead")
    BY <1>1 DEF OwedInv, Settles
  <2>2. CASE rx[c].pc = "dead"
    <3>1. ForceDetach(c)
      BY <2>2 DEF ConsumerStep, OpenConsumer, ClaimSlot, StoreProvisional, LoadJoin, StoreJoin, StoreLease,
         RecheckClaim, release_table_claim, advance_one, flush_pending, DropConsumer, StoreSentinel,
         FreeSlot, ReleaseSlotLease, CrashConsumer, Runs
    <3> QED BY <3>1 DEF ForceDetach, Awaits
  <2>3. CASE rx[c].pc = "live"
    <3>1. recovery.stage \in ResetStages \union {"join"} /\ Recovering
      BY <2>1, <2>3 DEF IInv, TypeOK, RecoveryType, Stages, ResetStages, Recovering
    <3>2. c \in revoked /\ ~Runs(c)
      BY <2>3, <3>1 DEF TableInv, ResetInv, Runs
    <3>3. CrashConsumer(c) \/ ForceDetach(c)
      BY <2>3, <3>2 DEF ConsumerStep, OpenConsumer, ClaimSlot, StoreProvisional, LoadJoin, StoreJoin, StoreLease,
         RecheckClaim, release_table_claim, advance_one, flush_pending, DropConsumer, StoreSentinel,
         FreeSlot, ReleaseSlotLease
    <3> QED BY <1>1, <2>1, <2>3, <3>3 DEF ForceDetach, Awaits
  <2> QED BY <2>1, <2>2, <2>3
<1>2. CASE ~Awaits(c)
  BY <1>2, OwedOfOne DEF Awaits, CrashConsumer
<1> QED BY <1>1, <1>2

\* A consumer that reads, joins, leaves or dies stays at or ahead of the gate.
LEMMA GateConsumer ==
  ASSUME Races = {}, IInv, TableInv, GateInv, OwedInv, GateTableAssumption, NEW c \in Consumers, ConsumerStep(c)
  PROVE  GateInv'
<1> USE DEF region, gate, history
<1>0. /\ TypeOK /\ rx[c] \in RxType /\ rx[c].read \in Nat /\ rx[c].slot \in Slots /\ write_cursor \in Nat
      /\ CursorOf(c) /\ HoldOf(c) /\ generation \in Nat /\ rx[c].gen \in Nat
      /\ table \in [Slots -> SlotType]
  BY GateFacts DEF TypeOK, RxType
<1>1. /\ UNCHANGED <<tx, gate, write_cursor, generation, recovery>>
      /\ \A d \in Consumers : d # c => rx'[d] = rx[d]
  BY <1>0, OneConsumer
<1>2. \A d \in Consumers : d # c => (Current(d)' => Current(d))
  BY TableConsumer
<1>3. ASSUME NEW d \in Consumers, d # c, Standing(d)'
      PROVE  /\ CursorAt(d)' \in Nat /\ CursorAt(d)' <= write_cursor
             /\ Standing(d) /\ rx'[d].slot = rx[d].slot /\ CursorAt(d) <= CursorAt(d)'
  <2>1. Awaits(d)' => Awaits(d)
    BY <1>3, OwedOfOne DEF Awaits
  <2>2. Standing(d)
    BY <1>1, <1>2, <1>3, <2>1 DEF Standing
  <2>3. CursorAt(d)' = CursorAt(d)
    BY <1>3, <2>2, StandingOccupies, OthersSlot
  <2> QED BY <1>1, <1>3, <2>2, <2>3, GateFacts DEF InRing
<1>4. SUFFICES ASSUME Standing(c)'
               PROVE  /\ CursorAt(c)' \in Nat /\ CursorAt(c)' <= write_cursor
                      /\ \/ Standing(c) /\ rx'[c].slot = rx[c].slot /\ CursorAt(c) <= CursorAt(c)'
                         \/ rx'[c].slot \in Slots /\ CursorAt(c)' = write_cursor
  BY <1>1, <1>3, GateOfReaders
<1>5. Standing(c) => CursorAt(c) \in Nat /\ CursorAt(c) <= write_cursor
  BY GateFacts DEF InRing
<1>6. CASE Awaits(c)' /\ recovery.stage \in {"none", "take"}
  <2>1. rx[c].pc = "live" /\ c \notin revoked /\ CrashConsumer(c)
    BY <1>6, OwedIsStill
  <2>2. Standing(c)
    BY <2>1 DEF Standing, Current
  <2>3. CursorAt(c)' = CursorAt(c) /\ rx'[c].slot = rx[c].slot
    BY <1>0, <2>1 DEF CrashConsumer, CursorAt, RxType, TypeOK
  <2> QED BY <1>5, <2>2, <2>3
<1>7. CASE Current(c)' /\ rx'[c].pc # "claimed"
  <2>1. rx'[c].pc \in {"fenced", "joined", "lease", "recheck", "resume", "resumed", "live"}
    BY <1>7 DEF Current, Mid_claim
  <2>2. CASE OpenConsumer(c)
    <3>1. CASE closed
      BY <1>0, <2>1, <2>2, <3>1, RxTo DEF OpenConsumer, RxPcs
    <3>2. CASE ~closed
      BY <1>0, <2>1, <2>2, <3>2 DEF OpenConsumer, TypeOK, RxType
    <3> QED BY <3>1, <3>2
  <2>3. CASE ClaimSlot(c) \/ DropConsumer(c) \/ CrashConsumer(c)
    <3>1. rx'[c].pc \in {"claim", "full", "claimed", "gone", "sentinel", "dead"}
      BY <1>0, <2>3 DEF ClaimSlot, DropConsumer, CrashConsumer, TypeOK, RxType
    <3> QED BY <1>7, <2>1, <3>1
  <2>4. CASE release_table_claim(c) \/ StoreSentinel(c) \/ FreeSlot(c) \/ ReleaseSlotLease(c)
    <3>1. \E pc \in {"sentinel", "gone", "control", "unlease"} : rxTo(c, pc)
      BY <2>4 DEF release_table_claim, StoreSentinel, FreeSlot, ReleaseSlotLease
    <3>2. rx'[c].pc \in {"sentinel", "gone", "control", "unlease"}
      BY <1>0, <3>1, RxTo DEF RxPcs
    <3> QED BY <2>1, <3>2
  <2>5. CASE StoreProvisional(c)
    <3>1. rx'[c].slot = rx[c].slot
      BY <1>0, <2>5, RxTo DEF StoreProvisional, RxPcs
    <3>2. CursorAt(c)' = write_cursor
      BY <1>0, <2>5, <3>1 DEF StoreProvisional, CursorAt, SlotType
    <3> QED BY <1>0, <3>1, <3>2
  <2>6. CASE LoadJoin(c)
    <3>1. /\ rx[c].pc = "fenced" /\ rx'[c].pc = "joined" /\ rx'[c].gen = rx[c].gen
          /\ rx'[c].slot = rx[c].slot /\ table' = table
      BY <1>0, <2>6 DEF LoadJoin, TypeOK, RxType
    <3>2. Standing(c)
      BY <1>1, <1>7, <3>1 DEF Standing, Current, Mid_claim, Recoverer, Recovering
    <3> QED BY <1>5, <3>1, <3>2 DEF CursorAt
  <2>7. CASE StoreJoin(c) \/ StoreLease(c) \/ RecheckClaim(c)
    <3>1. rx[c].pc \in {"joined", "lease", "recheck"}
      BY <2>7 DEF StoreJoin, StoreLease, RecheckClaim
    <3>2. PICK pc \in {"lease", "resume", "recheck", "live", "rollback"} :
            /\ rxTo(c, pc)
            /\ pc = "live" => rx[c].gen = generation /\ rx[c].pc = "recheck"
            /\ pc = "resume" => Recoverer(c)
            /\ pc = "lease" => rx[c].pc = "joined"
            /\ pc = "recheck" => rx[c].pc = "lease"
      BY <2>7 DEF StoreJoin, StoreLease, RecheckClaim
    <3>3. rx'[c].pc = pc /\ rx'[c].slot = rx[c].slot
      BY <1>0, <3>2, RxTo DEF RxPcs
    <3>4. pc \in {"lease", "recheck"} => rx'[c].gen = rx[c].gen
      BY <1>0, <3>2 DEF rxTo, Checked, TypeOK, RxType
    <3>5. Recoverer(c)' <=> Recoverer(c)
      BY <1>1 DEF Recoverer, Recovering
    <3>6. Current(c)
      BY <1>1, <1>7, <3>1, <3>2, <3>3, <3>4, <3>5 DEF Current, Mid_claim
    <3>7. Standing(c) /\ Reading(c)
      BY <3>1, <3>6 DEF Standing, Reading
    <3>8. CursorAt(c) <= CursorAt(c)' /\ CursorAt(c)' \in Nat /\ CursorAt(c)' <= write_cursor
      <4>1. CASE StoreJoin(c)
        <5>1. CursorAt(c)' = rx[c].read
          BY <1>0, <3>3, <4>1 DEF StoreJoin, CursorAt, SlotType
        <5> QED BY <1>0, <3>7, <5>1 DEF CursorOf, CursorAt
      <4>2. CASE StoreLease(c)
        BY <1>0, <1>5, <3>3, <3>7, <4>2 DEF StoreLease, CursorAt, SlotType
      <4>3. CASE RecheckClaim(c)
        BY <1>5, <3>3, <3>7, <4>3 DEF RecheckClaim, CursorAt
      <4> QED BY <2>7, <4>1, <4>2, <4>3
    <3> QED BY <3>3, <3>7, <3>8
  <2>8. CASE advance_one(c) \/ flush_pending(c)
    <3>1. /\ rx[c].pc = "live" /\ revoked' = revoked
      BY <2>8 DEF advance_one, flush_pending, Runs
    <3>2. rx'[c].slot = rx[c].slot /\ rx'[c].pc = "live" /\ rx'[c].read \in Nat
          /\ rx[c].read <= rx'[c].read /\ rx'[c].read <= write_cursor
      <4>1. rx[c].read <= write_cursor
        BY GateFacts
      <4> QED BY <1>0, <2>8, <3>1, <4>1 DEF advance_one, flush_pending, flush, TypeOK, RxType
    <3>3. Standing(c) /\ Reading(c)
      BY <1>7, <3>1, <3>2 DEF Standing, Reading, Current, Mid_claim
    <3>4. CursorAt(c)' \in {CursorAt(c), rx'[c].read}
      BY <1>0, <2>8, <3>2 DEF advance_one, flush_pending, flush, CursorAt, SlotType, TypeOK, RxType
    <3>5. CursorAt(c) <= rx[c].read
      BY <1>0, <3>3 DEF CursorOf, CursorAt
    <3> QED BY <1>0, <1>5, <3>2, <3>3, <3>4, <3>5
  <2>9. CASE ForceDetach(c)
    <3>1. rx' = rx /\ revoked \subseteq revoked'
      BY <2>9 DEF ForceDetach
    <3>2. Standing(c)
      BY <1>1, <1>7, <3>1 DEF Standing, Current, Recoverer, Recovering
    <3>3. CursorAt(c)' = CursorAt(c)
      BY <1>0, <2>9, <3>1 DEF ForceDetach, CursorAt, SlotType
    <3> QED BY <1>5, <3>1, <3>2, <3>3
  <2> QED
    BY <2>2, <2>3, <2>4, <2>5, <2>6, <2>7, <2>8, <2>9 DEF ConsumerStep
<1> QED BY <1>1, <1>4, <1>6, <1>7 DEF Standing


\* Once the consumer of a recovery has resumed, no backlog is awaited.
LEMMA RecoveryEndFacts ==
  ASSUME IInv, OwedInv, Recovering, rx[recovery.c].pc = "resumed", recovery.c \in Consumers
  PROVE  recovery.stage = "join" /\ \A d \in Consumers : ~Awaits(d)
<1>1. recovery.stage = "join"
  BY DEF IInv, RecoveryInv, TypeOK, RecoveryType, Stages, ResetStages, Recovering
<1> QED BY <1>1 DEF OwedInv, Settles

\* When a producer's scan ends a recovery, its consumer has resumed.
LEMMA LastScan ==
  ASSUME IInv, GateTableAssumption, NEW p \in Producers, ScanFinish(p), Recoverer(p)
  PROVE  recovery.c \in Consumers /\ rx[recovery.c].pc = "resumed" /\ Recovering
<1>1. TypeOK /\ Recovering /\ RecoveryInv /\ p # recovery.c
  BY DEF Recoverer, IInv, RecoveryInv, GateTableAssumption
<1>2. recovery.p = p /\ recovery.c \in Consumers /\ recovery.stage \in Stages
  BY <1>1 DEF Recoverer, RecoveryInv, TypeOK, RecoveryType
<1>3. tx[p].pc \in {"first_scan", "scan"}
  BY DEF ScanFinish, Scanning
<1> QED BY <1>1, <1>2, <1>3 DEF RecoveryInv, Recovering, Stages, ResetStages

\* The producers' steps add no backlog, and move nobody.
LEMMA StandProducer ==
  ASSUME IInv, TableInv, GateInv, OwedInv, GateTableAssumption, NEW p \in Producers, ProducerStep(p)
  PROVE  \A c \in Consumers : Stays(c) /\ rx'[c].slot = rx[c].slot /\ CursorAt(c)' = CursorAt(c)
<1> USE DEF region, gate, history
<1>1. /\ \A c \in Consumers : Current(c)' => Current(c)
      /\ \A c \in Consumers : rx'[c].slot = rx[c].slot
  BY TableProducer
<1>2. table' = table /\ owed' = owed /\ interrupted' = interrupted
  BY DEF ProducerStep, OpenProducer, ClaimLease, RecheckLease, TakeLease, Reopen, Seed, HasSpace,
     ScanSlot, ScanFinish, Publish, DropProducer, ReleaseLease, CrashProducer
<1>3. \A c \in Consumers : CursorAt(c)' = CursorAt(c)
  BY <1>1, <1>2 DEF CursorAt
<1>4. CASE ScanFinish(p) /\ Recoverer(p)
  <2>1. TypeOK /\ recovery.c \in Consumers /\ rx[recovery.c].pc = "resumed" /\ Recovering
    BY <1>4, LastScan DEF IInv
  <2>2. \A c \in Consumers : rx'[c] = rx[c] \/ rx[c].pc = "resumed"
    BY <1>4, <2>1, RxTo DEF ScanFinish, RxPcs
  <2>3. \A c \in Consumers : ~Awaits(c)
    BY <2>1, RecoveryEndFacts
  <2>4. \A c \in Consumers : ~Awaits(c)'
    BY <1>2, <2>3 DEF Awaits
  <2>5. \A c \in Consumers : Standing(c)' => Standing(c)
    BY <1>1, <2>2, <2>4 DEF Standing
  <2> QED BY <1>1, <1>3, <2>5 DEF Stays
<1>5. CASE ~(ScanFinish(p) /\ Recoverer(p))
  <2>1. rx' = rx /\ recovery' = recovery
    BY <1>5 DEF ProducerStep, OpenProducer, ClaimLease, RecheckLease, TakeLease, Reopen, Seed, HasSpace,
       ScanSlot, ScanFinish, Publish, DropProducer, ReleaseLease, CrashProducer
  <2>2. \A c \in Consumers : Standing(c)' => Standing(c)
    BY <1>1, <1>2, <2>1 DEF Standing, Awaits
  <2> QED BY <1>1, <1>3, <2>2 DEF Stays
<1> QED BY <1>4, <1>5

\* The gate of the producers' own steps.
LEMMA GateSeed ==
  ASSUME IInv, TableInv, GateInv, OwedInv, GateTableAssumption, NEW p \in Producers, Seed(p)
  PROVE  GateInv'
<1> USE DEF region, gate, history
<1>1. /\ tx[p].pc = "seed" /\ tx'[p].pc = "first_scan" /\ \A q \in Producers : q # p => tx'[q] = tx[q]
      /\ rx' = rx /\ write_cursor' = write_cursor /\ table' = table
      /\ cached_min' = write_cursor - Capacity /\ scan' = NoScan
      /\ \A s \in Slots : cached_cursors'[s] = write_cursor - Capacity
  BY TxTo, GateFacts DEF Seed, TxPcs
<1>2. /\ \A q \in Producers : q # p => ~Gating(q)' /\ ~Scanning(q)' /\ tx'[q].pc # "granted"
  BY <1>1, GateOfOne DEF Operating
<1>3. write_cursor - Capacity <= write_cursor
  BY GateFacts
<1>4. ASSUME NEW c \in Consumers, Standing(c)' PROVE InRing(c)' /\ GateOf(p, c)'
  <2>1. Standing(c) /\ rx'[c].slot = rx[c].slot /\ CursorAt(c)' = CursorAt(c)
    BY <1>4, StandProducer DEF Stays, ProducerStep
  <2>2. InRing(c) /\ CursorAt(c) \in Int /\ rx[c].slot \in Slots /\ ~(rx[c].slot < 1)
    BY <2>1, GateFacts DEF Slots
  <2>3. write_cursor - Capacity <= CursorAt(c) /\ InRing(c)'
    BY <1>1, <2>1, <2>2, GateFacts DEF InRing
  <2> QED BY <1>1, <2>1, <2>2, <2>3 DEF GateOf, NoScan
<1> QED BY <1>1, <1>2, <1>3, <1>4, GateFromOne DEF Scanning

\* A slot is granted by a gate that everyone is ahead of.
LEMMA GateHasSpace ==
  ASSUME IInv, TableInv, GateInv, OwedInv, GateTableAssumption, NEW p \in Producers, HasSpace(p)
  PROVE  GateInv'
<1> USE DEF region, gate, history
<1>1. /\ tx[p].pc = "live" /\ tx'[p].pc = (IF Gated(write_cursor, cached_min) THEN "scan" ELSE "granted")
      /\ \A q \in Producers : q # p => tx'[q] = tx[q]
      /\ UNCHANGED <<rx, write_cursor, table, gate>>
  BY TxTo, GateFacts DEF HasSpace, TxPcs
<1>2. /\ \A q \in Producers : q # p => ~Gating(q)' /\ ~Scanning(q)' /\ tx'[q].pc # "granted"
      /\ scan = NoScan
  BY <1>1, GateOfOne DEF Operating, Scanning
<1>3. ASSUME NEW c \in Consumers, Standing(c)' PROVE InRing(c)' /\ GateOf(p, c)'
  <2>1. Standing(c) /\ rx'[c].slot = rx[c].slot /\ CursorAt(c)' = CursorAt(c)
    BY <1>3, StandProducer DEF Stays, ProducerStep
  <2>2. /\ InRing(c) /\ CursorAt(c) \in Int /\ ~(rx[c].slot < 1)
        /\ cached_min <= CursorAt(c) /\ cached_cursors[rx[c].slot] <= CursorAt(c)
    BY <1>1, <2>1, GateFacts DEF GateOf, Gating, Slots
  <2>3. tx'[p].pc = "granted" => write_cursor + 1 - CursorAt(c) <= Capacity
    <3>1. tx'[p].pc = "granted" => write_cursor + 1 - cached_min <= Capacity
      BY <1>1, GateFacts DEF Gated
    <3> QED BY <2>2, <3>1, GateFacts
  <2> QED BY <1>1, <1>2, <2>1, <2>2, <2>3 DEF GateOf, InRing, NoScan
<1>4. \A s \in Slots : cached_cursors[s] <= write_cursor
  BY GateFacts
<1> QED BY <1>1, <1>2, <1>3, <1>4, GateFromOne, GateFacts

\* A scan has seen everyone whose slot it has visited.
LEMMA GateScanSlot ==
  ASSUME IInv, TableInv, GateInv, OwedInv, GateTableAssumption, NEW p \in Producers, ScanSlot(p)
  PROVE  GateInv'
<1> USE DEF region, gate, history
<1> DEFINE cursor == table[scan.slot].cursor
           cached == cached_cursors[scan.slot]
           gates == Gated(write_cursor, cached)
<1>1. /\ Scanning(p) /\ scan.slot \in Slots /\ UNCHANGED <<rx, tx, write_cursor, table, cached_min>>
  BY DEF ScanSlot
<1>2. \A q \in Producers : q # p => ~Gating(q)' /\ ~Scanning(q)' /\ tx'[q].pc # "granted"
  BY <1>1, GateOfOne DEF Operating, Scanning
<1>3. /\ cursor \in Int /\ cursor <= write_cursor /\ cached \in Int /\ cached <= write_cursor
      /\ write_cursor \in Nat /\ scan.slot \in 1 .. MaxSlots + 1 /\ scan.max_lag \in Nat
      /\ scan \in ScanType /\ MaxSlots \in Nat
  BY <1>1, GateFacts DEF TypeOK
<1> HIDE DEF cursor, cached
\* What the visit of a slot leaves.
<1>4. /\ scan'.slot = scan.slot + 1
      /\ \/ /\ scan'.max_lag = scan.max_lag /\ scan'.any_active = scan.any_active
            /\ cached_cursors' = cached_cursors
            /\ table[scan.slot].state # "ACTIVE" \/ (gates /\ cursor = DETACHED)
         \/ /\ scan'.any_active = TRUE /\ scan'.max_lag = Larger(scan.max_lag, write_cursor - cursor)
            /\ cached_cursors' = [cached_cursors EXCEPT ![scan.slot] = cursor]
            /\ cursor # DETACHED
         \/ /\ scan'.any_active = TRUE /\ scan'.max_lag = Larger(scan.max_lag, write_cursor - cached)
            /\ cached_cursors' = cached_cursors
  BY <1>3 DEF ScanSlot, Skip, Saw, ScanType, cursor, cached
<1>5. scan'.max_lag \in Nat /\ scan.max_lag <= scan'.max_lag
  BY <1>3, <1>4 DEF Larger
<1>6. \A s \in Slots : cached_cursors'[s] \in {cached_cursors[s], cursor} /\ cached_cursors'[s] <= write_cursor
  BY <1>1, <1>3, <1>4, GateFacts DEF TypeOK
<1>7. ASSUME NEW c \in Consumers, Standing(c)', NEW at \in Nat, at = CursorAt(c)
      PROVE  /\ cached_min <= at /\ cached_cursors'[rx[c].slot] <= at
             /\ rx[c].slot < scan'.slot =>
                  /\ write_cursor - scan'.max_lag <= at
                  /\ ~scan'.any_active => at = write_cursor
             /\ tx[p].pc # "granted"
  <2>1. Standing(c)
    BY <1>7, StandProducer DEF Stays, ProducerStep
  <2>2. /\ rx[c].slot \in Slots /\ Gating(p) /\ GateOf(p, c) /\ Occupies(c)
        /\ cached_min <= at /\ cached_cursors[rx[c].slot] <= at
    BY <1>1, <1>7, <2>1, GateFacts, StandingOccupies DEF GateOf, Gating, Scanning
  <2>3. CASE rx[c].slot # scan.slot
    <3>1. rx[c].slot < scan'.slot => rx[c].slot < scan.slot
      BY <1>3, <1>4, <2>2, <2>3 DEF Slots
    <3>2. rx[c].slot < scan.slot =>
            write_cursor - scan.max_lag <= at /\ (~scan.any_active => at = write_cursor)
      BY <1>1, <1>7, <2>2 DEF GateOf
    <3>3. cached_cursors'[rx[c].slot] = cached_cursors[rx[c].slot]
      BY <1>4, <2>2, <2>3, GateFacts DEF TypeOK
    <3>4. scan.any_active => scan'.any_active
      BY <1>4
    <3> QED BY <1>1, <1>3, <1>5, <2>2, <3>1, <3>2, <3>3, <3>4 DEF Scanning
  <2>4. CASE rx[c].slot = scan.slot
    <3>1. cursor = at /\ cached <= at /\ table[scan.slot].state = "ACTIVE"
      BY <1>7, <2>2, <2>4 DEF Occupies, cursor, cached, CursorAt
    <3>2. cursor # DETACHED
      BY <3>1 DEF DETACHED
    <3>3. scan'.any_active /\ write_cursor - scan'.max_lag <= at
      BY <1>3, <1>4, <3>1, <3>2 DEF Larger
    <3>4. cached_cursors'[rx[c].slot] <= at
      BY <1>6, <2>2, <2>4, <3>1
    <3> QED BY <1>1, <2>2, <3>3, <3>4 DEF Scanning
  <2> QED BY <2>3, <2>4
<1>8. ASSUME NEW c \in Consumers, Standing(c)' PROVE InRing(c)' /\ GateOf(p, c)'
  <2>1. Standing(c) /\ rx'[c].slot = rx[c].slot /\ CursorAt(c)' = CursorAt(c)
    BY <1>8, StandProducer DEF Stays, ProducerStep
  <2>2. InRing(c)
    BY <2>1, GateFacts
  <2>3. InRing(c)'
    BY <1>1, <2>1, <2>2 DEF InRing
  <2>4. PICK at \in Nat : at = CursorAt(c)
    BY <2>2, GateFacts DEF InRing
  <2> QED BY <1>1, <1>7, <1>8, <2>1, <2>3, <2>4 DEF GateOf
<1>9. Scanning(p)'
  BY <1>1 DEF Scanning
<1> QED BY <1>1, <1>2, <1>6, <1>8, <1>9, GateFromOne, GateFacts

\* A finished scan has seen everyone.
LEMMA GateScanFinish ==
  ASSUME IInv, TableInv, GateInv, OwedInv, GateTableAssumption, NEW p \in Producers, ScanFinish(p)
  PROVE  GateInv'
<1> USE DEF region, gate, history
<1>1. /\ Scanning(p) /\ scan.slot \notin Slots /\ UNCHANGED <<write_cursor, table, cached_cursors>>
      /\ cached_min' = NewMin /\ scan' = NoScan
      /\ tx'[p].pc \in {"live", "granted"} /\ (tx'[p].pc = "granted" => ~Gated(write_cursor, NewMin))
      /\ \A q \in Producers : q # p => tx'[q] = tx[q]
  BY TxTo, GateFacts DEF ScanFinish, TxPcs
<1>2. \A q \in Producers : q # p => ~Gating(q)' /\ ~Scanning(q)' /\ tx'[q].pc # "granted"
  BY <1>1, GateOfOne DEF Operating, Scanning
<1>3. /\ write_cursor \in Nat /\ Capacity \in Nat /\ scan.max_lag \in Nat /\ scan.slot = MaxSlots + 1
      /\ NewMin \in Int /\ NewMin <= write_cursor
  BY <1>1, GateFacts DEF NewMin, Slots
<1>4. ASSUME NEW c \in Consumers, Standing(c)' PROVE InRing(c)' /\ GateOf(p, c)'
  <2>1. Standing(c) /\ rx'[c].slot = rx[c].slot /\ CursorAt(c)' = CursorAt(c)
    BY <1>4, StandProducer DEF Stays, ProducerStep
  <2>2. /\ rx[c].slot \in Slots /\ rx[c].slot < scan.slot /\ ~(rx[c].slot < 1)
        /\ InRing(c) /\ CursorAt(c) \in Int /\ GateOf(p, c)
    BY <1>3, <2>1, GateFacts DEF Slots
  <2>3. /\ write_cursor - scan.max_lag <= CursorAt(c)
        /\ ~scan.any_active => CursorAt(c) = write_cursor
        /\ cached_cursors[rx[c].slot] <= CursorAt(c)
    BY <1>1, <2>2 DEF GateOf, Gating, Scanning
  <2>4. NewMin <= CursorAt(c)
    BY <1>3, <2>2, <2>3 DEF NewMin
  <2>5. tx'[p].pc = "granted" => write_cursor + 1 - CursorAt(c) <= Capacity
    <3>1. tx'[p].pc = "granted" => write_cursor + 1 - NewMin <= Capacity
      BY <1>1, <1>3 DEF Gated
    <3> QED BY <1>3, <2>2, <2>4, <3>1
  <2> QED BY <1>1, <2>1, <2>2, <2>3, <2>4, <2>5 DEF GateOf, InRing, NoScan
<1>5. \A s \in Slots : cached_cursors[s] <= write_cursor
  BY GateFacts
<1> QED BY <1>1, <1>2, <1>3, <1>4, <1>5, GateFromOne

\* Publishing moves the producer away from the gate, not the gate.
LEMMA GatePublish ==
  ASSUME IInv, TableInv, GateInv, OwedInv, GateTableAssumption, NEW p \in Producers, Publish(p)
  PROVE  GateInv'
<1> USE DEF region, gate, history
<1>1. /\ tx[p].pc = "granted" /\ tx'[p].pc = "live" /\ \A q \in Producers : q # p => tx'[q] = tx[q]
      /\ UNCHANGED <<rx, gate>> /\ write_cursor' = write_cursor + 1
  BY TxTo, GateFacts DEF Publish, TxPcs
<1>2. /\ \A q \in Producers : q # p => ~Gating(q)' /\ ~Scanning(q)' /\ tx'[q].pc # "granted"
      /\ scan = NoScan
  BY <1>1, GateOfOne DEF Operating, Scanning
<1>3. cached_min <= write_cursor + 1 /\ \A s \in Slots : cached_cursors[s] <= write_cursor + 1
  BY GateFacts
<1>4. ~Scanning(p)' /\ tx'[p].pc # "granted"
  BY <1>1 DEF Scanning
<1>5. ASSUME NEW c \in Consumers, Standing(c)' PROVE InRing(c)' /\ GateOf(p, c)'
  <2>1. Standing(c) /\ rx'[c].slot = rx[c].slot /\ CursorAt(c)' = CursorAt(c)
    BY <1>5, StandProducer DEF Stays, ProducerStep
  <2>2. InRing(c) /\ GateOf(p, c) /\ CursorAt(c) \in Int
    BY <2>1, GateFacts
  <2>3. /\ cached_min <= CursorAt(c) /\ cached_cursors[rx[c].slot] <= CursorAt(c)
        /\ write_cursor + 1 - CursorAt(c) <= Capacity
    BY <1>1, <2>2 DEF GateOf, Gating
  <2>4. InRing(c)'
    BY <1>1, <2>1, <2>2, <2>3, GateFacts DEF InRing
  <2> QED BY <1>1, <1>4, <2>1, <2>3, <2>4 DEF GateOf
<1> QED BY <1>1, <1>2, <1>3, <1>4, <1>5, GateFromOne

\* A handle that loses the role loses the gate.
LEMMA GateLost ==
  ASSUME IInv, TableInv, GateInv, GateTableAssumption, NEW p \in Producers,
         tx'[p].pc \in {"release", "dead"}, \A q \in Producers : q # p => tx'[q] = tx[q],
         LoseGate(p), write_cursor' = write_cursor, \A c \in Consumers : Stays(c)
  PROVE  GateInv'
<1>1. ~Gating(p)'
  BY DEF Gating
<1>2. CASE Operating(p)
  <2>1. \A q \in Producers : ~Gating(q)'
    BY <1>1, <1>2, GateOfOne
  <2> QED BY <1>2, <2>1, GateIsGone DEF LoseGate
<1>3. CASE ~Operating(p)
  <2>1. ~Scanning(p)
    BY <1>3 DEF Operating, Scanning
  <2> QED BY <1>1, <1>3, <2>1, GateOfOthers DEF LoseGate
<1> QED BY <1>2, <1>3

\* All of GateInv, for the producers' steps.
LEMMA GateProducer ==
  ASSUME IInv, TableInv, GateInv, OwedInv, GateTableAssumption, NEW p \in Producers, ProducerStep(p)
  PROVE  GateInv'
<1> USE DEF region, gate, history
<1>0. TypeOK /\ \A c \in Consumers : Stays(c)
  BY GateFacts, StandProducer
<1>1. CASE OpenProducer(p) \/ ClaimLease(p) \/ RecheckLease(p) \/ Reopen(p) \/ ReleaseLease(p)
  <2>1. /\ UNCHANGED <<gate, write_cursor>>
        /\ tx[p].pc \in {"out", "claim", "recheck", "reopen", "release"}
    BY <1>1 DEF OpenProducer, ClaimLease, RecheckLease, Reopen, ReleaseLease
  <2>2. /\ tx'[p].pc \in {"claim", "take", "recheck", "gone", "reopen", "release", "reset", "seed"}
        /\ \A q \in Producers : q # p => tx'[q] = tx[q]
    <3>1. CASE OpenProducer(p)
      BY <1>0, <3>1 DEF OpenProducer, TypeOK
    <3>2. CASE ~OpenProducer(p)
      <4>1. \E pc \in {"recheck", "gone", "reopen", "release", "reset", "seed"} : txTo(p, pc)
        BY <1>1, <3>2 DEF ClaimLease, RecheckLease, Reopen, ReleaseLease
      <4> QED BY <1>0, <4>1, TxTo DEF TxPcs
    <3> QED BY <3>1, <3>2
  <2>3. ~Gating(p)' /\ ~Scanning(p)
    BY <2>1, <2>2 DEF Gating, Scanning
  <2> QED BY <1>0, <2>1, <2>2, <2>3, GateOfOthers
<1>2. CASE TakeLease(p)
  <2>1. \A q \in Producers : tx'[q].pc # "live" /\ tx'[q].pc \in Settled \union {"reopen"}
    BY <1>0, <1>2 DEF TakeLease, Settled, TypeOK, TxType
  <2>2. \A q \in Producers : ~Gating(q)'
    BY <2>1 DEF Gating, Settled
  <2> QED BY <1>0, <1>2, <2>2, GateIsGone DEF TakeLease
<1>3. CASE DropProducer(p) \/ CrashProducer(p)
  <2>1. /\ write_cursor' = write_cursor /\ LoseGate(p)
        /\ tx'[p].pc \in {"release", "dead"} /\ \A q \in Producers : q # p => tx'[q] = tx[q]
    BY <1>0, <1>3, TxTo DEF DropProducer, CrashProducer, TxPcs
  <2> QED BY <1>0, <2>1, GateLost
<1> QED BY <1>1, <1>2, <1>3, GateSeed, GateHasSpace, GateScanSlot, GateScanFinish, GatePublish DEF ProducerStep


\* The recovery's steps move nobody, but for the store of the resume point.
LEMMA StandRecovery ==
  ASSUME Races = {}, IInv, TableInv, OwedInv, GateTableAssumption, RecoveryStep, ~StoreResume
  PROVE  \A c \in Consumers : Stays(c)
<1> USE DEF region, gate, history
<1>0. /\ TypeOK /\ (Recovering => recovery.p \in Producers /\ recovery.c \in Consumers)
      /\ \A d \in Consumers : Current(d)' => Current(d)
  BY RecoveryFacts, TableRecovery DEF IInv
<1>1. CASE \E p \in Producers, c \in Consumers : BeginRecovery(p, c)
  <2>1. /\ UNCHANGED <<rx, table, owed, interrupted>> /\ recovery.stage = "none"
    BY <1>1 DEF BeginRecovery, Recovering
  <2>2. \A d \in Consumers : Standing(d)' => Standing(d)
    BY <1>0, <2>1 DEF Standing, Awaits
  <2> QED BY <2>1, <2>2 DEF Stays, CursorAt
<1>2. CASE OpenReset \/ RetryReset
  <2>1. recovery'.stage = "look" /\ \A d \in Consumers : ~Current(d)'
    BY <1>2, TableReset, RecoveryFacts DEF OpenReset, RetryReset, Reset, RecoveryType
  <2> QED BY <2>1 DEF Stays, Standing
<1>3. CASE ResetLook \/ ResetCursor \/ ResetSentinel \/ ResetLease \/ ResetLoadControl \/ ResetFree
  <2>1. recovery'.stage \notin {"none", "take"}
    BY <1>0, <1>3 DEF ResetLook, ResetCursor, ResetSentinel, ResetLease, ResetLoadControl, ResetFree,
       NextSlot, Goto, TypeOK, RecoveryType
  <2> QED BY <1>3, <2>1, TablePasses DEF Stays, Standing
<1>4. CASE CloseReset
  <2>1. recovery'.stage = "join" \/ interrupted'
    BY <1>0, <1>4 DEF CloseReset, TypeOK, RecoveryType
  <2> QED BY <1>4, <2>1, TableClose DEF Stays, Standing, Awaits
<1>5. CASE CrashRecoverer
  <2>1. Recovering /\ table' = table
    BY <1>5 DEF CrashRecoverer
  <2>2. PICK c \in Consumers : c = recovery.c
    BY <1>0, <2>1
  <2>3. /\ rx'[c].pc = "dead" /\ rx'[c].slot = rx[c].slot /\ \A d \in Consumers : d # c => rx'[d] = rx[d]
    BY <1>0, <1>5, <2>2, RxTo DEF CrashRecoverer, RxPcs
  <2>4. \A d \in Consumers : CursorAt(d)' = CursorAt(d) /\ rx'[d].slot = rx[d].slot
    BY <2>1, <2>3 DEF CursorAt
  <2>5. ASSUME NEW d \in Consumers, Standing(d)' PROVE Standing(d)
    <3>1. CASE d = c /\ rx[c].pc = "resumed"
      BY <3>1 DEF Standing, Current
    <3>2. CASE d # c /\ Current(d)' /\ rx'[d].pc # "claimed"
      BY <1>0, <2>3, <3>2 DEF Standing
    <3>3. ~(Current(c)')
      BY <2>3 DEF Current, Mid_claim
    <3>4. CASE Awaits(d)' /\ ~(d = c /\ rx[c].pc = "resumed")
      <4>1. ~interrupted /\ rx[c].pc = "resumed" /\ owed' = owed \union {c}
        BY <1>5, <2>2, <3>4 DEF CrashRecoverer, Awaits
      <4>2. Awaits(d)
        BY <3>4, <4>1 DEF Awaits
      <4> QED BY <2>1, <2>2, <4>1, <4>2, RecoveryEndFacts
    <3> QED BY <2>5, <3>1, <3>2, <3>3, <3>4 DEF Standing
  <2> QED BY <2>4, <2>5 DEF Stays
<1> QED BY <1>1, <1>2, <1>3, <1>4, <1>5 DEF RecoveryStep

\* All of GateInv, for the recovery's steps.
LEMMA GateRecovery ==
  ASSUME Races = {}, IInv, TableInv, GateInv, OwedInv, GateTableAssumption, RecoveryStep
  PROVE  GateInv'
<1> USE DEF region, gate, history
<1>0. TypeOK /\ (Recovering => recovery.p \in Producers /\ recovery.c \in Consumers)
  BY GateFacts, RecoveryFacts
<1>2. ASSUME NEW p \in Producers, NEW c \in Consumers, BeginRecovery(p, c) PROVE GateInv'
  <2>1. /\ UNCHANGED <<gate, rx, write_cursor>> /\ tx[p].pc = "out" /\ tx'[p].pc = "take"
        /\ \A q \in Producers : q # p => tx'[q] = tx[q]
    BY <1>0, <1>2, TxTo DEF BeginRecovery, TxPcs
  <2>2. ~Gating(p)' /\ ~Scanning(p)
    BY <2>1 DEF Gating, Scanning
  <2>3. ~StoreResume
    BY <1>2 DEF BeginRecovery, StoreResume, Resetting, Recovering
  <2> QED BY <2>1, <2>2, <2>3, StandRecovery, GateOfOthers
<1>3. CASE OpenReset \/ RetryReset \/ ResetLook \/ ResetCursor \/ ResetSentinel \/ ResetLease
           \/ ResetLoadControl \/ ResetFree
  <2>1. UNCHANGED <<gate, rx, tx, write_cursor>>
    BY <1>3 DEF OpenReset, RetryReset, ResetLook, ResetCursor, ResetSentinel, ResetLease, ResetLoadControl,
       ResetFree
  <2>2. ~StoreResume
    BY <1>0, <1>3 DEF OpenReset, RetryReset, ResetLook, ResetCursor, ResetSentinel, ResetLease, ResetLoadControl,
       ResetFree, StoreResume, Resetting
  <2> QED BY <2>1, <2>2, StandRecovery, GateOfOthers
<1>4. CASE CloseReset
  <2>1. UNCHANGED <<gate, write_cursor>> /\ Recovering /\ recovery.stage = "close"
    BY <1>4 DEF CloseReset, Resetting, Recovering
  <2>2. ~StoreResume
    BY <2>1 DEF StoreResume, Resetting
  <2>3. PICK p \in Producers : p = recovery.p /\ tx[p].pc = "reset"
    BY <1>0, <2>1 DEF IInv, RecoveryInv, ResetStages
  <2>4. tx' = tx \/ (tx'[p].pc = "release" /\ \A q \in Producers : q # p => tx'[q] = tx[q])
    BY <1>0, <1>4, <2>3, TxTo DEF CloseReset, TxPcs
  <2>5. ~Scanning(p)
    BY <2>3 DEF Scanning
  <2>6. \A q \in Producers : tx'[q].pc = tx[q].pc \/ (~Gating(q)' /\ ~Scanning(q))
    BY <2>4, <2>5 DEF Gating
  <2> QED BY <2>1, <2>2, <2>6, StandRecovery, GateOfOthers
<1>5. CASE StoreResume
  <2>1. /\ UNCHANGED <<gate, write_cursor>> /\ Recovering /\ recovery.stage = "join"
        /\ rx[recovery.c].pc = "resume" /\ owed' = {} /\ recovery' = recovery
    BY <1>5 DEF StoreResume, Resetting, Recovering
  <2>2. PICK p \in Producers : p = recovery.p /\ tx[p].pc = "reset"
    BY <1>0, <2>1 DEF IInv, RecoveryInv
  <2>3. tx'[p].pc = "seed" /\ \A q \in Producers : q # p => tx'[q] = tx[q]
    BY <1>0, <1>5, <2>2, TxTo DEF StoreResume, TxPcs
  <2>4. /\ \A q \in Producers : q # p => ~Gating(q)' /\ ~Scanning(q)' /\ tx'[q].pc # "granted"
        /\ scan = NoScan
    BY <2>2, <2>3, GateOfOne DEF Operating, Scanning
  <2>5. ~Gating(p)' /\ ~Scanning(p)' /\ tx'[p].pc # "granted"
    BY <2>3 DEF Gating, Scanning
  <2>6. cached_min <= write_cursor /\ \A s \in Slots : cached_cursors[s] <= write_cursor
    BY GateFacts
  <2>7. PICK c \in Consumers : c = recovery.c /\ rx[c].pc = "resume"
    BY <1>0, <2>1
  <2>8. /\ table \in [Slots -> SlotType] /\ rx \in [Consumers -> RxType] /\ rx[c].slot \in Slots
        /\ recovery.resume \in 0 .. write_cursor /\ write_cursor - recovery.resume <= Capacity
        /\ \A d \in Consumers : rx[d].slot \in Slots
    BY <2>1, RecoveryFacts DEF IInv, TypeOK, RxType, TableInv, ResumeInv
  <2>9. /\ rx'[c].slot = rx[c].slot /\ rx'[c].pc = "resumed" /\ \A d \in Consumers : d # c => rx'[d] = rx[d]
    BY <1>5, <2>7, <2>8 DEF StoreResume, RxType
  <2>10. CursorAt(c)' = recovery.resume
    BY <1>5, <2>7, <2>8, <2>9 DEF StoreResume, CursorAt, SlotType
  <2>11. InRing(c)'
    BY <2>1, <2>8, <2>10 DEF InRing
  <2>12. ASSUME NEW d \in Consumers, d # c, Standing(d)' PROVE InRing(d)'
    <3>1. Current(d) /\ rx[d].pc # "claimed"
      BY <1>5, <2>1, <2>9, <2>12, TableRecovery DEF Standing, Awaits, RecoveryStep
    <3>2. Standing(d) /\ Holds(d) /\ Engaged(c)
      BY <2>7, <3>1 DEF Standing, Holds, Engaged, Current
    <3>3. rx[d].slot # rx[c].slot
      BY <2>12, <3>2, Apart DEF TableInv
    <3>4. CursorAt(d)' = CursorAt(d)
      BY <1>5, <2>7, <2>8, <2>9, <2>12, <3>3 DEF StoreResume, CursorAt
    <3>5. InRing(d)
      BY <3>2, GateFacts
    <3> QED BY <2>1, <3>4, <3>5 DEF InRing
  <2>13. \A d \in Consumers : GateOf(p, d)'
    BY <2>5 DEF GateOf
  <2> QED BY <2>1, <2>4, <2>5, <2>6, <2>11, <2>12, <2>13, GateFromOne
<1>6. CASE CrashRecoverer
  <2>1. write_cursor' = write_cursor /\ Recovering /\ LoseGate(recovery.p) /\ recovery' = NoRecovery
    BY <1>6 DEF CrashRecoverer
  <2>2. PICK p \in Producers : p = recovery.p
    BY <1>0, <2>1
  <2>3. /\ tx'[p].pc = "dead" /\ (\A q \in Producers : q # p => tx'[q] = tx[q])
    BY <1>0, <1>6, <2>2, TxTo DEF CrashRecoverer, TxPcs
  <2>4. ~StoreResume
    BY <2>1 DEF StoreResume, Recovering, NoRecovery
  <2> QED BY <2>1, <2>2, <2>3, <2>4, StandRecovery, GateLost
<1> QED BY <1>2, <1>3, <1>4, <1>5, <1>6 DEF RecoveryStep


-----------------------------------------------------------------------------
\* The backlogs.

\* Who reads, and dies, leaves a backlog that a reset would find.
LEMMA ReaderIsUnseen ==
  ASSUME IInv, TableInv, GateInv, GateTableAssumption, NEW c \in Consumers, Reading(c)
  PROVE  Unseen(c)
<1>1. HoldOf(c) /\ CursorOf(c) /\ InRing(c)
  BY GateFacts DEF Standing, Reading
<1>2. Occupies(c) /\ rx[c].epoch >= 1
  BY <1>1 DEF HoldOf, Holds, Reading, Current, Mid_claim
<1> QED BY <1>1, <1>2 DEF Unseen, CursorOf, CursorAt, InRing

\* A backlog is where it was as long as its slot and its handle are.
LEMMA UnseenFrame ==
  ASSUME NEW c \in Consumers, Unseen(c), write_cursor' = write_cursor, table' = table,
         rx'[c].slot = rx[c].slot, rx'[c].epoch = rx[c].epoch, rx'[c].read = rx[c].read
  PROVE  Unseen(c)'
BY DEF Unseen, Occupies, CursorAt

\* A step that leaves the table, the handles and the recovery leaves the backlogs.
LEMMA OwedFrame ==
  ASSUME OwedInv, UNCHANGED <<table, rx, recovery, write_cursor, owed, interrupted>>
  PROVE  OwedInv'
<1>1. \A c \in Consumers : (Unseen(c)' <=> Unseen(c)) /\ (Seen(c)' <=> Seen(c)) /\ (Awaits(c)' <=> Awaits(c))
  BY DEF Unseen, Occupies, CursorAt, Seen, Awaits
<1>2. \A c \in Consumers : Settles(c)' <=> Settles(c)
  BY <1>1 DEF Settles
<1> QED BY <1>1, <1>2 DEF OwedInv

\* No step of a consumer resumes anyone: a recovery does.
LEMMA NobodyResumes ==
  ASSUME TypeOK, NEW c \in Consumers, ConsumerStep(c)
  PROVE  \A d \in Consumers : rx'[d].pc = "resumed" => rx[d].pc = "resumed"
<1>0. rx[c] \in RxType /\ \A d \in Consumers : d # c => rx'[d] = rx[d]
  BY OneConsumer DEF TypeOK
<1>1. rx'[c].pc = "resumed" => rx[c].pc = "resumed"
  <2>1. CASE (OpenConsumer(c) /\ ~closed) \/ ClaimSlot(c) \/ LoadJoin(c) \/ advance_one(c) \/ flush_pending(c)
             \/ DropConsumer(c) \/ CrashConsumer(c) \/ ForceDetach(c)
    BY <1>0, <2>1 DEF OpenConsumer, ClaimSlot, LoadJoin, advance_one, flush, flush_pending, DropConsumer,
       CrashConsumer, ForceDetach, TypeOK, RxType
  <2>2. CASE (OpenConsumer(c) /\ closed) \/ StoreProvisional(c) \/ StoreJoin(c) \/ StoreLease(c) \/ RecheckClaim(c)
             \/ release_table_claim(c) \/ StoreSentinel(c) \/ FreeSlot(c) \/ ReleaseSlotLease(c)
    <3>1. PICK pc \in RxPcs \ {"resumed"} : rxTo(c, pc)
      BY <2>2 DEF OpenConsumer, StoreProvisional, StoreJoin, StoreLease, RecheckClaim, release_table_claim,
         StoreSentinel, FreeSlot, ReleaseSlotLease, RxPcs
    <3>2. rx'[c].pc = pc
      BY <1>0, <3>1, RxTo
    <3> QED BY <3>1, <3>2
  <2> QED BY <2>1, <2>2 DEF ConsumerStep
<1> QED BY <1>0, <1>1

\* A consumer's step leaves the backlogs of the others, and of the dead, alone.
LEMMA OwedConsumer ==
  ASSUME Races = {}, IInv, TableInv, GateInv, OwedInv, GateTableAssumption, NEW c \in Consumers, ConsumerStep(c)
  PROVE  OwedInv'
<1>0. /\ TypeOK /\ rx[c] \in RxType /\ UNCHANGED <<write_cursor, recovery>>
      /\ \A d \in Consumers : d # c => rx'[d] = rx[d]
  BY OneConsumer DEF IInv, TypeOK
<1>1. \A d \in Consumers : rx'[d].pc = "resumed" => rx[d].pc = "resumed"
  BY <1>0, NobodyResumes
<1>2. ASSUME NEW d \in Consumers, d # c, Awaits(d)' PROVE Settles(d)'
  <2>1. Awaits(d) /\ Settles(d)
    BY <1>2, OwedOfOne DEF Awaits, OwedInv
  <2>2. Unseen(d) => Unseen(d)'
    <3>1. SUFFICES ASSUME Unseen(d) PROVE Unseen(d)'
      OBVIOUS
    <3>2. Occupies(d)' /\ CursorAt(d)' = CursorAt(d) /\ rx'[d] = rx[d]
      BY <1>2, <3>1, OthersSlot DEF Unseen
    <3> QED BY <1>0, <3>1, <3>2 DEF Unseen
  <2>3. Seen(d)' <=> Seen(d)
    BY <1>0, <1>2 DEF Seen
  <2>4. rx'[d] = rx[d]
    BY <1>0, <1>2
  <2>5. recovery'.stage = "join" => rx'[recovery'.c].pc # "resumed"
    <3>1. SUFFICES ASSUME recovery.stage = "join" PROVE rx'[recovery.c].pc # "resumed"
      BY <1>0
    <3>2. recovery.c \in Consumers
      BY <3>1, RecoveryFacts DEF Recovering
    <3> QED BY <1>1, <2>1, <3>1, <3>2 DEF Settles
  <2> QED BY <1>0, <2>1, <2>2, <2>3, <2>4, <2>5 DEF Settles
<1>3. ASSUME Awaits(c)' PROVE Settles(c)'
  <2>1. /\ CrashConsumer(c)
        /\ \/ rx[c].pc = "live" /\ c \notin revoked
           \/ Awaits(c) /\ rx[c].pc = "live" /\ recovery.stage \notin {"none", "take"}
    BY <1>3, OwedIsStill
  <2>2. /\ table' = table /\ rx'[c].pc = "dead" /\ rx'[c].slot = rx[c].slot /\ rx'[c].epoch = rx[c].epoch
        /\ rx'[c].read = rx[c].read
    <3>1. c \in owed' /\ rx' = [rx EXCEPT ![c].pc = "dead", ![c].pending = FALSE, ![c].gen = 0,
                                          ![c].read = IF c \in owed' THEN @ ELSE 0]
      BY <1>3, <2>1 DEF CrashConsumer, Awaits
    <3> QED BY <1>0, <2>1, <3>1 DEF CrashConsumer, region, RxType, TypeOK
  <2>3. CASE c \notin revoked
    <3>1. recovery.stage \in {"none", "take"}
      BY <1>0, <2>1, <2>3 DEF TableInv, ResetInv, TypeOK, RecoveryType, Stages, ResetStages
    <3>2. Reading(c)
      BY <2>1, <2>3 DEF Reading, Current
    <3>3. Unseen(c)'
      BY <1>0, <2>2, <3>2, ReaderIsUnseen, UnseenFrame
    <3> QED BY <1>0, <2>2, <3>1, <3>3 DEF Settles, ResetStages
  <2>4. CASE c \in revoked
    <3>1. Settles(c)
      BY <2>1, <2>4 DEF OwedInv
    <3>2. Unseen(c) => Unseen(c)'
      BY <1>0, <2>2, UnseenFrame
    <3>3. Seen(c)' <=> Seen(c)
      BY <1>0, <2>2 DEF Seen
    <3>4. recovery'.stage = "join" => rx'[recovery'.c].pc # "resumed"
      <4>1. SUFFICES ASSUME recovery.stage = "join" PROVE rx'[recovery.c].pc # "resumed"
        BY <1>0
      <4>2. recovery.c \in Consumers
        BY <4>1, RecoveryFacts DEF Recovering
      <4> QED BY <1>1, <3>1, <4>1, <4>2 DEF Settles
    <3> QED BY <1>0, <2>1, <2>2, <2>4, <3>1, <3>2, <3>3, <3>4 DEF Settles
  <2> QED BY <2>3, <2>4
<1> QED BY <1>2, <1>3 DEF OwedInv

\* Publishing is gated by every backlog, and the end of a recovery leaves none.
LEMMA OwedProducer ==
  ASSUME IInv, TableInv, GateInv, OwedInv, GateTableAssumption, NEW p \in Producers, ProducerStep(p)
  PROVE  OwedInv'
<1> USE DEF region, gate, history
<1>1. table' = table /\ owed' = owed /\ interrupted' = interrupted
  BY DEF ProducerStep, OpenProducer, ClaimLease, RecheckLease, TakeLease, Reopen, Seed, HasSpace,
     ScanSlot, ScanFinish, Publish, DropProducer, ReleaseLease, CrashProducer
<1>2. \A d \in Consumers : Awaits(d)' <=> Awaits(d)
  BY <1>1 DEF Awaits
<1>3. CASE ScanFinish(p) /\ Recoverer(p)
  BY <1>2, <1>3, LastScan, RecoveryEndFacts DEF OwedInv
<1>4. CASE Publish(p)
  <2>1. /\ UNCHANGED <<rx, recovery>> /\ write_cursor' = write_cursor + 1 /\ tx[p].pc = "granted"
        /\ recovery.stage \in {"none", "take"}
    BY <1>4, PublishesAlone DEF Publish, IInv, TypeOK, RecoveryType, Stages, ResetStages
  <2>2. ASSUME NEW d \in Consumers, Awaits(d)' PROVE Settles(d)'
    <3>1. Settles(d) /\ Standing(d) /\ rx[d].pc = "dead" /\ Unseen(d)
      BY <1>2, <2>1, <2>2 DEF OwedInv, Settles, Standing
    <3>2. write_cursor + 1 - CursorAt(d) <= Capacity
      BY <2>1, <3>1, GateFacts DEF GateOf
    <3>3. write_cursor' - CursorAt(d) <= Capacity
      BY <2>1, <3>2, GateFacts
    <3>4. rx' = rx /\ CursorAt(d)' = CursorAt(d) /\ (Occupies(d)' <=> Occupies(d))
      BY <1>1, <2>1 DEF Occupies, CursorAt
    <3>5. Unseen(d)'
      BY <3>1, <3>3, <3>4 DEF Unseen
    <3> QED BY <2>1, <3>1, <3>5 DEF Settles, ResetStages
  <2> QED BY <2>2 DEF OwedInv
<1>5. CASE ~Publish(p) /\ ~(ScanFinish(p) /\ Recoverer(p))
  <2>1. UNCHANGED <<rx, recovery, write_cursor>>
    BY <1>5 DEF ProducerStep, OpenProducer, ClaimLease, RecheckLease, TakeLease, Reopen, Seed, HasSpace,
       ScanSlot, ScanFinish, DropProducer, ReleaseLease, CrashProducer
  <2> QED BY <1>1, <2>1, OwedFrame
<1> QED BY <1>3, <1>4, <1>5

\* The first pass of a reset finds every backlog.
LEMMA OwedLook ==
  ASSUME IInv, TableInv, OwedInv, GateTableAssumption, ResetLook \/ ResetCursor
  PROVE  OwedInv'
<1> USE DEF region, gate, history
<1>0. /\ recovery \in RecoveryType /\ recovery.slot \in Slots /\ recovery.max_lag \in Nat /\ write_cursor \in Nat
      /\ recovery.stage \in {"look", "cursor"} /\ MaxSlots \in Nat /\ Capacity \in Nat
      /\ UNCHANGED <<rx, table, write_cursor, owed, interrupted>>
      /\ recovery.resume \in Nat /\ table[recovery.slot] \in SlotType
  BY RecoveryFacts DEF ResetLook, ResetCursor, Resetting, GateTableAssumption
<1>1. ASSUME NEW lag \in Nat
      PROVE  LET next == [NextSlot("look", "sentinel") EXCEPT !.max_lag = lag]
             IN  /\ next.max_lag = lag /\ next.attempt = recovery.attempt /\ next.resume = recovery.resume
                 /\ \/ next.stage = "look" /\ next.slot = recovery.slot + 1
                    \/ next.stage = "sentinel" /\ recovery.slot = MaxSlots
  BY <1>0 DEF NextSlot, RecoveryType, Slots
<1>2. /\ recovery'.attempt = recovery.attempt /\ recovery'.resume = recovery.resume
      /\ recovery'.max_lag \in Nat /\ recovery.max_lag <= recovery'.max_lag
      /\ \/ recovery'.stage = "cursor" /\ recovery'.slot = recovery.slot
         \/ /\ \/ recovery'.stage = "look" /\ recovery'.slot = recovery.slot + 1
               \/ recovery'.stage = "sentinel" /\ recovery.slot = MaxSlots
            /\ \/ table[recovery.slot].state = "FREE"
               \/ recovery'.max_lag = Lag(table[recovery.slot].cursor)
  <2>1. CASE ResetLook /\ table[recovery.slot].state = "FREE"
    <3>1. recovery' = [NextSlot("look", "sentinel") EXCEPT !.max_lag = recovery.max_lag]
      BY <1>0, <2>1 DEF ResetLook, NextSlot, RecoveryType
    <3> QED BY <1>0, <1>1, <2>1, <3>1
  <2>2. CASE ResetLook /\ table[recovery.slot].state # "FREE"
    BY <1>0, <2>2 DEF ResetLook, RecoveryType
  <2>3. CASE ResetCursor
    <3>1. table[recovery.slot].cursor \in Int
      BY <1>0 DEF SlotType, DETACHED
    <3>2. PICK lag \in Nat : lag = Lag(table[recovery.slot].cursor) /\ recovery.max_lag <= lag
      BY <1>0, <3>1 DEF Lag, Larger
    <3>3. recovery' = [NextSlot("look", "sentinel") EXCEPT !.max_lag = lag]
      BY <2>3, <3>2 DEF ResetCursor
    <3> QED BY <1>1, <3>2, <3>3
  <2> QED BY <2>1, <2>2, <2>3
<1>3. ASSUME NEW d \in Consumers, Awaits(d)' PROVE Settles(d)'
  <2>1. Settles(d) /\ rx[d].slot \in Slots /\ rx[d].read \in Nat
    BY <1>0, <1>3, RecoveryFacts DEF OwedInv, Awaits, RxType
  <2>2. Seen(d) => Seen(d)'
    BY <1>0, <1>2, <2>1 DEF Seen
  <2>3. Unseen(d) => Unseen(d)'
    BY <1>0, UnseenFrame
  <2>4. ASSUME Unseen(d), rx[d].slot = recovery.slot, recovery'.stage # "cursor" PROVE Seen(d)'
    <3>1. table[recovery.slot].state = "ACTIVE" /\ table[recovery.slot].cursor = CursorAt(d)
      BY <2>4 DEF Unseen, Occupies, CursorAt
    <3>2. recovery'.max_lag = Lag(CursorAt(d))
      BY <1>2, <2>4, <3>1
    <3>3. CursorAt(d) \in Nat /\ CursorAt(d) <= rx[d].read /\ write_cursor - CursorAt(d) <= Capacity
      BY <2>1, <2>4 DEF Unseen
    <3>4. write_cursor - CursorAt(d) <= recovery'.max_lag
      BY <1>0, <3>2, <3>3 DEF Lag, Larger, DETACHED
    <3> QED BY <1>0, <1>2, <2>1, <3>3, <3>4 DEF Seen
  <2>5. ASSUME recovery.attempt = 0
        PROVE  \/ Seen(d)'
               \/ recovery'.stage \in {"look", "cursor"} /\ recovery'.slot <= rx[d].slot /\ Unseen(d)'
    <3>1. CASE Seen(d)
      BY <2>2, <3>1
    <3>2. CASE recovery.slot <= rx[d].slot /\ Unseen(d)
      <4>1. CASE recovery'.stage = "cursor"
        BY <1>2, <2>3, <3>2, <4>1
      <4>2. CASE recovery'.stage # "cursor" /\ rx[d].slot = recovery.slot
        BY <2>4, <3>2, <4>2
      <4>3. CASE recovery'.stage # "cursor" /\ rx[d].slot # recovery.slot
        <5>1. recovery.slot < rx[d].slot /\ rx[d].slot <= MaxSlots
          BY <1>0, <2>1, <3>2, <4>3 DEF Slots
        <5> QED BY <1>0, <1>2, <2>1, <2>3, <3>2, <4>3, <5>1 DEF Slots
      <4> QED BY <4>1, <4>2, <4>3
    <3> QED BY <1>0, <2>1, <2>5, <3>1, <3>2 DEF Settles
  <2>6. recovery'.stage \in {"look", "cursor", "sentinel"}
    BY <1>2
  <2>7. recovery.attempt > 0 => recovery.resume <= rx[d].read
    BY <1>0, <2>1 DEF Settles, ResetStages
  <2> QED BY <1>0, <1>2, <2>1, <2>5, <2>6, <2>7 DEF Settles, ResetStages
<1> QED BY <1>3 DEF OwedInv

\* The second pass has it already.
LEMMA OwedPass ==
  ASSUME IInv, TableInv, OwedInv, GateTableAssumption,
         ResetSentinel \/ ResetLease \/ ResetLoadControl \/ ResetFree
  PROVE  OwedInv'
<1> USE DEF region, gate, history
<1>0. /\ recovery \in RecoveryType /\ recovery.stage \in {"sentinel", "lease", "control", "free"}
      /\ UNCHANGED <<rx, write_cursor, owed, interrupted>>
  BY RecoveryFacts DEF ResetSentinel, ResetLease, ResetLoadControl, ResetFree, Resetting
<1>1. /\ recovery'.attempt = recovery.attempt /\ recovery'.resume = recovery.resume
      /\ recovery'.max_lag = recovery.max_lag
      /\ recovery'.stage \in {"sentinel", "lease", "control", "free", "close"}
  BY <1>0 DEF ResetSentinel, ResetLease, ResetLoadControl, ResetFree, Goto, NextSlot, RecoveryType
<1>2. ASSUME NEW d \in Consumers, Awaits(d)' PROVE Settles(d)'
  <2>1. Settles(d)
    BY <1>0, <1>2 DEF OwedInv, Awaits
  <2>2. Seen(d)' <=> Seen(d)
    BY <1>0, <1>1 DEF Seen
  <2> QED BY <1>0, <1>1, <2>1, <2>2 DEF Settles, ResetStages
<1> QED BY <1>2 DEF OwedInv

\* The resume point is at or before the backlogs that the first reset has seen.
LEMMA OwedClose ==
  ASSUME IInv, TableInv, OwedInv, GateTableAssumption, CloseReset
  PROVE  OwedInv'
<1> USE DEF region, gate, history
<1>0. /\ TypeOK /\ recovery \in RecoveryType /\ recovery.stage = "close" /\ Recovering
      /\ UNCHANGED <<write_cursor, owed>> /\ recovery.attempt \in 0 .. Attempts /\ Attempts \in Nat
  BY RecoveryFacts DEF CloseReset, Resetting, Recovering, IInv
<1>1. CASE recovery.attempt = Attempts
  <2>1. interrupted'
    BY <1>1 DEF CloseReset
  <2> QED BY <2>1 DEF OwedInv, Awaits
<1>2. CASE recovery.attempt # Attempts
  <2>1. PICK c \in Consumers : c = recovery.c
    BY <1>0, RecoveryFacts
  <2>2. rx[c].pc \in {"out", "full"}
    BY <1>0, <2>1 DEF IInv, RecoveryInv, ResetStages
  <2>3. /\ rx' = [rx EXCEPT ![c].pc = "claim", ![c].slot = 1] /\ interrupted' = interrupted
        /\ recovery' = [recovery EXCEPT !.stage = "join", !.resume = Resume, !.max_lag = 0]
    BY <1>2, <2>1 DEF CloseReset
  <2>4. rx'[c].pc = "claim" /\ \A d \in Consumers : d # c => rx'[d] = rx[d]
    BY <1>0, <2>3 DEF TypeOK, RxType
  <2>5. recovery'.stage = "join" /\ recovery'.resume = Resume /\ recovery'.c = c
    BY <1>0, <2>1, <2>3 DEF RecoveryType
  <2>6. ASSUME NEW d \in Consumers, Awaits(d)' PROVE Settles(d)'
    <3>1. Settles(d) /\ rx'[d] = rx[d]
      BY <1>0, <2>2, <2>3, <2>4, <2>6 DEF OwedInv, Awaits, Settles
    <3>2. Resume <= rx[d].read
      BY <1>0, <3>1 DEF Resume, Settles, Seen, ResetStages
    <3> QED BY <2>4, <2>5, <3>1, <3>2 DEF Settles, ResetStages
  <2> QED BY <2>6 DEF OwedInv
<1> QED BY <1>1, <1>2

\* A reset that starts has every backlog before it, and one that starts again has
\* the resume point of the first.
LEMMA OwedReset ==
  ASSUME Races = {}, IInv, TableInv, GateInv, OwedInv, GateTableAssumption, OpenReset \/ RetryReset
  PROVE  OwedInv'
<1> USE DEF region, gate, history
<1>0. /\ recovery \in RecoveryType /\ UNCHANGED <<rx, table, write_cursor, interrupted>>
      /\ recovery.attempt \in 0 .. Attempts /\ Attempts \in Nat
      /\ recovery'.stage = "look" /\ recovery'.slot = 1 /\ recovery'.resume = recovery.resume
  BY RecoveryFacts DEF OpenReset, RetryReset, Reset, RecoveryType
<1>1. ASSUME NEW d \in Consumers, Awaits(d)' PROVE Settles(d)'
  <2>1. CASE OpenReset
    <3>1. recovery.stage = "take" /\ recovery'.attempt = 0
      BY <1>0, <2>1 DEF OpenReset, Resetting, Reset, RecoveryType, TableInv, ResumeInv
    <3>2. Awaits(d) \/ (rx[d].pc = "live" /\ d \notin revoked)
      BY <1>0, <1>1, <2>1 DEF OpenReset, Awaits
    <3>3. rx[d].pc \in {"dead", "live"} /\ Unseen(d)
      <4>1. CASE Awaits(d)
        BY <3>1, <4>1 DEF OwedInv, Settles
      <4>2. CASE rx[d].pc = "live" /\ d \notin revoked
        BY <4>2, ReaderIsUnseen DEF Reading, Current
      <4> QED BY <3>2, <4>1, <4>2
    <3>4. Unseen(d)' /\ 1 <= rx[d].slot
      BY <1>0, <3>3, UnseenFrame, RecoveryFacts DEF Slots
    <3> QED BY <1>0, <3>1, <3>3, <3>4 DEF Settles, ResetStages
  <2>2. CASE RetryReset
    <3>1. recovery.stage = "join" /\ recovery'.attempt > 0 /\ owed' = owed /\ recovery'.attempt # 0
      BY <1>0, <2>2 DEF RetryReset, Resetting, Reset, RecoveryType
    <3>2. Settles(d)
      BY <1>0, <1>1, <3>1 DEF OwedInv, Awaits
    <3> QED BY <1>0, <3>1, <3>2 DEF Settles, ResetStages
  <2> QED BY <2>1, <2>2
<1> QED BY <1>1 DEF OwedInv

\* A recoverer that dies once it has resumed leaves the one backlog it resumed.
LEMMA OwedCrash ==
  ASSUME IInv, TableInv, GateInv, OwedInv, GateTableAssumption, CrashRecoverer
  PROVE  OwedInv'
<1> USE DEF region, gate, history
<1>0. /\ TypeOK /\ Recovering /\ UNCHANGED <<table, write_cursor>> /\ recovery' = NoRecovery
  BY DEF CrashRecoverer, IInv
<1>1. PICK c \in Consumers : c = recovery.c
  BY <1>0, RecoveryFacts
<1>2. CASE rx[c].pc # "resumed"
  <2>1. interrupted'
    BY <1>1, <1>2 DEF CrashRecoverer
  <2> QED BY <2>1 DEF OwedInv, Awaits
<1>3. CASE rx[c].pc = "resumed"
  <2>1. owed' = owed \union {c} /\ (interrupted' => interrupted) /\ (interrupted => interrupted') /\ rxTo(c, "dead")
    BY <1>1, <1>3 DEF CrashRecoverer
  <2>2. rx'[c].pc = "dead" /\ rx'[c].slot = rx[c].slot /\ rx'[c].epoch = rx[c].epoch /\ rx'[c].read = rx[c].read
    BY <1>0, <2>1 DEF rxTo, TypeOK, RxType
  <2>3. Unseen(c)'
    BY <1>0, <1>3, <2>2, ReaderIsUnseen, UnseenFrame DEF Reading, Current
  <2>4. \A d \in Consumers : Awaits(d)' => d = c
    BY <1>0, <1>1, <1>3, <2>1, RecoveryEndFacts DEF Awaits
  <2>5. Settles(c)'
    BY <1>0, <2>2, <2>3 DEF Settles, NoRecovery, ResetStages
  <2> QED BY <2>4, <2>5 DEF OwedInv
<1> QED BY <1>2, <1>3

\* All of OwedInv, for the recovery's steps.
LEMMA OwedRecovery ==
  ASSUME Races = {}, IInv, TableInv, GateInv, OwedInv, GateTableAssumption, RecoveryStep
  PROVE  OwedInv'
<1> USE DEF region, gate, history
<1>1. CASE \E p \in Producers, c \in Consumers : BeginRecovery(p, c)
  <2>1. /\ UNCHANGED <<rx, table, owed, interrupted, write_cursor>> /\ recovery.stage = "none"
        /\ recovery'.stage = "take"
    BY <1>1 DEF BeginRecovery, Recovering, NoRecovery
  <2>2. ASSUME NEW d \in Consumers, Awaits(d)' PROVE Settles(d)'
    <3>1. rx[d].pc = "dead" /\ Unseen(d)
      BY <2>1, <2>2 DEF OwedInv, Awaits, Settles
    <3>2. Unseen(d)'
      BY <2>1, <3>1, UnseenFrame
    <3> QED BY <2>1, <3>1, <3>2 DEF Settles, ResetStages
  <2> QED BY <2>2 DEF OwedInv
<1>2. CASE StoreResume
  <2>1. owed' = {}
    BY <1>2 DEF StoreResume
  <2> QED BY <2>1 DEF OwedInv, Awaits
<1> QED BY <1>1, <1>2, OwedLook, OwedPass, OwedClose, OwedReset, OwedCrash DEF RecoveryStep

-----------------------------------------------------------------------------
\* After create_shm the table and the gate agree, and nobody has died.
LEMMA HoldInitial == ASSUME GateTableAssumption, Init PROVE TableInv /\ GateInv /\ OwedInv
<1>1. PICK p \in Producers, holder \in [1 .. Initially -> Consumers] :
        /\ \A s, t \in 1 .. Initially : holder[s] = holder[t] => s = t
        /\ tx = [q \in Producers |-> [pc |-> IF q = p THEN "live" ELSE "out", gen |-> 0]]
        /\ rx = [c \in Consumers |->
                   IF \E s \in 1 .. Initially : holder[s] = c
                   THEN [Outside EXCEPT !.pc = "live", !.epoch = 1,
                           !.slot = CHOOSE s \in 1 .. Initially : holder[s] = c]
                   ELSE Outside]
        /\ table = [s \in Slots |-> IF s \in 1 .. Initially
                      THEN [epoch |-> 1, state |-> "ACTIVE", cursor |-> 0, lease |-> holder[s]]
                      ELSE [epoch |-> IF s = 1 THEN 1 ELSE 0, state |-> "FREE", cursor |-> DETACHED,
                            lease |-> NoToken]]
  BY DEF Init
<1>2. /\ generation = 2 /\ write_cursor = 0
      /\ cached_min = 0 /\ scan = NoScan /\ recovery = NoRecovery
      /\ cached_cursors = [s \in Slots |-> IF s = 1 THEN 0 ELSE 0 - Capacity]
      /\ revoked = {} /\ owed = {} /\ Capacity \in Nat
  BY DEF Init, GateTableAssumption
<1> DEFINE slot(c) == CHOOSE s \in 1 .. Initially : holder[s] = c
           Joined(c) == \E s \in 1 .. Initially : holder[s] = c
<1>3. \A c \in Consumers : Joined(c) => slot(c) \in 1 .. Initially /\ holder[slot(c)] = c
  OBVIOUS
<1>4. \A c \in Consumers : rx[c] = IF Joined(c) THEN [Outside EXCEPT !.pc = "live", !.epoch = 1, !.slot = slot(c)]
                                   ELSE Outside
  BY <1>1
<1> HIDE DEF slot
<1>5. \A s \in 1 .. Initially : s \in Slots
  BY DEF GateTableAssumption, Slots
<1>6. \A s \in Slots : cached_cursors[s] <= 0
  BY <1>2
<1>7. ASSUME NEW c \in Consumers
      PROVE  /\ rx[c].gen = 0 /\ rx[c].read = 0 /\ rx[c].pc \in {"live", "out"}
             /\ rx[c].pc = "live" =>
                  /\ rx[c].epoch = 1 /\ Occupies(c) /\ owns_slot(c)
                  /\ table[rx[c].slot].cursor = 0 /\ rx[c].slot \in Slots
  <2>1. CASE Joined(c)
    <3>1. PICK s \in 1 .. Initially : s = slot(c) /\ holder[s] = c
      BY <1>3, <2>1
    <3>2. rx[c] = [Outside EXCEPT !.pc = "live", !.epoch = 1, !.slot = s]
      BY <1>4, <2>1, <3>1
    <3>3. /\ rx[c].pc = "live" /\ rx[c].gen = 0 /\ rx[c].read = 0 /\ rx[c].epoch = 1 /\ rx[c].slot = s
      BY <3>2 DEF Outside
    <3>4. table[s] = [epoch |-> 1, state |-> "ACTIVE", cursor |-> 0, lease |-> c]
      BY <1>1, <1>5, <3>1
    <3> QED BY <1>5, <3>3, <3>4 DEF Occupies, owns_slot
  <2>2. CASE ~Joined(c)
    <3>1. rx[c] = Outside
      BY <1>4, <2>2
    <3>2. rx[c].gen = 0 /\ rx[c].read = 0 /\ rx[c].pc = "out"
      BY <3>1 DEF Outside
    <3> QED BY <3>2
  <2> QED BY <2>1, <2>2
<1>8. \A s \in Slots : table[s].cursor \in {0, DETACHED}
  BY <1>1
<1>9. SnapshotInv /\ ResetInv /\ ResumeInv
  BY <1>2, <1>7 DEF SnapshotInv, ResetInv, ResumeInv, NoRecovery, ResetStages
<1>10. HoldInv
  <2>1. ASSUME NEW c \in Consumers PROVE HoldOf(c)
    <3>1. CASE rx[c].pc = "live"
      BY <1>7, <3>1 DEF HoldOf
    <3>2. CASE rx[c].pc = "out"
      BY <3>2 DEF HoldOf, Engaged, Holds, Current, Mid_claim
    <3> QED BY <1>7, <3>1, <3>2
  <2> QED BY <2>1 DEF HoldInv
<1>11. CursorInv
  BY <1>2, <1>7 DEF CursorInv, CursorOf, Reading, Current, Mid_claim
<1>12. BehindInv
  BY <1>2, <1>7, <1>8 DEF BehindInv, DETACHED
<1>13. GateInv
  <2>1. ASSUME NEW q \in Producers, NEW c \in Consumers, Standing(c)
        PROVE  InRing(c) /\ GateOf(q, c)
    <3>1. rx[c].pc = "live"
      BY <1>2, <1>7, <2>1 DEF Standing, Current, Mid_claim, Awaits
    <3>2. CursorAt(c) = 0 /\ rx[c].slot \in Slots
      BY <1>7, <3>1 DEF CursorAt
    <3>3. ~Scanning(q) /\ tx[q].pc # "granted"
      BY <1>1 DEF Scanning
    <3> QED BY <1>2, <1>6, <3>2, <3>3 DEF InRing, GateOf
  <2>2. \A c \in Consumers : Standing(c) => InRing(c)
    BY <1>1, <2>1
  <2> QED BY <1>2, <1>6, <2>1, <2>2 DEF GateInv
<1>14. OwedInv
  BY <1>2 DEF OwedInv, Awaits
<1> QED BY <1>9, <1>10, <1>11, <1>12, <1>13, <1>14 DEF TableInv

\* The table, the claims on it, the gate that its scans cache and the backlogs of
\* the dead agree in every behaviour without the attach/recover races.
THEOREM HoldInvariance ==
  ASSUME Races = {}
  PROVE  Spec => [](TableInv /\ GateInv /\ OwedInv)
<1> USE GateTableAssumption
<1>1. Init => TableInv /\ GateInv /\ OwedInv
  BY HoldInitial
<1>2. IInv /\ (TableInv /\ GateInv /\ OwedInv) /\ [Next]_vars => (TableInv /\ GateInv /\ OwedInv)'
  <2> SUFFICES ASSUME IInv, TableInv, GateInv, OwedInv, [Next]_vars PROVE TableInv' /\ GateInv' /\ OwedInv'
    OBVIOUS
  <2>1. ASSUME NEW p \in Producers, ProducerStep(p) PROVE TableInv' /\ GateInv' /\ OwedInv'
    BY <2>1, TableProducer, GateProducer, OwedProducer
  <2>2. ASSUME NEW c \in Consumers, ConsumerStep(c) PROVE TableInv' /\ GateInv' /\ OwedInv'
    BY <2>2, TableConsumer, GateConsumer, OwedConsumer
  <2>3. CASE RecoveryStep
    BY <2>3, TableRecovery, GateRecovery, OwedRecovery
  <2>4. CASE UNCHANGED vars
    <3>1. /\ UNCHANGED <<gate, write_cursor, rx, tx, table, recovery, owed, interrupted>>
          /\ TableInv' /\ \A c \in Consumers : Current(c)' => Current(c)
      BY <2>4, TableFrame DEF vars, region, history
    <3>2. \A c \in Consumers : Stays(c)
      BY <3>1 DEF Stays, Standing, Awaits, CursorAt
    <3> QED BY <3>1, <3>2, GateOfOthers, OwedFrame
  <2> QED BY <2>1, <2>2, <2>3, <2>4 DEF Next
<1> QED BY <1>1, <1>2, Invariance, PTL DEF Spec

\* Whichever handle is the producer, and however it came by the role, it never
\* overwrites what a consumer it must honour has yet to read.
THEOREM GateIsHonoured ==
  ASSUME Races = {}
  PROVE  Spec => []GateHolds
<1>1. ASSUME IInv, TableInv, GateInv PROVE GateHolds
  <2>1. SUFFICES ASSUME NEW c \in Consumers, Protected(c)
                 PROVE  Frontier - rx[c].read <= Capacity
    BY DEF GateHolds
  <2>2. Reading(c) /\ Standing(c)
    BY <2>1 DEF Protected, Reading, Standing, Current
  <2>3. /\ rx[c].read \in Nat /\ write_cursor \in Nat /\ write_cursor - rx[c].read <= Capacity
        /\ CursorAt(c) \in 0 .. rx[c].read /\ Capacity \in Nat
    BY <1>1, <2>2, GateTableAssumption
    DEF IInv, TypeOK, RxType, TableInv, CursorInv, CursorOf, CursorAt, GateTableAssumption
  <2>4. CASE \E p \in Producers : tx[p].pc = "granted"
    <3>1. write_cursor + 1 - CursorAt(c) <= Capacity
      BY <1>1, <2>2, <2>4 DEF GateInv, GateOf
    <3> QED BY <2>3, <2>4, <3>1 DEF Frontier
  <2>5. CASE ~\E p \in Producers : tx[p].pc = "granted"
    BY <2>3, <2>5 DEF Frontier
  <2> QED BY <2>4, <2>5
<1> QED BY <1>1, GateTableAssumption, Invariance, HoldInvariance, PTL

\* Attaches, late drops, forced detaches and recoveries of other handles never
\* take a consumer's slot, its lease or its cursor from it.
THEOREM SlotsAreKept ==
  ASSUME Races = {}
  PROVE  Spec => []HolderKeepsItsSlot
<1>1. ASSUME IInv, TableInv PROVE HolderKeepsItsSlot
  <2>1. SUFFICES ASSUME NEW c \in Consumers, Protected(c)
                 PROVE  /\ Occupies(c) /\ owns_slot(c)
                        /\ table[rx[c].slot].cursor # DETACHED /\ table[rx[c].slot].cursor <= rx[c].read
    BY DEF HolderKeepsItsSlot
  <2>2. Reading(c) /\ Current(c) /\ rx[c].pc \notin Mid_claim
    BY <2>1 DEF Protected, Reading, Current, Mid_claim
  <2>3. HoldOf(c) /\ CursorOf(c) /\ rx[c].read \in Nat
    BY <1>1 DEF IInv, TypeOK, RxType, TableInv, HoldInv, CursorInv
  <2> QED BY <2>2, <2>3 DEF HoldOf, Holds, CursorOf, DETACHED
<1> QED BY <1>1, Invariance, HoldInvariance, PTL

\* The consumer that recover_shm hands out resumes at or before the first element
\* that any consumer which died registered has not read, whatever was published,
\* detached or reset again between the death and the recovery.
THEOREM RecoversAll ==
  ASSUME Races = {}
  PROVE  Spec => RecoveryIsAtLeastOnce
<1> USE DEF region, gate, history
<1> DEFINE Resumes == \A c, d \in Consumers :
             (rx[c].pc = "resume" /\ rx'[c].pc = "resumed" /\ d \in owed /\ ~interrupted)
               => rx'[c].read <= rx[d].read
<1>1. ASSUME IInv, TableInv, GateInv, OwedInv, [Next]_vars PROVE [Resumes]_vars
  <2>1. SUFFICES ASSUME NEW c \in Consumers, NEW d \in Consumers, rx[c].pc = "resume", rx'[c].pc = "resumed",
                        Awaits(d)
                 PROVE  rx'[c].read <= rx[d].read
    BY DEF Awaits
  <2>2. TypeOK
    BY <1>1 DEF IInv
  <2>3. StoreResume
    <3>1. ASSUME NEW p \in Producers, ProducerStep(p) PROVE FALSE
      <4>1. rx' = rx \/ rxTo(recovery.c, "live")
        BY <3>1 DEF ProducerStep, OpenProducer, ClaimLease, RecheckLease, TakeLease, Reopen, Seed, HasSpace,
           ScanSlot, ScanFinish, Publish, DropProducer, ReleaseLease, CrashProducer
      <4>2. rxTo(recovery.c, "live")
        BY <2>1, <4>1
      <4>3. \A e \in Consumers : e # recovery.c => rx'[e] = rx[e]
        BY <2>2, <4>2 DEF rxTo, TypeOK
      <4>4. rxTo(c, "live")
        BY <2>1, <4>2, <4>3
      <4> QED BY <2>1, <2>2, <4>4, RxTo DEF RxPcs
    <3>2. ASSUME NEW e \in Consumers, ConsumerStep(e) PROVE FALSE
      BY <2>1, <2>2, <3>2, NobodyResumes
    <3>3. ASSUME RecoveryStep, ~StoreResume PROVE FALSE
      <4>1. rx' = rx \/ rxTo(recovery.c, "gone") \/ rxTo(recovery.c, "dead")
            \/ rx' = [rx EXCEPT ![recovery.c].pc = "claim", ![recovery.c].slot = 1]
        BY <3>3 DEF RecoveryStep, BeginRecovery, OpenReset, ResetLook, ResetCursor, ResetSentinel, ResetLease,
           ResetLoadControl, ResetFree, CloseReset, RetryReset, CrashRecoverer
      <4>2. ASSUME NEW pc \in {"gone", "dead"}, rxTo(recovery.c, pc) PROVE FALSE
        <5>1. \A e \in Consumers : e # recovery.c => rx'[e] = rx[e]
          BY <2>2, <4>2 DEF rxTo, TypeOK
        <5>2. rxTo(c, pc)
          BY <2>1, <4>2, <5>1
        <5> QED BY <2>1, <2>2, <5>2, RxTo DEF RxPcs
      <4>3. rx' # [rx EXCEPT ![recovery.c].pc = "claim", ![recovery.c].slot = 1]
        BY <2>1, <2>2 DEF TypeOK, RxType
      <4> QED BY <2>1, <4>1, <4>2, <4>3
    <3>4. CASE UNCHANGED vars
      BY <2>1, <3>4 DEF vars
    <3> QED BY <1>1, <3>1, <3>2, <3>3, <3>4 DEF Next
  <2>4. /\ recovery.stage = "join" /\ recovery.c \in Consumers
        /\ rx' = [rx EXCEPT ![recovery.c].pc = "resumed", ![recovery.c].read = recovery.resume]
    BY <1>1, <2>3, RecoveryFacts, GateTableAssumption DEF StoreResume, Resetting, Recovering
  <2>5. rx'[c].read = recovery.resume
    BY <2>1, <2>2, <2>4 DEF TypeOK, RxType
  <2> QED BY <1>1, <2>1, <2>4, <2>5 DEF OwedInv, Settles
<1> QED BY <1>1, Invariance, HoldInvariance, PTL DEF Spec, RecoveryIsAtLeastOnce

-----------------------------------------------------------------------------
(***************************************************************************)
(* Who gets into a region of ShmRegion, and on what header, for every      *)
(* number of handles and of creations.                                     *)
(*                                                                         *)
(* What the creators leave in the header and the leases they and the       *)
(* attachers take does not depend on how loads are ordered; what an        *)
(* attacher makes of the header does, and is proved for InOrder.           *)
(***************************************************************************)


Words == {GenerationWord, MagicWord, KindWord, GeometryWord}
Magic == Stores!Newest(MagicWord)
KindOwner == Stores!Newest(KindWord)
GeometryOwner == Stores!Newest(GeometryWord)
Header == <<Generation, Magic, KindOwner, GeometryOwner>>

\* Store t is the newest of l to its location: none, where there is none.
IsNewest(l, t, loc) ==
  /\ t \in 0 .. Len(l)
  /\ t = 0 \/ l[t].loc = loc
  /\ \A u \in t + 1 .. Len(l) : l[u].loc # loc

Logs == Seq([loc : Words, val : Nat, rel : Nat])
LogInv ==
  /\ log \in Logs
  /\ \A loc \in Words : \E t \in 0 .. Len(log) : IsNewest(log, t, loc)


\* The handles are those of the model; one that dies or is refused is a fresh one.
HandleState ==
  [pc : Creating \union {"out", "generation", "magic", "kind", "geometry", "recheck", "opened", "claimed",
                         "attached", "stale", "refused", "dead"},
   kind : Kinds, want : SUBSET Roles, force : BOOLEAN, held : SUBSET Roles, lost : SUBSET Roles,
   view : Nat, gen : Nat, ring : Nat, file_len : Nat]
Typed ==
  /\ lease \in [Roles -> Handles \union {Free}]
  /\ file \in {0} \union Lengths /\ zeroed \in BOOLEAN
  /\ rings \in Seq([kind : Kinds, len : Lengths, gen : Nat])
  /\ handle \in [Handles -> HandleState]

\* The creator, while the generation is odd, and what it has stored so far.
Mid == {"clear", "write", "lease", "zero", "publish", "close"}
CreatorOf(x) ==
  LET h == handle[x]
  IN  /\ h.pc = "invalidate" => h.ring = Len(rings) + 1 /\ file \in Lengths
      /\ h.pc \in Mid \union {"zero_late"} =>
           rings # << >> /\ h.ring = Len(rings) /\ rings[Len(rings)].kind = h.kind
      /\ h.pc \in Mid => rings[Len(rings)].gen = 0 /\ Generation % 2 = 1
      /\ h.pc \in {"lease", "zero", "publish", "close"} => KindOwner = Len(rings) /\ GeometryOwner = Len(rings)
      /\ h.pc = "close" => Magic = 1
      /\ h.pc = "zero" => h.kind = "lossy"
      /\ h.pc \in {"publish", "close"} /\ h.kind = "lossy" => zeroed
      /\ h.pc = "zero_late" => h.gen = Generation /\ rings[Len(rings)].gen = Generation /\ h.kind = "pair"
      /\ h.pc \in {"zero", "publish", "close", "zero_late"} => \A r \in h.held : lease[r] = x
CreatorInv ==
  /\ \A x \in Handles : CreatorOf(x)
  /\ \A x, y \in Handles : handle[x].pc \in Creating /\ handle[y].pc \in Creating => x = y

\* An even generation is that of the newest ring, and none is ahead of it.
RingsInv ==
  /\ \A n \in 1 .. Len(rings) : rings[n].gen <= Generation
  /\ Generation % 2 = 0 =>
       IF rings = << >> THEN Generation = 0 /\ Magic = 0
       ELSE rings[Len(rings)].gen = Generation /\ Generation # 0
  /\ FinishedIsOpen
  /\ rings # << >> /\ rings[Len(rings)].gen # 0 /\ rings[Len(rings)].kind = "lossy" => zeroed

\* Which handles may have a lease, and which may have lost one.
HolderOf(x) ==
  LET h == handle[x]
  IN  /\ h.pc \in {"out", "invalidate", "clear", "write", "lease", "generation", "magic", "kind", "geometry",
                   "recheck", "refused", "dead"} => h.held = {}
      /\ h.pc = "opened" /\ ~h.force => h.held = {}
      /\ h.pc = "claimed" => \E r \in Roles : h.held = {r}
      /\ h.pc \notin {"attached", "stale"} => h.lost = {}
HolderInv == NoLeaseLeaks /\ \A x \in Handles : HolderOf(x)

\* The creators' half, however the attachers' loads are ordered.
RegionInv == LogInv /\ Typed /\ CreatorInv /\ RingsInv /\ HolderInv

\* What an attacher has read is the header of its generation for as long as that
\* generation stands; once it is validated, it is of one ring.
ReaderOf(x) ==
  LET h == handle[x]
  IN  /\ h.pc \in {"magic", "kind", "geometry", "recheck", "opened", "claimed", "attached", "stale"} =>
           h.gen <= Generation /\ h.gen % 2 = 0
      /\ h.gen = Generation =>
           /\ h.pc \in {"kind", "geometry", "recheck"} => Magic = 1
           /\ h.pc \in {"geometry", "recheck"} => h.kind = rings[KindOwner].kind
           /\ h.pc = "recheck" => h.ring = GeometryOwner
      /\ Validated(x) =>
           h.ring \in 1 .. Len(rings) /\ rings[h.ring].kind = h.kind /\ rings[h.ring].gen = h.gen /\ h.gen # 0
      /\ Attached(x) => h.gen = Generation
      /\ h.pc \in {"opened", "claimed", "attached"} /\ h.gen = Generation =>
           \A r \in h.held \ h.lost : lease[r] = x
ReaderInv == \A x \in Handles : ReaderOf(x)

-----------------------------------------------------------------------------
(* The log *)

LEMMA WordsDiffer ==
  /\ GenerationWord # MagicWord /\ GenerationWord # KindWord /\ GenerationWord # GeometryWord
  /\ MagicWord # KindWord /\ MagicWord # GeometryWord /\ KindWord # GeometryWord
BY DEF GenerationWord, MagicWord, KindWord, GeometryWord

\* There is one newest store to a location, and Newest finds it.
LEMMA NewestIsUnique ==
  ASSUME NEW l \in Logs, NEW loc \in Words, NEW t, IsNewest(l, t, loc)
  PROVE  t = CHOOSE s \in 0 .. Len(l) : (s = 0 \/ l[s].loc = loc) /\ \A u \in s + 1 .. Len(l) : l[u].loc # loc
<1> DEFINE P(s) == s \in 0 .. Len(l) /\ (s = 0 \/ l[s].loc = loc) /\ \A u \in s + 1 .. Len(l) : l[u].loc # loc
<1>1. P(t)
  BY DEF IsNewest
<1>2. ASSUME NEW s, P(s) PROVE s = t
  <2>1. s \in Nat /\ t \in Nat /\ Len(l) \in Nat /\ s <= Len(l) /\ t <= Len(l)
    BY <1>1, <1>2 DEF Logs
  <2>2. CASE s < t
    BY <1>1, <1>2, <2>1, <2>2
  <2>3. CASE t < s
    BY <1>1, <1>2, <2>1, <2>3
  <2> QED BY <2>1, <2>2, <2>3
<1> QED BY <1>1, <1>2

LEMMA NewestValue ==
  ASSUME LogInv, NEW loc \in Words, NEW t, IsNewest(log, t, loc)
  PROVE  Stores!Newest(loc) = Stores!Value(t)
BY NewestIsUnique DEF LogInv, Stores!Newest, Stores!IsStore, Stores!Now

LEMMA NewestValueAfter ==
  ASSUME LogInv', NEW loc \in Words, NEW t, IsNewest(log', t, loc)
  PROVE  Stores!Newest(loc)' = Stores!Value(t)'
BY NewestIsUnique DEF LogInv, Stores!Newest, Stores!IsStore, Stores!Now

\* A store is the newest to its own location and leaves the others alone.
LEMMA Stored ==
  ASSUME LogInv, NEW w \in Words, NEW v \in Nat, NEW k \in Nat,
         log' = Append(log, [loc |-> w, val |-> v, rel |-> k])
  PROVE  /\ LogInv'
         /\ Stores!Newest(w)' = v
         /\ \A loc \in Words \ {w} : Stores!Newest(loc)' = Stores!Newest(loc)
<1>1. PICK n \in Nat : n = Len(log) + 1
  BY DEF LogInv, Logs
<1>2. /\ Len(log) = n - 1 /\ Len(log') = n /\ log'[n] = [loc |-> w, val |-> v, rel |-> k]
      /\ \A u \in 1 .. n - 1 : log'[u] = log[u]
  BY <1>1 DEF LogInv, Logs
<1>3. /\ log' \in Logs
      /\ IsNewest(log', n, w)
  BY <1>1, <1>2 DEF LogInv, Logs, IsNewest
<1>4. ASSUME NEW loc \in Words \ {w}, NEW t, IsNewest(log, t, loc) PROVE IsNewest(log', t, loc)
  <2>1. t \in 0 .. Len(log) /\ t \in 0 .. Len(log')
    BY <1>1, <1>2, <1>4 DEF IsNewest
  <2>2. t = 0 \/ log'[t].loc = loc
    BY <1>2, <1>4, <2>1 DEF IsNewest
  <2>3. ASSUME NEW u \in t + 1 .. Len(log') PROVE log'[u].loc # loc
    <3>1. CASE u = n
      BY <1>2, <3>1
    <3>2. CASE u # n
      <4>1. u \in t + 1 .. Len(log) /\ u \in 1 .. Len(log)
        BY <1>2, <2>1, <2>3, <3>2
      <4> QED BY <1>2, <1>4, <4>1 DEF IsNewest
    <3> QED BY <3>1, <3>2
  <2> QED BY <2>1, <2>2, <2>3 DEF IsNewest
<1>5. LogInv'
  <2>1. ASSUME NEW loc \in Words PROVE \E t \in 0 .. Len(log') : IsNewest(log', t, loc)
    <3>1. CASE loc = w
      BY <1>2, <1>3, <3>1
    <3>2. CASE loc # w
      <4>1. PICK t \in 0 .. Len(log) : IsNewest(log, t, loc)
        BY DEF LogInv
      <4>2. IsNewest(log', t, loc)
        BY <1>4, <3>2, <4>1
      <4> QED BY <1>2, <4>1, <4>2
    <3> QED BY <3>1, <3>2
  <2> QED BY <1>3, <2>1 DEF LogInv
<1>6. Stores!Newest(w)' = v
  <2>1. Stores!Newest(w)' = Stores!Value(n)'
    BY <1>3, <1>5, NewestValueAfter
  <2> QED BY <1>2, <2>1 DEF Stores!Value
<1>7. ASSUME NEW loc \in Words \ {w} PROVE Stores!Newest(loc)' = Stores!Newest(loc)
  <2>1. PICK t \in 0 .. Len(log) : IsNewest(log, t, loc)
    BY DEF LogInv
  <2>2. IsNewest(log', t, loc) /\ Stores!Newest(loc) = Stores!Value(t)
    BY <1>4, <2>1, NewestValue
  <2>3. Stores!Newest(loc)' = Stores!Value(t)'
    BY <1>5, <2>2, NewestValueAfter
  <2> QED BY <1>2, <2>1, <2>2, <2>3 DEF Stores!Value
<1> QED BY <1>5, <1>6, <1>7

\* In program order a load finds the newest store.
LEMMA LoadsNewest ==
  ASSUME LogInv, InOrder, NEW x \in Handles, NEW loc \in Words, NEW t \in Loads(x)!Visible(loc)
  PROVE  Stores!Value(t) = Stores!Newest(loc)
<1>1. IsNewest(log, t, loc)
  BY DEF Loads!Visible, Loads!IsStore, Loads!Now, IsNewest
<1> QED BY <1>1, NewestValue

-----------------------------------------------------------------------------
(* What a step does to the header *)

LEMMA HeaderSame ==
  ASSUME LogInv, UNCHANGED log
  PROVE  LogInv' /\ Header' = Header
<1>1. LogInv'
  BY DEF LogInv
<1>2. ASSUME NEW loc \in Words PROVE Stores!Newest(loc)' = Stores!Newest(loc)
  <2>1. PICK t \in 0 .. Len(log) : IsNewest(log, t, loc)
    BY DEF LogInv
  <2>2. Stores!Newest(loc) = Stores!Value(t) /\ Stores!Newest(loc)' = Stores!Value(t)'
    BY <1>1, <2>1, NewestValue, NewestValueAfter
  <2> QED BY <2>2 DEF Stores!Value
<1> QED BY <1>1, <1>2 DEF Header, Generation, Magic, KindOwner, GeometryOwner, Words

LEMMA LogEntry ==
  ASSUME LogInv, NEW t \in 0 .. Len(log), t # 0
  PROVE  log[t] \in [loc : Words, val : Nat, rel : Nat]
<1>1. t \in 1 .. Len(log)
  BY DEF LogInv, Logs
<1> QED BY <1>1, ElementOfSeq DEF LogInv, Logs

\* Every word of the header holds a number.
LEMMA HeaderTyped ==
  ASSUME LogInv
  PROVE  Generation \in Nat /\ Magic \in Nat /\ KindOwner \in Nat /\ GeometryOwner \in Nat
<1>1. ASSUME NEW loc \in Words PROVE Stores!Newest(loc) \in Nat
  <2>1. PICK t \in 0 .. Len(log) : IsNewest(log, t, loc)
    BY DEF LogInv
  <2>2. Stores!Newest(loc) = Stores!Value(t)
    BY <2>1, NewestValue
  <2>3. t # 0 => log[t] \in [loc : Words, val : Nat, rel : Nat]
    BY LogEntry
  <2> QED BY <2>2, <2>3 DEF Stores!Value
<1> QED BY <1>1 DEF Generation, Magic, KindOwner, GeometryOwner, Words

LEMMA OddIsOdd ==
  ASSUME NEW g \in Nat
  PROVE  Odd(g) \in Nat /\ Odd(g) % 2 = 1 /\ Odd(g) >= g /\ (g % 2 = 0 => (g + 1) % 2 = 1) /\ (g % 2 = 1 => (g + 1) % 2 = 0)
BY DEF Odd

LEMMA HeaderInvalidate ==
  ASSUME LogInv, NEW x \in Handles, Invalidate(x)
  PROVE  LogInv' /\ Generation' = Odd(Generation) /\ Magic' = Magic /\ KindOwner' = KindOwner /\ GeometryOwner' = GeometryOwner
<1>1. PICK k \in Nat : k = Len(log) + 1
  BY DEF LogInv, Logs
<1>2. log' = Append(log, [loc |-> GenerationWord, val |-> Odd(Generation), rel |-> k])
  BY <1>1 DEF Invalidate, Store, Stores!Release
<1>3. Odd(Generation) \in Nat
  BY HeaderTyped, OddIsOdd
<1> QED BY <1>2, <1>3, Stored, WordsDiffer DEF Words, Generation, Magic, KindOwner, GeometryOwner

LEMMA HeaderClear ==
  ASSUME LogInv, NEW x \in Handles, ClearMagic(x)
  PROVE  LogInv' /\ Generation' = Generation /\ Magic' = 0 /\ KindOwner' = KindOwner /\ GeometryOwner' = GeometryOwner
<1>1. PICK k \in Nat : k = Len(log) + 1
  BY DEF LogInv, Logs
<1>2. log' = Append(log, [loc |-> MagicWord, val |-> 0, rel |-> k])
  BY <1>1 DEF ClearMagic, Store, Stores!Release
<1> QED BY <1>2, Stored, WordsDiffer DEF Words, Generation, Magic, KindOwner, GeometryOwner

LEMMA HeaderPublish ==
  ASSUME LogInv, NEW x \in Handles, PublishMagic(x)
  PROVE  LogInv' /\ Generation' = Generation /\ Magic' = 1 /\ KindOwner' = KindOwner /\ GeometryOwner' = GeometryOwner
<1>1. PICK k \in Nat : k = Len(log) + 1
  BY DEF LogInv, Logs
<1>2. log' = Append(log, [loc |-> MagicWord, val |-> 1, rel |-> k])
  BY <1>1 DEF PublishMagic, Store, Stores!Release
<1> QED BY <1>2, Stored, WordsDiffer DEF Words, Generation, Magic, KindOwner, GeometryOwner

LEMMA HeaderClose ==
  ASSUME LogInv, NEW x \in Handles, CloseGeneration(x)
  PROVE  LogInv' /\ Generation' = Generation + 1 /\ Magic' = Magic /\ KindOwner' = KindOwner /\ GeometryOwner' = GeometryOwner
<1>1. PICK k \in Nat : k = Len(log) + 1
  BY DEF LogInv, Logs
<1>2. log' = Append(log, [loc |-> GenerationWord, val |-> Generation + 1, rel |-> k])
  BY <1>1 DEF CloseGeneration, Store, Stores!Release
<1>3. Generation + 1 \in Nat
  BY HeaderTyped
<1> QED BY <1>2, <1>3, Stored, WordsDiffer DEF Words, Generation, Magic, KindOwner, GeometryOwner

\* The two fields are two stores: the lemma holds of the log between them as well.
LEMMA HeaderWrite ==
  ASSUME LogInv, Typed, NEW x \in Handles, WriteHeader(x)
  PROVE  /\ LogInv' /\ Generation' = Generation /\ Magic' = Magic
         /\ KindOwner' = handle[x].ring /\ GeometryOwner' = handle[x].ring
<1>1. PICK n \in Nat : n = Len(log)
  BY DEF LogInv, Logs
<1>2. PICK r \in Nat : r = handle[x].ring
  BY DEF Typed, HandleState
<1>3. /\ Len(log') = n + 2
      /\ log' = log \o <<[loc |-> KindWord, val |-> r, rel |-> 0], [loc |-> GeometryWord, val |-> r, rel |-> 0]>>
  BY <1>1, <1>2 DEF WriteHeader, Stores!Relaxed, LogInv, Logs
<1>4. /\ \A u \in 1 .. n : log'[u] = log[u]
      /\ log'[n + 1] = [loc |-> KindWord, val |-> r, rel |-> 0]
      /\ log'[n + 2] = [loc |-> GeometryWord, val |-> r, rel |-> 0]
  BY <1>1, <1>3 DEF LogInv, Logs
<1>5. log' \in Logs
  BY <1>3 DEF LogInv, Logs, Words
<1>6. IsNewest(log', n + 1, KindWord) /\ IsNewest(log', n + 2, GeometryWord)
  BY <1>3, <1>4, WordsDiffer DEF IsNewest
<1>7. ASSUME NEW loc \in {GenerationWord, MagicWord}, NEW t \in 0 .. n, IsNewest(log, t, loc)
      PROVE  IsNewest(log', t, loc)
  <2>1. t \in 0 .. Len(log') /\ (t = 0 \/ log'[t].loc = loc)
    BY <1>1, <1>3, <1>4, <1>7 DEF IsNewest
  <2>2. ASSUME NEW u \in t + 1 .. n + 2 PROVE log'[u].loc # loc
    <3>1. CASE u \in {n + 1, n + 2}
      BY <1>4, <3>1, WordsDiffer
    <3>2. CASE u \notin {n + 1, n + 2}
      <4>1. u \in t + 1 .. Len(log) /\ u \in 1 .. n
        BY <1>1, <2>2, <3>2
      <4> QED BY <1>4, <1>7, <4>1 DEF IsNewest
    <3> QED BY <3>1, <3>2
  <2> QED BY <1>3, <2>1, <2>2 DEF IsNewest
<1>8. PICK g \in 0 .. n, m \in 0 .. n : IsNewest(log, g, GenerationWord) /\ IsNewest(log, m, MagicWord)
  BY <1>1 DEF LogInv, Words
<1>9. IsNewest(log', g, GenerationWord) /\ IsNewest(log', m, MagicWord)
  BY <1>7, <1>8
<1>10. LogInv'
  <2>1. 0 .. n \subseteq 0 .. Len(log') /\ n + 1 \in 0 .. Len(log') /\ n + 2 \in 0 .. Len(log')
    BY <1>3
  <2> QED BY <1>5, <1>6, <1>8, <1>9, <2>1 DEF LogInv, Words
<1>11. /\ Generation = Stores!Value(g) /\ Generation' = Stores!Value(g)'
       /\ Magic = Stores!Value(m) /\ Magic' = Stores!Value(m)'
  BY <1>8, <1>9, <1>10, NewestValue, NewestValueAfter DEF Generation, Magic, Words
<1>12. PICK k \in Nat, q \in Nat : k = n + 1 /\ q = n + 2
  OBVIOUS
<1>13. KindOwner' = Stores!Value(k)' /\ GeometryOwner' = Stores!Value(q)'
  BY <1>6, <1>10, <1>12, NewestValueAfter DEF KindOwner, GeometryOwner, Words
<1>14. Stores!Value(g)' = Stores!Value(g) /\ Stores!Value(m)' = Stores!Value(m)
  BY <1>4 DEF Stores!Value
<1>15. Stores!Value(k)' = r /\ Stores!Value(q)' = r
  BY <1>4, <1>12 DEF Stores!Value
<1> QED BY <1>2, <1>10, <1>11, <1>13, <1>14, <1>15

-----------------------------------------------------------------------------
(* The creators' half, for every order of loads *)

LEMMA RegionInitial == RegionInit => RegionInv
<1> SUFFICES ASSUME RegionInit PROVE RegionInv
  OBVIOUS
<1> USE DEF RegionInit
<1>1. LogInv
  <2>1. ASSUME NEW loc \in Words PROVE IsNewest(log, 0, loc)
    BY DEF IsNewest
  <2> QED BY <2>1 DEF LogInv, Logs
<1>2. Generation = 0 /\ Magic = 0 /\ rings = << >> /\ Len(rings) = 0
  <2>1. ASSUME NEW loc \in Words PROVE Stores!Newest(loc) = 0
    <3>1. IsNewest(log, 0, loc)
      BY DEF IsNewest
    <3> QED BY <1>1, <3>1, NewestValue DEF Stores!Value
  <2> QED BY <2>1 DEF Generation, Magic, Words
<1>3. handle \in [Handles -> HandleState] /\ \A x \in Handles : handle[x] = Unused
  BY DEF HandleState, Unused, Kinds
<1>4. Typed
  BY <1>3 DEF Typed
<1>5. CreatorInv
  BY <1>3 DEF CreatorInv, CreatorOf, Creating, Mid, Unused
<1>6. RingsInv
  BY <1>2 DEF RingsInv, FinishedIsOpen
<1>7. HolderInv
  BY <1>3 DEF HolderInv, HolderOf, NoLeaseLeaks, Unused
<1> QED BY <1>1, <1>4, <1>5, <1>6, <1>7 DEF RegionInv

\* A step that leaves header, rings and buffer alone.
Quiet == UNCHANGED <<log, file, zeroed, rings>>

LEMMA RingsQuiet ==
  ASSUME RegionInv, Quiet
  PROVE  LogInv' /\ RingsInv' /\ Header' = Header
<1>1. LogInv' /\ Header' = Header
  BY HeaderSame DEF RegionInv, Quiet
<1>2. Generation' = Generation /\ Magic' = Magic /\ KindOwner' = KindOwner /\ GeometryOwner' = GeometryOwner
  BY <1>1 DEF Header
<1> QED BY <1>1, <1>2 DEF RegionInv, RingsInv, FinishedIsOpen, Quiet, Magic, KindOwner, GeometryOwner

LEMMA CreatorQuiet ==
  ASSUME RegionInv, Quiet, NEW y \in Handles, handle'[y] = handle[y],
         \A r \in handle[y].held : lease[r] = y => lease'[r] = y
  PROVE  CreatorOf(y)'
<1>1. Generation' = Generation /\ Magic' = Magic /\ KindOwner' = KindOwner /\ GeometryOwner' = GeometryOwner
  BY RingsQuiet DEF Header
<1>2. CreatorOf(y)
  BY DEF RegionInv, CreatorInv
<1> QED BY <1>1, <1>2 DEF CreatorOf, Quiet

\* A handle that takes a step of its own is no creator afterwards.
LEMMA QuietStep ==
  ASSUME RegionInv, Quiet, NEW x \in Handles, NEW h \in HandleState, h.pc \notin Creating,
         handle' = [handle EXCEPT ![x] = h], UNCHANGED lease
  PROVE  LogInv' /\ Typed' /\ CreatorInv' /\ RingsInv'
<1>1. Typed'
  BY DEF RegionInv, Typed, Quiet
<1>2. handle \in [Handles -> HandleState] /\ handle'[x] = h /\ \A y \in Handles : y # x => handle'[y] = handle[y]
  BY DEF RegionInv, Typed
<1>3. \A y \in Handles : CreatorOf(y)'
  <2>1. CreatorOf(x)'
    BY <1>2 DEF CreatorOf, Creating, Mid
  <2> QED BY <1>2, <2>1, CreatorQuiet
<1>4. CreatorInv'
  BY <1>2, <1>3 DEF RegionInv, CreatorInv
<1> QED BY <1>1, <1>4, RingsQuiet

\* An attacher, until it has validated the header.
Validating == {"out", "generation", "magic", "kind", "geometry", "recheck"}

LEMMA VisibleTyped ==
  ASSUME RegionInv, NEW x \in Handles, NEW loc, NEW t \in Loads(x)!Visible(loc)
  PROVE  Stores!Value(t) \in Nat /\ Learn(x, t) \in Nat
<1>1. t \in 0 .. Len(log) /\ Len(log) \in Nat
  BY DEF Loads!Visible, Loads!Now, RegionInv, LogInv, Logs
<1>2. t # 0 => log[t] \in [loc : Words, val : Nat, rel : Nat]
  BY <1>1, LogEntry DEF RegionInv
<1>3. handle[x].view \in Nat
  BY DEF RegionInv, Typed, HandleState
<1>4. Stores!Value(t) \in Nat
  BY <1>2 DEF Stores!Value
<1>5. Loads(x)!With(handle[x].view, t) \in Nat
  <2>1. CASE t = 0
    BY <1>3, <2>1 DEF Loads!With
  <2>2. CASE t # 0
    <3>1. log[t].rel \in Nat
      BY <1>2, <2>2
    <3> QED BY <1>3, <2>2, <3>1 DEF Loads!With
  <2> QED BY <2>1, <2>2
<1> QED BY <1>4, <1>5 DEF Learn

LEMMA OpenStep ==
  ASSUME RegionInv, NEW x \in Handles, open_region(x)
  PROVE  \E h \in HandleState :
           /\ Quiet /\ UNCHANGED lease /\ handle' = [handle EXCEPT ![x] = h]
           /\ handle[x].pc \in Validating
           /\ h.pc \in Validating \union {"opened", "attached", "refused"}
           /\ h.held = {} /\ h.lost = {}
<1>1. /\ handle \in [Handles -> HandleState] /\ handle[x] \in HandleState /\ handle[x].held \in {{}, handle[x].held}
      /\ handle[x].pc \in Validating => handle[x].held = {} /\ handle[x].lost = {}
  BY DEF RegionInv, Typed, HolderInv, HolderOf, Validating
<1>2. [Unused EXCEPT !.pc = "refused"] \in HandleState
  BY DEF HandleState, Unused, Kinds
<1> USE DEF Quiet, Validating
<1>3. CASE MeasureFile(x)
  <2>1. PICK c \in Calls :
          handle' = [handle EXCEPT ![x].pc = "generation", ![x].kind = c.kind, ![x].want = c.want,
                                   ![x].force = c.force, ![x].file_len = file]
    BY <1>3 DEF MeasureFile
  <2>2. c.kind \in Kinds /\ c.want \in SUBSET Roles /\ c.force \in BOOLEAN /\ file \in Nat
    BY DEF Calls, RegionInv, Typed, Lengths
  <2> DEFINE h == [handle[x] EXCEPT !.pc = "generation", !.kind = c.kind, !.want = c.want, !.force = c.force, !.file_len = file]
  <2>3. h \in HandleState /\ h.pc = "generation" /\ h.held = handle[x].held /\ h.lost = handle[x].lost
    BY <1>1, <2>2 DEF HandleState
  <2>4. handle' = [handle EXCEPT ![x] = h]
    BY <1>1, <2>1
  <2> QED BY <1>1, <1>3, <2>3, <2>4 DEF MeasureFile
<1>4. CASE LoadGeneration(x)
  <2>1. PICK t \in Loads(x)!Visible(GenerationWord) :
          IF Stores!Value(t) % 2 = 1 THEN Refuse(x)
          ELSE handle' = [handle EXCEPT ![x].pc = "magic", ![x].gen = Stores!Value(t), ![x].view = Learn(x, t)]
    BY <1>4 DEF LoadGeneration
  <2>2. CASE Refuse(x)
    BY <1>1, <1>2, <1>4, <2>2 DEF Refuse, LoadGeneration, Unused
  <2>3. CASE handle' = [handle EXCEPT ![x].pc = "magic", ![x].gen = Stores!Value(t), ![x].view = Learn(x, t)]
    <3> DEFINE h == [handle[x] EXCEPT !.pc = "magic", !.gen = Stores!Value(t), !.view = Learn(x, t)]
    <3>1. h \in HandleState /\ h.pc = "magic" /\ h.held = handle[x].held /\ h.lost = handle[x].lost
      BY <1>1, VisibleTyped DEF HandleState
    <3>2. handle' = [handle EXCEPT ![x] = h]
      BY <1>1, <2>3
    <3> QED BY <1>1, <1>4, <3>1, <3>2 DEF LoadGeneration
  <2> QED BY <2>1, <2>2, <2>3
<1>5. CASE LoadMagic(x)
  <2>1. PICK t \in Loads(x)!Visible(MagicWord) :
          IF Stores!Value(t) = 0 THEN Refuse(x)
          ELSE handle' = [handle EXCEPT ![x].pc = "kind", ![x].view = Learn(x, t)]
    BY <1>5 DEF LoadMagic
  <2>2. CASE Refuse(x)
    BY <1>1, <1>2, <1>5, <2>2 DEF Refuse, LoadMagic, Unused
  <2>3. CASE handle' = [handle EXCEPT ![x].pc = "kind", ![x].view = Learn(x, t)]
    <3> DEFINE h == [handle[x] EXCEPT !.pc = "kind", !.view = Learn(x, t)]
    <3>1. h \in HandleState /\ h.pc = "kind" /\ h.held = handle[x].held /\ h.lost = handle[x].lost
      BY <1>1, VisibleTyped DEF HandleState
    <3>2. handle' = [handle EXCEPT ![x] = h]
      BY <1>1, <2>3
    <3> QED BY <1>1, <1>5, <3>1, <3>2 DEF LoadMagic
  <2> QED BY <2>1, <2>2, <2>3
<1>6. CASE LoadKind(x)
  <2>1. CASE Refuse(x)
    BY <1>1, <1>2, <1>6, <2>1 DEF Refuse, LoadKind, Unused
  <2>2. CASE To(x, "geometry")
    <3> DEFINE h == [handle[x] EXCEPT !.pc = "geometry"]
    <3>1. h \in HandleState /\ h.pc = "geometry" /\ h.held = handle[x].held /\ h.lost = handle[x].lost
      BY <1>1 DEF HandleState
    <3>2. handle' = [handle EXCEPT ![x] = h]
      BY <1>1, <2>2 DEF To
    <3> QED BY <1>1, <1>6, <3>1, <3>2 DEF LoadKind
  <2> QED BY <1>6, <2>1, <2>2 DEF LoadKind
<1>7. CASE LoadGeometry(x)
  <2>1. PICK t \in Loads(x)!Visible(GeometryWord) :
          \/ Refuse(x)
          \/ handle' = [handle EXCEPT ![x].pc = "recheck", ![x].ring = Stores!Value(t)]
    BY <1>7 DEF LoadGeometry
  <2>2. CASE Refuse(x)
    BY <1>1, <1>2, <1>7, <2>2 DEF Refuse, LoadGeometry, Unused
  <2>3. CASE handle' = [handle EXCEPT ![x].pc = "recheck", ![x].ring = Stores!Value(t)]
    <3> DEFINE h == [handle[x] EXCEPT !.pc = "recheck", !.ring = Stores!Value(t)]
    <3>1. h \in HandleState /\ h.pc = "recheck" /\ h.held = handle[x].held /\ h.lost = handle[x].lost
      BY <1>1, VisibleTyped DEF HandleState
    <3>2. handle' = [handle EXCEPT ![x] = h]
      BY <1>1, <2>3
    <3> QED BY <1>1, <1>7, <3>1, <3>2 DEF LoadGeometry
  <2> QED BY <2>1, <2>2, <2>3
<1>8. CASE Recheck(x)
  <2>1. PICK t \in Loads(x)!Visible(GenerationWord) :
          \/ Refuse(x)
          \/ handle' = [handle EXCEPT ![x].pc = Opened(x), ![x].view = Learn(x, t)]
    BY <1>8 DEF Recheck
  <2>2. CASE Refuse(x)
    BY <1>1, <1>2, <1>8, <2>2 DEF Refuse, Recheck, Unused
  <2>3. CASE handle' = [handle EXCEPT ![x].pc = Opened(x), ![x].view = Learn(x, t)]
    <3> DEFINE h == [handle[x] EXCEPT !.pc = Opened(x), !.view = Learn(x, t)]
    <3>1. Opened(x) \in {"opened", "attached"}
      BY DEF Opened
    <3>2. h \in HandleState /\ h.pc = Opened(x) /\ h.held = handle[x].held /\ h.lost = handle[x].lost
      BY <1>1, <3>1, VisibleTyped DEF HandleState
    <3>3. handle' = [handle EXCEPT ![x] = h]
      BY <1>1, <2>3
    <3> QED BY <1>1, <1>8, <3>1, <3>2, <3>3 DEF Recheck
  <2> QED BY <2>1, <2>2, <2>3
<1> QED BY <1>3, <1>4, <1>5, <1>6, <1>7, <1>8 DEF open_region

LEMMA OpenInv ==
  ASSUME RegionInv, NEW x \in Handles, open_region(x)
  PROVE  RegionInv'
<1>1. PICK h \in HandleState :
        /\ Quiet /\ UNCHANGED lease /\ handle' = [handle EXCEPT ![x] = h]
        /\ handle[x].pc \in Validating
        /\ h.pc \in Validating \union {"opened", "attached", "refused"}
        /\ h.held = {} /\ h.lost = {}
  BY OpenStep
<1>2. LogInv' /\ Typed' /\ CreatorInv' /\ RingsInv'
  BY <1>1, QuietStep DEF Validating, Creating
<1>3. handle'[x] = h /\ \A y \in Handles : y # x => handle'[y] = handle[y]
  BY <1>1 DEF RegionInv, Typed
<1>4. \A r \in Roles : lease[r] # x
  BY <1>1, ShmRegionAssumption DEF RegionInv, HolderInv, NoLeaseLeaks, HolderOf, Validating
<1>5. NoLeaseLeaks'
  BY <1>1, <1>3, <1>4 DEF RegionInv, Typed, HolderInv, NoLeaseLeaks
<1>6. \A y \in Handles : HolderOf(y)'
  BY <1>1, <1>3 DEF RegionInv, HolderInv, HolderOf, Validating
<1> QED BY <1>2, <1>5, <1>6 DEF RegionInv, HolderInv

\* What a refused handle and a dead one are left with.
LEMMA UnusedTyped ==
  /\ [Unused EXCEPT !.pc = "refused"] \in HandleState /\ [Unused EXCEPT !.pc = "dead"] \in HandleState
  /\ [Unused EXCEPT !.pc = "refused"].pc = "refused" /\ [Unused EXCEPT !.pc = "dead"].pc = "dead"
BY DEF HandleState, Unused, Kinds

LEMMA ClaimInv ==
  ASSUME RegionInv, NEW x \in Handles, ClaimRole(x)
  PROVE  RegionInv'
<1>1. PICK r \in handle[x].want :
        IF lease[r] # Free THEN Refuse(x) /\ UNCHANGED lease
        ELSE /\ lease' = [lease EXCEPT ![r] = x]
             /\ handle' = [handle EXCEPT ![x].pc = "claimed", ![x].held = {r}]
  BY DEF ClaimRole
<1>2. Quiet /\ handle[x].pc = "opened" /\ ~handle[x].force /\ r \in Roles /\ handle[x] \in HandleState
  BY DEF ClaimRole, Quiet, RegionInv, Typed, HandleState
<1>3. handle[x].held = {} /\ handle[x].lost = {} /\ \A q \in Roles : lease[q] # x
  BY <1>2, ShmRegionAssumption DEF RegionInv, HolderInv, HolderOf, NoLeaseLeaks
<1>4. CASE lease[r] # Free
  <2>1. handle' = [handle EXCEPT ![x] = [Unused EXCEPT !.pc = "refused"]] /\ UNCHANGED lease
    BY <1>1, <1>4 DEF Refuse
  <2>2. LogInv' /\ Typed' /\ CreatorInv' /\ RingsInv'
    BY <1>2, <2>1, QuietStep, UnusedTyped DEF Creating
  <2>3. /\ handle'[x].held = {} /\ handle'[x].lost = {} /\ handle'[x].pc = "refused"
        /\ \A y \in Handles : y # x => handle'[y] = handle[y]
    BY <2>1 DEF RegionInv, Typed, Unused
  <2>4. HolderInv'
    BY <1>3, <2>1, <2>3 DEF RegionInv, Typed, HolderInv, HolderOf, NoLeaseLeaks
  <2> QED BY <2>2, <2>4 DEF RegionInv
<1>5. CASE lease[r] = Free
  <2> DEFINE h == [handle[x] EXCEPT !.pc = "claimed", !.held = {r}]
  <2>1. h \in HandleState /\ h.pc = "claimed" /\ h.held = {r} /\ h.lost = {}
    BY <1>2, <1>3 DEF HandleState
  <2>2. lease' = [lease EXCEPT ![r] = x] /\ handle' = [handle EXCEPT ![x] = h]
    BY <1>1, <1>5 DEF RegionInv, Typed
  <2>3. handle'[x] = h /\ \A y \in Handles : y # x => handle'[y] = handle[y]
    BY <2>2 DEF RegionInv, Typed
  <2>4. lease'[r] = x /\ \A q \in Roles : q # r => lease'[q] = lease[q]
    BY <1>2, <2>2 DEF RegionInv, Typed
  <2> HIDE DEF h
  <2>5. Typed'
    BY <1>2, <2>1, <2>2 DEF RegionInv, Typed, Quiet
  <2>6. \A y \in Handles : CreatorOf(y)'
    <3>1. CreatorOf(x)'
      BY <2>1, <2>3 DEF CreatorOf, Mid
    <3>2. ASSUME NEW y \in Handles, y # x PROVE CreatorOf(y)'
      <4>1. \A q \in handle[y].held : lease[q] = y => lease'[q] = y
        BY <1>5, <2>4, ShmRegionAssumption DEF RegionInv, Typed, HandleState
      <4> QED BY <1>2, <2>3, <3>2, <4>1, CreatorQuiet
    <3> QED BY <3>1, <3>2
  <2>7. CreatorInv'
    BY <2>1, <2>3, <2>6 DEF RegionInv, CreatorInv, Creating
  <2>8. NoLeaseLeaks'
    <3>1. ASSUME NEW q \in Roles, q # r, lease'[q] # Free
          PROVE  handle'[lease'[q]].pc = "dead" \/ q \in handle'[lease'[q]].held
      <4>1. lease'[q] = lease[q] /\ lease[q] \in Handles /\ lease[q] # x
        BY <1>3, <2>4, <3>1 DEF RegionInv, Typed
      <4> QED BY <2>3, <3>1, <4>1 DEF RegionInv, HolderInv, NoLeaseLeaks
    <3>2. r \in handle'[lease'[r]].held
      BY <2>1, <2>3, <2>4
    <3> QED BY <3>1, <3>2 DEF NoLeaseLeaks
  <2>9. \A y \in Handles : HolderOf(y)'
    BY <1>2, <2>1, <2>3 DEF RegionInv, HolderInv, HolderOf
  <2> QED BY <1>2, <2>5, <2>7, <2>8, <2>9, RingsQuiet DEF RegionInv, HolderInv
<1> QED BY <1>4, <1>5

\* A lease that is given back was the handle's own.
LEMMA ReleasedLease ==
  ASSUME RegionInv, NEW x \in Handles, NEW r \in Roles
  PROVE  /\ Released(x, r) \in [Roles -> Handles \union {Free}]
         /\ Released(x, r)[r] # x
         /\ \A q \in Roles : Released(x, r)[q] = lease[q] \/ (q = r /\ lease[r] = x /\ Released(x, r)[q] = Free)
BY ShmRegionAssumption DEF Released, RegionInv, Typed

LEMMA RecheckRoleInv ==
  ASSUME RegionInv, NEW x \in Handles, RecheckRole(x)
  PROVE  RegionInv'
<1>1. PICK r \in handle[x].held :
        \/ To(x, "attached") /\ UNCHANGED lease
        \/ Refuse(x) /\ lease' = Released(x, r)
  BY DEF RecheckRole
<1>2. /\ Quiet /\ handle[x].pc = "claimed" /\ r \in Roles /\ handle[x] \in HandleState
      /\ handle[x].held = {r} /\ handle[x].lost = {}
  BY DEF RecheckRole, Quiet, RegionInv, Typed, HandleState, HolderInv, HolderOf
<1>3. CASE To(x, "attached") /\ UNCHANGED lease
  <2> DEFINE h == [handle[x] EXCEPT !.pc = "attached"]
  <2>1. h \in HandleState /\ h.pc = "attached" /\ h.held = {r} /\ h.lost = {}
    BY <1>2 DEF HandleState
  <2>2. handle' = [handle EXCEPT ![x] = h]
    BY <1>3 DEF To, RegionInv, Typed
  <2>3. handle'[x] = h /\ \A y \in Handles : y # x => handle'[y] = handle[y]
    BY <2>2 DEF RegionInv, Typed
  <2> HIDE DEF h
  <2>4. LogInv' /\ Typed' /\ CreatorInv' /\ RingsInv'
    BY <1>2, <1>3, <2>1, <2>2, QuietStep DEF Creating
  <2>5. HolderInv'
    BY <1>2, <1>3, <2>1, <2>3 DEF RegionInv, Typed, HolderInv, HolderOf, NoLeaseLeaks
  <2> QED BY <2>4, <2>5 DEF RegionInv
<1>4. CASE Refuse(x) /\ lease' = Released(x, r)
  <2>1. handle' = [handle EXCEPT ![x] = [Unused EXCEPT !.pc = "refused"]]
    BY <1>4 DEF Refuse
  <2>2. /\ handle'[x].held = {} /\ handle'[x].lost = {} /\ handle'[x].pc = "refused"
        /\ \A y \in Handles : y # x => handle'[y] = handle[y]
    BY <2>1 DEF RegionInv, Typed, Unused
  <2>3. Typed'
    BY <1>2, <1>4, <2>1, UnusedTyped, ReleasedLease DEF RegionInv, Typed, Quiet
  <2>4. \A q \in Roles : lease'[q] = lease[q] \/ (q = r /\ lease[r] = x /\ lease'[q] = Free)
    BY <1>2, <1>4, ReleasedLease
  <2>5. \A y \in Handles : CreatorOf(y)'
    <3>1. CreatorOf(x)'
      BY <2>2 DEF CreatorOf, Mid
    <3>2. ASSUME NEW y \in Handles, y # x PROVE CreatorOf(y)'
      <4>1. \A q \in handle[y].held : lease[q] = y => lease'[q] = y
        BY <2>4, <3>2 DEF RegionInv, Typed, HandleState
      <4> QED BY <1>2, <2>2, <3>2, <4>1, CreatorQuiet
    <3> QED BY <3>1, <3>2
  <2>6. CreatorInv'
    BY <2>2, <2>5 DEF RegionInv, CreatorInv, Creating
  <2>7. \A q \in Roles : lease'[q] # x
    <3>1. \A q \in Roles : q # r => lease[q] # x
      BY <1>2, ShmRegionAssumption DEF RegionInv, HolderInv, NoLeaseLeaks
    <3> QED BY <1>2, <1>4, <2>4, <3>1, ReleasedLease, ShmRegionAssumption
  <2>8. NoLeaseLeaks'
    BY <2>2, <2>4, <2>7 DEF RegionInv, Typed, HolderInv, NoLeaseLeaks
  <2>9. \A y \in Handles : HolderOf(y)'
    BY <2>2 DEF RegionInv, HolderInv, HolderOf
  <2> QED BY <1>2, <2>3, <2>6, <2>8, <2>9, RingsQuiet DEF RegionInv, HolderInv
<1> QED BY <1>1, <1>3, <1>4

LEMMA DropInv ==
  ASSUME RegionInv, NEW x \in Handles, Drop(x)
  PROVE  RegionInv'
<1>1. PICK r \in handle[x].held :
        /\ lease' = Released(x, r)
        /\ handle' = [handle EXCEPT ![x].held = @ \ {r}, ![x].lost = @ \ {r}]
  BY DEF Drop
<1>2. Quiet /\ handle[x].pc \in {"attached", "stale"} /\ r \in Roles /\ handle[x] \in HandleState
  BY DEF Drop, Quiet, RegionInv, Typed, HandleState
<1> DEFINE h == [handle[x] EXCEPT !.held = @ \ {r}, !.lost = @ \ {r}]
<1>3. h \in HandleState /\ h.pc = handle[x].pc /\ h.held = handle[x].held \ {r}
  BY <1>2 DEF HandleState
<1>4. handle' = [handle EXCEPT ![x] = h]
  BY <1>1 DEF RegionInv, Typed
<1>5. handle'[x] = h /\ \A y \in Handles : y # x => handle'[y] = handle[y]
  BY <1>4 DEF RegionInv, Typed
<1> HIDE DEF h
<1>6. Typed'
  <2>1. handle' \in [Handles -> HandleState]
    BY <1>3, <1>4 DEF RegionInv, Typed
  <2>2. lease' \in [Roles -> Handles \union {Free}]
    BY <1>1, <1>2, ReleasedLease
  <2> QED BY <1>2, <2>1, <2>2 DEF RegionInv, Typed, Quiet
<1>7. \A q \in Roles : lease'[q] = lease[q] \/ (q = r /\ lease[r] = x /\ lease'[q] = Free)
  BY <1>1, <1>2, ReleasedLease
<1>8. \A y \in Handles : CreatorOf(y)'
  <2>1. CreatorOf(x)'
    BY <1>2, <1>3, <1>5 DEF CreatorOf, Mid
  <2>2. ASSUME NEW y \in Handles, y # x PROVE CreatorOf(y)'
    <3>1. \A q \in handle[y].held : lease[q] = y => lease'[q] = y
      BY <1>7, <2>2 DEF RegionInv, Typed, HandleState
    <3> QED BY <1>2, <1>5, <2>2, <3>1, CreatorQuiet
  <2> QED BY <2>1, <2>2
<1>9. CreatorInv'
  BY <1>2, <1>3, <1>5, <1>8 DEF RegionInv, CreatorInv, Creating
<1>10. NoLeaseLeaks'
  <2>1. lease'[r] # x
    BY <1>1, <1>2, ReleasedLease
  <2> QED BY <1>2, <1>3, <1>5, <1>7, <2>1 DEF RegionInv, Typed, HolderInv, NoLeaseLeaks
<1>11. \A y \in Handles : HolderOf(y)'
  BY <1>2, <1>3, <1>5 DEF RegionInv, HolderInv, HolderOf
<1> QED BY <1>2, <1>6, <1>9, <1>10, <1>11, RingsQuiet DEF RegionInv, HolderInv

LEMMA DieInv ==
  ASSUME RegionInv, NEW x \in Handles, Die(x)
  PROVE  RegionInv'
<1>1. Quiet /\ UNCHANGED lease /\ handle' = [handle EXCEPT ![x] = [Unused EXCEPT !.pc = "dead"]]
  BY DEF Die, Quiet
<1>2. LogInv' /\ Typed' /\ CreatorInv' /\ RingsInv'
  BY <1>1, QuietStep, UnusedTyped DEF Creating
<1>3. /\ handle'[x].held = {} /\ handle'[x].lost = {} /\ handle'[x].pc = "dead"
      /\ \A y \in Handles : y # x => handle'[y] = handle[y]
  BY <1>1 DEF RegionInv, Typed, Unused
<1>4. HolderInv'
  BY <1>1, <1>3 DEF RegionInv, Typed, HolderInv, HolderOf, NoLeaseLeaks
<1> QED BY <1>2, <1>4 DEF RegionInv

LEMMA ForceInv ==
  ASSUME RegionInv, NEW x \in Handles, ForceClaim(x)
  PROVE  RegionInv'
<1>1. PICK r \in handle[x].want \ handle[x].held :
       /\ \A y \in Handles : handle[y].pc \in {"opened", "claimed"} => r \notin handle[y].held
       /\ lease' = [lease EXCEPT ![r] = x]
       /\ handle' = [y \in Handles |->
            IF y = x THEN [handle[x] EXCEPT !.held = @ \union {r},
                             !.pc = IF handle[x].held \union {r} = handle[x].want THEN "attached" ELSE "opened"]
            ELSE IF r \in handle[y].held THEN [handle[y] EXCEPT !.lost = @ \union {r}] ELSE handle[y]]
  BY DEF ForceClaim
<1>2. Quiet /\ NobodyCreates /\ handle[x].pc = "opened" /\ handle[x].force /\ r \in Roles /\ handle[x] \in HandleState
  BY DEF ForceClaim, Quiet, RegionInv, Typed, HandleState
<1>3. /\ handle'[x].pc \in {"opened", "attached"} /\ handle'[x].held = handle[x].held \union {r}
      /\ handle'[x].force /\ handle'[x].lost = handle[x].lost /\ handle'[x] \in HandleState
  BY <1>1, <1>2 DEF HandleState
<1>4. ASSUME NEW y \in Handles, y # x
      PROVE  /\ handle'[y].pc = handle[y].pc /\ handle'[y].held = handle[y].held /\ handle'[y].force = handle[y].force
             /\ handle'[y].lost \in {handle[y].lost, handle[y].lost \union {r}}
             /\ r \notin handle[y].held => handle'[y] = handle[y]
             /\ handle'[y] \in HandleState
  <2>1. handle[y] \in HandleState
    BY DEF RegionInv, Typed
  <2> QED BY <1>1, <1>2, <1>4, <2>1 DEF HandleState
<1>5. lease'[r] = x /\ \A q \in Roles : q # r => lease'[q] = lease[q]
  BY <1>1, <1>2 DEF RegionInv, Typed
<1>6. Typed'
  <2>1. handle' \in [Handles -> HandleState]
    BY <1>1, <1>3, <1>4
  <2> QED BY <1>1, <1>2, <2>1 DEF RegionInv, Typed, Quiet
<1>7. CreatorInv'
  <2>1. \A y \in Handles : handle'[y].pc \notin Creating
    <3>1. handle'[x].pc \notin Creating
      BY <1>3 DEF Creating
    <3> QED BY <1>2, <1>4, <3>1 DEF NobodyCreates
  <2>2. \A y \in Handles : CreatorOf(y)'
    BY <2>1 DEF CreatorOf, Creating, Mid
  <2> QED BY <2>1, <2>2 DEF CreatorInv
<1>8. NoLeaseLeaks'
  <2>1. ASSUME NEW q \in Roles, lease'[q] # Free
        PROVE  handle'[lease'[q]].pc = "dead" \/ q \in handle'[lease'[q]].held
    <3>1. CASE q = r
      BY <1>3, <1>5, <3>1
    <3>2. CASE q # r
      <4>1. lease'[q] = lease[q] /\ lease[q] \in Handles
        BY <1>5, <2>1, <3>2 DEF RegionInv, Typed
      <4>2. handle[lease[q]].pc = "dead" \/ q \in handle[lease[q]].held
        BY <2>1, <4>1 DEF RegionInv, HolderInv, NoLeaseLeaks
      <4> QED BY <1>2, <1>3, <1>4, <4>1, <4>2
    <3> QED BY <3>1, <3>2
  <2> QED BY <2>1 DEF NoLeaseLeaks
<1>9. \A y \in Handles : HolderOf(y)'
  <2>1. HolderOf(x)'
    BY <1>2, <1>3 DEF RegionInv, HolderInv, HolderOf
  <2>2. ASSUME NEW y \in Handles, y # x PROVE HolderOf(y)'
    <3>1. HolderOf(y)
      BY DEF RegionInv, HolderInv
    <3>2. CASE r \notin handle[y].held
      BY <1>4, <2>2, <3>1, <3>2 DEF HolderOf
    <3>3. CASE r \in handle[y].held
      <4>1. handle[y].pc \in {"attached", "stale"}
        <5>1. handle[y].pc \notin {"opened", "claimed"} /\ handle[y].pc \notin Creating
          BY <1>1, <1>2, <3>3 DEF NobodyCreates
        <5>2. handle[y] \in HandleState
          BY DEF RegionInv, Typed
        <5> QED BY <3>1, <3>3, <5>1, <5>2 DEF HolderOf, HandleState
      <4> QED BY <1>4, <2>2, <3>1, <4>1 DEF HolderOf
    <3> QED BY <3>2, <3>3
  <2> QED BY <2>1, <2>2
<1> QED BY <1>2, <1>6, <1>7, <1>8, <1>9, RingsQuiet DEF RegionInv, HolderInv

\* One process creates: the invariant of a creator is that of one handle.
LEMMA CreatorAlone ==
  ASSUME NEW x \in Handles, CreatorOf(x)', \A y \in Handles : y # x => handle'[y].pc \notin Creating
  PROVE  CreatorInv'
<1>1. \A y \in Handles : y # x => CreatorOf(y)'
  BY DEF CreatorOf, Creating, Mid
<1> QED BY <1>1 DEF CreatorInv

\* What the steps of a creation have in common.
LEMMA CreatorStep ==
  ASSUME RegionInv, NEW x \in Handles, handle[x].pc \in Creating, NEW h \in HandleState,
         handle' = [handle EXCEPT ![x] = h]
  PROVE  /\ handle' \in [Handles -> HandleState] /\ handle'[x] = h
         /\ \A y \in Handles : y # x => handle'[y] = handle[y] /\ handle'[y].pc \notin Creating
BY DEF RegionInv, Typed, CreatorInv

\* A creator that keeps its leases, or takes none yet, leaks none.
LEMMA CreatorHolds ==
  ASSUME RegionInv, NEW x \in Handles, handle[x].pc \in Creating \union {"out"}, NEW h \in HandleState,
         handle' = [handle EXCEPT ![x] = h], h.held = handle[x].held, h.lost = handle[x].lost,
         h.pc \in {"invalidate", "clear", "write", "lease"} => handle[x].pc \in {"out", "invalidate", "clear", "write"},
         h.pc \in Creating \union {"attached"}, UNCHANGED lease
  PROVE  HolderInv'
<1>1. handle'[x] = h /\ \A y \in Handles : y # x => handle'[y] = handle[y]
  BY DEF RegionInv, Typed
<1>2. NoLeaseLeaks'
  <2>1. ASSUME NEW r \in Roles, lease[r] # Free
        PROVE  handle'[lease[r]].pc = "dead" \/ r \in handle'[lease[r]].held
    <3>1. lease[r] \in Handles /\ (handle[lease[r]].pc = "dead" \/ r \in handle[lease[r]].held)
      BY <2>1 DEF RegionInv, Typed, HolderInv, NoLeaseLeaks
    <3>2. handle[x].pc # "dead"
      BY DEF Creating
    <3> QED BY <1>1, <3>1, <3>2
  <2> QED BY <2>1 DEF NoLeaseLeaks
<1>3. HolderOf(x) /\ h.pc \notin {"out", "generation", "magic", "kind", "geometry", "recheck", "refused", "dead", "opened", "claimed"}
  BY DEF RegionInv, HolderInv, Creating
<1>4. HolderOf(x)'
  BY <1>1, <1>3 DEF HolderOf, Creating
<1>5. \A y \in Handles : y # x => HolderOf(y)'
  BY <1>1 DEF RegionInv, HolderInv, HolderOf
<1> QED BY <1>2, <1>4, <1>5 DEF HolderInv

LEMMA TruncateInv ==
  ASSUME RegionInv, NEW x \in Handles, Truncate(x)
  PROVE  RegionInv'
<1>1. /\ handle[x].pc = "out" /\ NobodyCreates /\ file' \in Lengths
      /\ UNCHANGED <<log, lease, zeroed, rings>> /\ Len(rings) \in Nat /\ handle[x] \in HandleState
  BY DEF Truncate, RegionInv, Typed
<1>2. PICK kind \in Kinds :
        handle' = [handle EXCEPT ![x].pc = "invalidate", ![x].kind = kind, ![x].ring = Len(rings) + 1]
  BY DEF Truncate
<1> DEFINE h == [handle[x] EXCEPT !.pc = "invalidate", !.kind = kind, !.ring = Len(rings) + 1]
<1>3. /\ h \in HandleState /\ h.pc = "invalidate" /\ h.ring = Len(rings) + 1
      /\ h.held = handle[x].held /\ h.lost = handle[x].lost
  <2>1. PICK n \in Nat : n = Len(rings) + 1
    BY <1>1
  <2>2. kind \in Kinds /\ "invalidate" \in Creating
    BY DEF Creating
  <2>3. h = [handle[x] EXCEPT !.pc = "invalidate", !.kind = kind, !.ring = n]
    BY <2>1
  <2>4. handle[x] \in HandleState
    BY <1>1
  <2> HIDE DEF h
  <2> QED BY <2>1, <2>2, <2>3, <2>4 DEF HandleState
<1>4. handle' = [handle EXCEPT ![x] = h]
  BY <1>2 DEF RegionInv, Typed
<1> HIDE DEF h
<1>5. LogInv' /\ Generation' = Generation /\ Magic' = Magic /\ KindOwner' = KindOwner /\ GeometryOwner' = GeometryOwner
  BY <1>1, HeaderSame DEF RegionInv, Header
<1>6. handle'[x] = h /\ \A y \in Handles : y # x => handle'[y] = handle[y]
  BY <1>4 DEF RegionInv, Typed
<1>7. Typed'
  BY <1>1, <1>3, <1>4 DEF RegionInv, Typed
<1>8. CreatorInv'
  <2>1. CreatorOf(x)'
    BY <1>1, <1>3, <1>6 DEF CreatorOf, Mid
  <2>2. \A y \in Handles : y # x => handle'[y].pc \notin Creating
    BY <1>1, <1>6 DEF NobodyCreates
  <2> QED BY <2>1, <2>2, CreatorAlone
<1>9. RingsInv'
  BY <1>1, <1>5 DEF RegionInv, RingsInv, FinishedIsOpen, Magic, KindOwner, GeometryOwner
<1>10. HolderInv'
  BY <1>1, <1>3, <1>4, CreatorHolds DEF Creating
<1> QED BY <1>5, <1>7, <1>8, <1>9, <1>10 DEF RegionInv

LEMMA InvalidateInv ==
  ASSUME RegionInv, NEW x \in Handles, Invalidate(x)
  PROVE  RegionInv'
<1>1. /\ handle[x].pc = "invalidate" /\ file \in Lengths /\ handle[x].ring = Len(rings) + 1
      /\ UNCHANGED <<lease, file>> /\ zeroed' = FALSE /\ handle[x] \in HandleState
      /\ rings' = Append(rings, [kind |-> handle[x].kind, len |-> file, gen |-> 0])
  BY DEF Invalidate, RegionInv, CreatorInv, CreatorOf, Typed
<1>2. /\ LogInv' /\ Generation' = Odd(Generation) /\ Magic' = Magic
      /\ KindOwner' = KindOwner /\ GeometryOwner' = GeometryOwner
  BY HeaderInvalidate DEF RegionInv
<1>3. /\ Generation \in Nat /\ Generation' \in Nat /\ Generation' % 2 = 1 /\ Generation' >= Generation
  BY <1>2, HeaderTyped, OddIsOdd DEF RegionInv
<1>4. PICK n \in Nat : n = Len(rings)
  BY DEF RegionInv, Typed
<1>5. /\ rings' \in Seq([kind : Kinds, len : Lengths, gen : Nat]) /\ Len(rings') = n + 1 /\ rings' # << >>
      /\ rings'[n + 1].kind = handle[x].kind /\ rings'[n + 1].gen = 0
      /\ \A i \in 1 .. n : rings'[i] = rings[i]
  BY <1>1, <1>4 DEF RegionInv, Typed, HandleState
<1>6. handle'[x] = [handle[x] EXCEPT !.pc = "clear"]
  BY DEF Invalidate
<1>7. /\ handle'[x] \in HandleState /\ handle'[x].pc = "clear" /\ handle'[x].ring = n + 1
      /\ handle'[x].kind = handle[x].kind /\ handle'[x].held = handle[x].held /\ handle'[x].lost = handle[x].lost
  BY <1>1, <1>4, <1>6 DEF HandleState, Creating
<1>8. ASSUME NEW y \in Handles, y # x
      PROVE  /\ handle'[y].pc = handle[y].pc \/ (handle[y].pc = "attached" /\ handle'[y].pc = "stale")
             /\ handle'[y].held = handle[y].held /\ handle'[y].lost = handle[y].lost /\ handle'[y].force = handle[y].force
             /\ handle'[y] \in HandleState
  <2>1. handle[y] \in HandleState
    BY DEF RegionInv, Typed
  <2>2. handle'[y] = IF Attached(y) THEN [handle[y] EXCEPT !.pc = "stale"] ELSE handle[y]
    BY <1>8 DEF Invalidate
  <2> QED BY <2>1, <2>2 DEF HandleState, Attached
<1>9. Typed'
  <2>1. handle' \in [Handles -> HandleState]
    BY <1>7, <1>8 DEF Invalidate
  <2> QED BY <1>1, <1>5, <2>1 DEF RegionInv, Typed
<1>10. CreatorInv'
  <2>1. CreatorOf(x)'
    BY <1>3, <1>5, <1>7 DEF CreatorOf, Mid
  <2>2. \A y \in Handles : y # x => handle'[y].pc \notin Creating
    BY <1>1, <1>8 DEF RegionInv, CreatorInv, Creating
  <2> QED BY <2>1, <2>2, CreatorAlone
<1>11. RingsInv'
  <2>1. \A i \in 1 .. Len(rings') : rings'[i].gen <= Generation'
    <3>1. \A i \in 1 .. n : rings[i].gen <= Generation /\ rings[i].gen \in Nat
      <4>1. \A i \in 1 .. n : rings[i] \in [kind : Kinds, len : Lengths, gen : Nat]
        BY <1>4, ElementOfSeq DEF RegionInv, Typed
      <4> QED BY <1>4, <4>1 DEF RegionInv, RingsInv
    <3> QED BY <1>3, <1>5, <3>1
  <2> QED BY <1>3, <1>5, <2>1 DEF RingsInv, FinishedIsOpen
<1>12. HolderInv'
  <2>1. NoLeaseLeaks'
    <3>1. \A y \in Handles : handle'[y].held = handle[y].held /\ (handle[y].pc = "dead" => handle'[y].pc = "dead")
      BY <1>1, <1>7, <1>8
    <3> QED BY <1>1, <3>1 DEF RegionInv, Typed, HolderInv, NoLeaseLeaks
  <2>2. \A y \in Handles : HolderOf(y)'
    <3>1. HolderOf(x)'
      BY <1>1, <1>7 DEF RegionInv, HolderInv, HolderOf
    <3>2. \A y \in Handles : y # x => HolderOf(y)'
      BY <1>8 DEF RegionInv, HolderInv, HolderOf
    <3> QED BY <3>1, <3>2
  <2> QED BY <2>1, <2>2 DEF HolderInv
<1> QED BY <1>2, <1>9, <1>10, <1>11, <1>12 DEF RegionInv

\* The steps in the middle of a creation change neither the generation nor the
\* rings: the generation is odd and nothing is finished.
LEMMA RingsMid ==
  ASSUME RegionInv, NEW x \in Handles, handle[x].pc \in Mid, UNCHANGED rings, Generation' = Generation
  PROVE  RingsInv'
<1>1. rings # << >> /\ rings[Len(rings)].gen = 0 /\ Generation % 2 = 1
  BY DEF RegionInv, CreatorInv, CreatorOf
<1> QED BY <1>1 DEF RegionInv, RingsInv, FinishedIsOpen

LEMMA ClearInv ==
  ASSUME RegionInv, NEW x \in Handles, ClearMagic(x)
  PROVE  RegionInv'
<1>1. handle[x].pc = "clear" /\ UNCHANGED <<lease, file, zeroed, rings>> /\ handle[x] \in HandleState
  BY DEF ClearMagic, RegionInv, Typed
<1> DEFINE h == [handle[x] EXCEPT !.pc = "write"]
<1>2. /\ h \in HandleState /\ h.pc = "write" /\ h.held = handle[x].held /\ h.lost = handle[x].lost
      /\ h.ring = handle[x].ring /\ h.kind = handle[x].kind
  BY <1>1 DEF HandleState, Creating
<1>3. handle' = [handle EXCEPT ![x] = h]
  BY DEF ClearMagic, To, RegionInv, Typed
<1> HIDE DEF h
<1>4. LogInv' /\ Generation' = Generation
  BY HeaderClear DEF RegionInv
<1>5. /\ handle' \in [Handles -> HandleState] /\ handle'[x] = h
      /\ \A y \in Handles : y # x => handle'[y].pc \notin Creating
  BY <1>1, <1>2, <1>3, CreatorStep DEF Creating
<1>6. CreatorOf(x)'
  BY <1>1, <1>2, <1>4, <1>5 DEF RegionInv, CreatorInv, CreatorOf, Mid
<1>7. RingsInv'
  BY <1>1, <1>4, RingsMid DEF Mid
<1>8. HolderInv'
  BY <1>1, <1>2, <1>3, CreatorHolds DEF Creating
<1> QED BY <1>1, <1>4, <1>5, <1>6, <1>7, <1>8, CreatorAlone DEF RegionInv, Typed

LEMMA WriteInv ==
  ASSUME RegionInv, NEW x \in Handles, WriteHeader(x)
  PROVE  RegionInv'
<1>1. handle[x].pc = "write" /\ UNCHANGED <<lease, file, zeroed, rings>> /\ handle[x] \in HandleState
  BY DEF WriteHeader, RegionInv, Typed
<1> DEFINE h == [handle[x] EXCEPT !.pc = "lease"]
<1>2. /\ h \in HandleState /\ h.pc = "lease" /\ h.held = handle[x].held /\ h.lost = handle[x].lost
      /\ h.ring = handle[x].ring /\ h.kind = handle[x].kind
  BY <1>1 DEF HandleState, Creating
<1>3. handle' = [handle EXCEPT ![x] = h]
  BY DEF WriteHeader, To, RegionInv, Typed
<1> HIDE DEF h
<1>4. LogInv' /\ Generation' = Generation /\ KindOwner' = handle[x].ring /\ GeometryOwner' = handle[x].ring
  BY HeaderWrite DEF RegionInv
<1>5. /\ handle' \in [Handles -> HandleState] /\ handle'[x] = h
      /\ \A y \in Handles : y # x => handle'[y].pc \notin Creating
  BY <1>1, <1>2, <1>3, CreatorStep DEF Creating
<1>6. CreatorOf(x)'
  BY <1>1, <1>2, <1>4, <1>5 DEF RegionInv, CreatorInv, CreatorOf, Mid
<1>7. RingsInv'
  BY <1>1, <1>4, RingsMid DEF Mid
<1>8. HolderInv'
  BY <1>1, <1>2, <1>3, CreatorHolds DEF Creating
<1> QED BY <1>1, <1>4, <1>5, <1>6, <1>7, <1>8, CreatorAlone DEF RegionInv, Typed

LEMMA TakeInv ==
  ASSUME RegionInv, NEW x \in Handles, TakeLeases(x)
  PROVE  RegionInv'
<1>1. /\ handle[x].pc = "lease" /\ UNCHANGED <<log, file, zeroed, rings>> /\ handle[x] \in HandleState
      /\ lease' = [r \in Roles |-> IF r \in RolesOf(handle[x].kind) THEN x ELSE Free]
  BY DEF TakeLeases, RegionInv, Typed
<1> DEFINE h == [handle[x] EXCEPT !.held = RolesOf(handle[x].kind),
                                  !.pc = IF handle[x].kind = "lossy" THEN "zero" ELSE "publish"]
<1>2. /\ h \in HandleState /\ h.pc \in {"zero", "publish"} /\ h.held = RolesOf(handle[x].kind) /\ h.lost = handle[x].lost
      /\ h.ring = handle[x].ring /\ h.kind = handle[x].kind /\ (h.pc = "zero" <=> h.kind = "lossy")
      /\ h.held \subseteq Roles
  BY <1>1 DEF HandleState, Creating, RolesOf, Roles
<1>3. handle' = [handle EXCEPT ![x] = h]
  BY DEF TakeLeases, RegionInv, Typed
<1> HIDE DEF h
<1>4. LogInv' /\ Generation' = Generation /\ KindOwner' = KindOwner /\ GeometryOwner' = GeometryOwner
  BY <1>1, HeaderSame DEF RegionInv, Header
<1>5. /\ handle' \in [Handles -> HandleState] /\ handle'[x] = h
      /\ \A y \in Handles : y # x => handle'[y] = handle[y] /\ handle'[y].pc \notin Creating
  BY <1>1, <1>2, <1>3, CreatorStep DEF Creating
<1>6. CreatorOf(x)'
  <2>1. CreatorOf(x)
    BY DEF RegionInv, CreatorInv
  <2>2. \A r \in h.held : lease'[r] = x
    BY <1>1, <1>2
  <2> QED BY <1>1, <1>2, <1>4, <1>5, <2>1, <2>2 DEF CreatorOf, Mid
<1>7. RingsInv'
  BY <1>1, <1>4, RingsMid DEF Mid
<1>8. HolderInv'
  <2>1. \A r \in Roles : lease'[r] # Free => lease'[r] = x /\ r \in h.held
    BY <1>1, <1>2
  <2>2. NoLeaseLeaks'
    BY <1>5, <2>1 DEF NoLeaseLeaks
  <2>3. HolderOf(x)'
    BY <1>1, <1>2, <1>5 DEF RegionInv, HolderInv, HolderOf
  <2>4. \A y \in Handles : y # x => HolderOf(y)'
    BY <1>5 DEF RegionInv, HolderInv, HolderOf
  <2> QED BY <2>2, <2>3, <2>4 DEF HolderInv
<1>9. lease' \in [Roles -> Handles \union {Free}]
  BY <1>1
<1> QED BY <1>1, <1>4, <1>5, <1>6, <1>7, <1>8, <1>9, CreatorAlone DEF RegionInv, Typed

LEMMA ZeroInv ==
  ASSUME RegionInv, NEW x \in Handles, ZeroBuffer(x)
  PROVE  RegionInv'
<1>1. /\ handle[x].pc \in {"zero", "zero_late"} /\ UNCHANGED <<log, lease, file, rings>> /\ zeroed' = TRUE
      /\ handle[x] \in HandleState
  BY DEF ZeroBuffer, RegionInv, Typed
<1> DEFINE h == [handle[x] EXCEPT !.pc = IF handle[x].pc = "zero" THEN "publish" ELSE "attached"]
<1>2. /\ h \in HandleState /\ h.pc \in {"publish", "attached"} /\ h.held = handle[x].held /\ h.lost = handle[x].lost
      /\ h.ring = handle[x].ring /\ h.kind = handle[x].kind /\ (h.pc = "publish" <=> handle[x].pc = "zero")
  BY <1>1 DEF HandleState, Creating
<1>3. handle' = [handle EXCEPT ![x] = h]
  BY DEF ZeroBuffer, To, RegionInv, Typed
<1> HIDE DEF h
<1>4. /\ LogInv' /\ Generation' = Generation /\ Magic' = Magic
      /\ KindOwner' = KindOwner /\ GeometryOwner' = GeometryOwner
  BY <1>1, HeaderSame DEF RegionInv, Header
<1>5. /\ handle' \in [Handles -> HandleState] /\ handle'[x] = h
      /\ \A y \in Handles : y # x => handle'[y].pc \notin Creating
  BY <1>1, <1>2, <1>3, CreatorStep DEF Creating
<1>6. CreatorOf(x)'
  <2>1. CreatorOf(x)
    BY DEF RegionInv, CreatorInv
  <2> QED BY <1>1, <1>2, <1>4, <1>5, <2>1 DEF CreatorOf, Mid
<1>7. RingsInv'
  BY <1>1, <1>4 DEF RegionInv, RingsInv, FinishedIsOpen, Magic, KindOwner, GeometryOwner
<1>8. HolderInv'
  BY <1>1, <1>2, <1>3, CreatorHolds DEF Creating
<1> QED BY <1>1, <1>4, <1>5, <1>6, <1>7, <1>8, CreatorAlone DEF RegionInv, Typed

LEMMA PublishInv ==
  ASSUME RegionInv, NEW x \in Handles, PublishMagic(x)
  PROVE  RegionInv'
<1>1. handle[x].pc = "publish" /\ UNCHANGED <<lease, file, zeroed, rings>> /\ handle[x] \in HandleState
  BY DEF PublishMagic, RegionInv, Typed
<1> DEFINE h == [handle[x] EXCEPT !.pc = "close"]
<1>2. /\ h \in HandleState /\ h.pc = "close" /\ h.held = handle[x].held /\ h.lost = handle[x].lost
      /\ h.ring = handle[x].ring /\ h.kind = handle[x].kind
  BY <1>1 DEF HandleState, Creating
<1>3. handle' = [handle EXCEPT ![x] = h]
  BY DEF PublishMagic, To, RegionInv, Typed
<1> HIDE DEF h
<1>4. /\ LogInv' /\ Generation' = Generation /\ Magic' = 1
      /\ KindOwner' = KindOwner /\ GeometryOwner' = GeometryOwner
  BY HeaderPublish DEF RegionInv
<1>5. /\ handle' \in [Handles -> HandleState] /\ handle'[x] = h
      /\ \A y \in Handles : y # x => handle'[y].pc \notin Creating
  BY <1>1, <1>2, <1>3, CreatorStep DEF Creating
<1>6. CreatorOf(x)'
  BY <1>1, <1>2, <1>4, <1>5 DEF RegionInv, CreatorInv, CreatorOf, Mid
<1>7. RingsInv'
  BY <1>1, <1>4, RingsMid DEF Mid
<1>8. HolderInv'
  BY <1>1, <1>2, <1>3, CreatorHolds DEF Creating
<1> QED BY <1>1, <1>4, <1>5, <1>6, <1>7, <1>8, CreatorAlone DEF RegionInv, Typed

LEMMA CloseInv ==
  ASSUME RegionInv, NEW x \in Handles, CloseGeneration(x)
  PROVE  RegionInv'
<1>1. handle[x].pc = "close" /\ UNCHANGED <<lease, file, zeroed>> /\ handle[x] \in HandleState
  BY DEF CloseGeneration, RegionInv, Typed
<1>2. PICK g \in Nat : g = Generation
  BY HeaderTyped DEF RegionInv
<1>3. PICK n \in Nat : n = Len(rings)
  BY DEF RegionInv, Typed
<1>4. /\ LogInv' /\ Generation' = g + 1 /\ Magic' = Magic /\ KindOwner' = KindOwner /\ GeometryOwner' = GeometryOwner
  BY <1>2, HeaderClose DEF RegionInv
<1>5. /\ rings # << >> /\ handle[x].ring = n /\ rings[n].kind = handle[x].kind /\ rings[n].gen = 0 /\ g % 2 = 1
      /\ KindOwner = n /\ GeometryOwner = n /\ Magic = 1 /\ (handle[x].kind = "lossy" => zeroed)
      /\ \A r \in handle[x].held : lease[r] = x
  BY <1>1, <1>2, <1>3 DEF RegionInv, CreatorInv, CreatorOf, Mid
<1>6. n \in 1 .. Len(rings) /\ n \in 1 .. n
  BY <1>3, <1>5 DEF RegionInv, Typed
<1>7. \A i \in 1 .. n : rings[i] \in [kind : Kinds, len : Lengths, gen : Nat]
  BY <1>3, ElementOfSeq DEF RegionInv, Typed
<1>8. /\ rings' \in Seq([kind : Kinds, len : Lengths, gen : Nat]) /\ Len(rings') = n /\ rings' # << >>
      /\ rings'[n].gen = g + 1 /\ rings'[n].kind = rings[n].kind
      /\ \A i \in 1 .. n : i # n => rings'[i] = rings[i]
  <2>1. rings' = [rings EXCEPT ![n].gen = g + 1]
    BY <1>2, <1>3 DEF CloseGeneration
  <2>2. rings' = [rings EXCEPT ![n] = [rings[n] EXCEPT !.gen = g + 1]]
    BY <2>1
  <2>3. [rings[n] EXCEPT !.gen = g + 1] \in [kind : Kinds, len : Lengths, gen : Nat]
    BY <1>6, <1>7
  <2>4. rings' \in Seq([kind : Kinds, len : Lengths, gen : Nat]) /\ Len(rings') = Len(rings)
        /\ \A i \in 1 .. Len(rings) : rings'[i] = IF i = n THEN [rings[n] EXCEPT !.gen = g + 1] ELSE rings[i]
    BY <1>6, <2>2, <2>3, ExceptSeq DEF RegionInv, Typed
  <2>5. [rings[n] EXCEPT !.gen = g + 1].gen = g + 1 /\ [rings[n] EXCEPT !.gen = g + 1].kind = rings[n].kind
    BY <1>6, <1>7
  <2>6. rings'[n] = [rings[n] EXCEPT !.gen = g + 1]
    BY <1>6, <2>4
  <2> QED BY <1>3, <1>5, <1>6, <2>4, <2>5, <2>6
<1> DEFINE h == [handle[x] EXCEPT !.gen = g + 1, !.pc = IF handle[x].kind = "pair" THEN "zero_late" ELSE "attached"]
<1>9. /\ h \in HandleState /\ h.pc \in {"zero_late", "attached"} /\ h.held = handle[x].held /\ h.lost = handle[x].lost
      /\ h.ring = handle[x].ring /\ h.kind = handle[x].kind /\ h.gen = g + 1 /\ (h.pc = "zero_late" => h.kind = "pair")
  <2>1. PICK p \in {"zero_late", "attached"} : p = IF handle[x].kind = "pair" THEN "zero_late" ELSE "attached"
    OBVIOUS
  <2>2. h = [handle[x] EXCEPT !.gen = g + 1, !.pc = p] /\ (p = "zero_late" => handle[x].kind = "pair")
    BY <2>1
  <2>3. g + 1 \in Nat /\ handle[x] \in HandleState /\ "zero_late" \in Creating
    BY <1>1 DEF Creating
  <2> HIDE DEF h
  <2> QED BY <2>1, <2>2, <2>3 DEF HandleState
<1>10. handle' = [handle EXCEPT ![x] = h]
  BY <1>2 DEF CloseGeneration, RegionInv, Typed
<1> HIDE DEF h
<1>11. /\ handle' \in [Handles -> HandleState] /\ handle'[x] = h
       /\ \A y \in Handles : y # x => handle'[y].pc \notin Creating
  BY <1>1, <1>9, <1>10, CreatorStep DEF Creating
<1>12. CreatorOf(x)'
  <2>1. /\ handle'[x].pc \in {"zero_late", "attached"} /\ handle'[x].ring = Len(rings') /\ rings' # << >>
        /\ rings'[Len(rings')].kind = handle'[x].kind /\ rings'[Len(rings')].gen = Generation'
        /\ handle'[x].gen = Generation' /\ (handle'[x].pc = "zero_late" => handle'[x].kind = "pair")
    BY <1>4, <1>5, <1>8, <1>9, <1>11
  <2>2. \A r \in handle'[x].held : lease'[r] = x
    BY <1>1, <1>5, <1>9, <1>11
  <2> QED BY <2>1, <2>2 DEF CreatorOf, Mid
<1>13. RingsInv'
  <2>1. (g + 1) % 2 = 0 /\ g + 1 # 0
    <3>1. g % 2 = 1
      BY <1>5
    <3> QED BY <3>1, OddIsOdd
  <2>2. ASSUME NEW i \in 1 .. n, i # n PROVE rings'[i].gen <= g /\ rings'[i].gen \in Nat
    <3>1. rings[i].gen \in Nat /\ rings'[i] = rings[i]
      BY <1>7, <1>8, <2>2
    <3>2. rings[i].gen <= Generation
      BY <1>3 DEF RegionInv, RingsInv
    <3> QED BY <1>2, <3>1, <3>2
  <2>3. \A i \in 1 .. Len(rings') : rings'[i].gen <= Generation'
    BY <1>4, <1>8, <2>2
  <2>4. \A i \in 1 .. Len(rings') - 1 : rings'[i].gen < Generation'
    BY <1>4, <1>8, <2>2
  <2>5. FinishedIsOpen'
    BY <1>4, <1>5, <1>8, <2>1, <2>4 DEF FinishedIsOpen, Magic, KindOwner, GeometryOwner
  <2>6. rings'[Len(rings')].kind = "lossy" => zeroed'
    BY <1>1, <1>5, <1>8
  <2> QED BY <1>4, <1>8, <2>1, <2>3, <2>5, <2>6 DEF RingsInv
<1>14. HolderInv'
  BY <1>1, <1>9, <1>10, CreatorHolds DEF Creating
<1> QED BY <1>1, <1>4, <1>8, <1>11, <1>12, <1>13, <1>14, CreatorAlone DEF RegionInv, Typed

-----------------------------------------------------------------------------

LEMMA Inductive == RegionInv /\ [RegionNext]_region_vars => RegionInv'
<1> SUFFICES ASSUME RegionInv, [RegionNext]_region_vars PROVE RegionInv'
  OBVIOUS
<1>1. ASSUME NEW x \in Handles, create_region(x) PROVE RegionInv'
  BY <1>1, TruncateInv, InvalidateInv, ClearInv, WriteInv, TakeInv, ZeroInv, PublishInv, CloseInv DEF create_region
<1>2. ASSUME NEW x \in Handles, open_region(x) PROVE RegionInv'
  BY <1>2, OpenInv
<1>3. ASSUME NEW x \in Handles, ClaimRole(x) \/ RecheckRole(x) \/ ForceClaim(x) \/ Drop(x) \/ Die(x) PROVE RegionInv'
  BY <1>3, ClaimInv, RecheckRoleInv, ForceInv, DropInv, DieInv
<1>4. CASE UNCHANGED region_vars
  <2>1. Quiet /\ UNCHANGED <<lease, handle>>
    BY <1>4 DEF region_vars, Quiet
  <2>2. \A y \in Handles : CreatorOf(y)'
    BY <2>1, CreatorQuiet
  <2>3. CreatorInv'
    BY <2>1, <2>2 DEF RegionInv, CreatorInv
  <2>4. Typed' /\ HolderInv'
    BY <2>1 DEF RegionInv, Typed, Quiet, HolderInv, HolderOf, NoLeaseLeaks
  <2> QED BY <2>1, <2>3, <2>4, RingsQuiet DEF RegionInv
<1> QED BY <1>1, <1>2, <1>3, <1>4 DEF RegionNext

\* What the creators leave in the header, the leases and the buffer, whichever
\* of them die where and however the attachers' loads are ordered.
THEOREM RegionInvariance == RegionSpec => []RegionInv
<1> QED BY RegionInitial, Inductive, PTL DEF RegionSpec

\* FinishedIsOpen: a creation that ran to its end (create_region's closing store
\* of the generation) left a region that opens, whatever half-written header it
\* found, and at a generation of its own.
THEOREM FinishedOpens == RegionSpec => []FinishedIsOpen
<1>1. RegionInv => FinishedIsOpen
  BY DEF RegionInv, RingsInv
<1> QED BY <1>1, RegionInvariance, PTL

\* NoLeaseLeaks: a taken lease is a handle's or a dead one's, after refused
\* attaches, rolled back claims (claim_lease), drops and takeovers alike.
THEOREM LeasesAreHeld == RegionSpec => []NoLeaseLeaks
<1>1. RegionInv => NoLeaseLeaks
  BY DEF RegionInv, HolderInv
<1> QED BY <1>1, RegionInvariance, PTL

-----------------------------------------------------------------------------
(* What an attacher makes of the header, loading in program order *)

Readers == {"magic", "kind", "geometry", "recheck", "opened", "claimed", "attached", "stale"}

\* An even generation under a magic is that of a whole ring.
LEMMA EvenIsOpen ==
  ASSUME RegionInv, Generation % 2 = 0, Magic # 0
  PROVE  /\ Len(rings) \in 1 .. Len(rings) /\ rings[Len(rings)].gen = Generation /\ Generation # 0
         /\ Magic = 1 /\ KindOwner = Len(rings) /\ GeometryOwner = Len(rings)
<1>1. rings # << >> /\ rings[Len(rings)].gen = Generation /\ Generation # 0
  BY DEF RegionInv, RingsInv
<1>2. Len(rings) \in 1 .. Len(rings)
  BY <1>1 DEF RegionInv, Typed
<1> QED BY <1>1, <1>2 DEF RegionInv, RingsInv, FinishedIsOpen, Magic, KindOwner, GeometryOwner

\* The ring of an even generation is the newest.
LEMMA OfTheNewest ==
  ASSUME RegionInv, NEW n \in 1 .. Len(rings), rings[n].gen = Generation, Generation % 2 = 0
  PROVE  n = Len(rings) /\ Generation # 0
<1>1. PICK g \in Nat : g = Generation
  BY HeaderTyped DEF RegionInv
<1>2. PICK m \in Nat : m = Len(rings)
  BY DEF RegionInv, Typed
<1>3. rings # << >> /\ rings[m].gen = g /\ g # 0
  BY <1>1, <1>2 DEF RegionInv, Typed, RingsInv
<1>4. \A i \in 1 .. m - 1 : rings[i].gen < g
  BY <1>1, <1>2, <1>3 DEF RegionInv, RingsInv, FinishedIsOpen
<1>5. n \notin 1 .. m - 1
  BY <1>1, <1>4
<1> QED BY <1>1, <1>2, <1>3, <1>5

\* A handle that is no attacher any more.
LEMMA NoReader ==
  ASSUME NEW x \in Handles, handle'[x].pc \notin Readers
  PROVE  ReaderOf(x)'
BY DEF ReaderOf, Readers, Validated, Attached

\* A handle that the step leaves where it is, the header as well, and that loses
\* no lease it does not know to have lost.
LEMMA ReaderKept ==
  ASSUME NEW y \in Handles, ReaderOf(y), Header' = Header, UNCHANGED rings,
         handle'[y].pc = handle[y].pc, handle'[y].gen = handle[y].gen,
         handle'[y].kind = handle[y].kind, handle'[y].ring = handle[y].ring,
         \A r \in handle'[y].held \ handle'[y].lost :
           r \in handle[y].held \ handle[y].lost /\ (lease[r] = y => lease'[r] = y)
  PROVE  ReaderOf(y)'
<1>1. Generation' = Generation /\ Magic' = Magic /\ KindOwner' = KindOwner /\ GeometryOwner' = GeometryOwner
  BY DEF Header
<1> QED BY <1>1 DEF ReaderOf, Validated, Attached

\* A handle whose generation is not the region's: it is of a ring that was.
LEMMA ReaderPassed ==
  ASSUME NEW y \in Handles, ReaderOf(y), handle[y].gen \in Nat, Generation \in Nat, Generation' \in Nat,
         Generation <= Generation', handle[y].pc \in Readers => handle[y].gen # Generation',
         handle'[y].pc = handle[y].pc \/ (Attached(y) /\ handle'[y].pc = "stale"), ~Attached(y)',
         handle'[y].gen = handle[y].gen, handle'[y].kind = handle[y].kind, handle'[y].ring = handle[y].ring,
         Len(rings) \in Nat, Len(rings') \in Nat, Len(rings) <= Len(rings'),
         \A i \in 1 .. Len(rings) : rings[i].gen # 0 => rings'[i] = rings[i]
  PROVE  ReaderOf(y)'
<1>1. CASE handle'[y].pc \notin Readers
  BY <1>1, NoReader
<1>2. CASE handle'[y].pc \in Readers
  <2>1. handle[y].pc \in Readers /\ handle'[y].gen # Generation'
    BY <1>2 DEF Readers, Attached
  <2>2. handle'[y].gen <= Generation' /\ handle'[y].gen % 2 = 0
    BY <2>1 DEF ReaderOf, Readers
  <2>3. Validated(y)' => Validated(y)
    BY DEF Validated, Attached
  <2>4. Validated(y)' =>
          /\ handle'[y].ring \in 1 .. Len(rings') /\ rings'[handle'[y].ring].kind = handle'[y].kind
          /\ rings'[handle'[y].ring].gen = handle'[y].gen /\ handle'[y].gen # 0
    BY <2>3 DEF ReaderOf
  <2> QED BY <2>1, <2>2, <2>4 DEF ReaderOf
<1> QED BY <1>1, <1>2

\* What open_region loads, and what it makes of it.
LEMMA OpenReads ==
  ASSUME InOrder, RegionInv, NEW x \in Handles, ReaderOf(x), open_region(x), Header' = Header, UNCHANGED rings,
         handle'[x].held = {}
  PROVE  ReaderOf(x)'
<1>1. LogInv /\ handle \in [Handles -> HandleState] /\ handle[x] \in HandleState
  BY DEF RegionInv, Typed
<1>2. Generation' = Generation /\ Magic' = Magic /\ KindOwner' = KindOwner /\ GeometryOwner' = GeometryOwner
  BY DEF Header
<1>3. \A loc \in Words : \A t \in Loads(x)!Visible(loc) : Stores!Value(t) = Stores!Newest(loc)
  BY <1>1, LoadsNewest
<1>4. /\ \A t \in Loads(x)!Visible(GenerationWord) : Stores!Value(t) = Generation
      /\ \A t \in Loads(x)!Visible(MagicWord) : Stores!Value(t) = Magic
      /\ \A t \in Loads(x)!Visible(KindWord) : Stores!Value(t) = KindOwner
      /\ \A t \in Loads(x)!Visible(GeometryWord) : Stores!Value(t) = GeometryOwner
  BY <1>3 DEF Words, Generation, Magic, KindOwner, GeometryOwner
<1>5. CASE handle'[x].pc \notin Readers
  BY <1>5, NoReader
<1>6. PICK g \in Nat : g = Generation
  BY <1>1, HeaderTyped
<1>7. CASE handle'[x].pc \in Readers /\ MeasureFile(x)
  <2>1. handle'[x].pc = "generation"
    BY <1>1, <1>7 DEF MeasureFile
  <2> QED BY <1>7, <2>1 DEF Readers
<1>8. ASSUME Refuse(x), handle'[x].pc \in Readers PROVE FALSE
  BY <1>1, <1>8 DEF Refuse, Unused, Readers
<1>9. CASE handle'[x].pc \in Readers /\ LoadGeneration(x)
  <2>1. PICK v \in Nat : v = Generation /\ v % 2 # 1
          /\ \E w \in Nat : handle' = [handle EXCEPT ![x].pc = "magic", ![x].gen = v, ![x].view = w]
    BY <1>4, <1>8, <1>9, VisibleTyped DEF LoadGeneration
  <2>2. handle'[x].pc = "magic" /\ handle'[x].gen = v
    BY <1>1, <2>1 DEF HandleState
  <2>3. v <= v /\ v % 2 = 0
    BY <2>1
  <2> QED BY <1>2, <2>1, <2>2, <2>3 DEF ReaderOf, Validated, Attached
<1>10. CASE handle'[x].pc \in Readers /\ LoadMagic(x)
  <2>1. Magic # 0 /\ handle[x].pc = "magic"
          /\ \E w \in Nat : handle' = [handle EXCEPT ![x].pc = "kind", ![x].view = w]
    BY <1>4, <1>8, <1>10, VisibleTyped DEF LoadMagic
  <2>2. handle'[x].pc = "kind" /\ handle'[x].gen = handle[x].gen
    BY <1>1, <2>1 DEF HandleState
  <2>3. handle[x].gen <= Generation /\ handle[x].gen % 2 = 0
    BY <2>1 DEF ReaderOf
  <2>4. handle[x].gen = Generation => Magic = 1
    BY <2>1, <2>3, EvenIsOpen
  <2> QED BY <1>2, <2>2, <2>3, <2>4 DEF ReaderOf, Validated, Attached
<1>11. CASE handle'[x].pc \in Readers /\ LoadKind(x)
  <2>1. rings[KindOwner].kind = handle[x].kind /\ handle[x].pc = "kind" /\ handle' = [handle EXCEPT ![x].pc = "geometry"]
    BY <1>4, <1>8, <1>11 DEF LoadKind, To
  <2>2. handle'[x].pc = "geometry" /\ handle'[x].gen = handle[x].gen /\ handle'[x].kind = handle[x].kind
    BY <1>1, <2>1 DEF HandleState
  <2> QED BY <1>2, <2>1, <2>2 DEF ReaderOf, Validated, Attached
<1>12. CASE handle'[x].pc \in Readers /\ LoadGeometry(x)
  <2>1. handle[x].pc = "geometry" /\ handle' = [handle EXCEPT ![x].pc = "recheck", ![x].ring = GeometryOwner]
    BY <1>4, <1>8, <1>12 DEF LoadGeometry
  <2>2. /\ handle'[x].pc = "recheck" /\ handle'[x].gen = handle[x].gen /\ handle'[x].kind = handle[x].kind
        /\ handle'[x].ring = GeometryOwner
    BY <1>1, <2>1 DEF HandleState
  <2> QED BY <1>2, <2>1, <2>2 DEF ReaderOf, Validated, Attached
<1>13. CASE handle'[x].pc \in Readers /\ Recheck(x)
  <2>1. /\ Generation = handle[x].gen /\ handle[x].pc = "recheck"
        /\ \E w \in Nat : handle' = [handle EXCEPT ![x].pc = Opened(x), ![x].view = w]
    BY <1>4, <1>8, <1>13, VisibleTyped DEF Recheck
  <2>2. /\ handle'[x].pc = Opened(x) /\ handle'[x].gen = handle[x].gen /\ handle'[x].kind = handle[x].kind
        /\ handle'[x].ring = handle[x].ring
    BY <1>1, <2>1 DEF HandleState
  <2>3. handle'[x].pc \in {"opened", "attached"}
    BY <2>2 DEF Opened
  <2>4. /\ handle[x].gen <= Generation /\ handle[x].gen % 2 = 0 /\ Magic = 1
        /\ handle[x].kind = rings[KindOwner].kind /\ handle[x].ring = GeometryOwner
    BY <2>1 DEF ReaderOf
  <2>5. /\ handle[x].ring \in 1 .. Len(rings) /\ rings[handle[x].ring].kind = handle[x].kind
        /\ rings[handle[x].ring].gen = handle[x].gen /\ handle[x].gen # 0
    BY <2>1, <2>4, EvenIsOpen
  <2> QED BY <1>2, <2>1, <2>2, <2>3, <2>4, <2>5 DEF ReaderOf, Validated, Attached
<1> QED BY <1>5, <1>7, <1>9, <1>10, <1>11, <1>12, <1>13 DEF open_region

LEMMA OpenReaders ==
  ASSUME InOrder, RegionInv, ReaderInv, NEW x \in Handles, open_region(x)
  PROVE  ReaderInv'
<1>1. PICK h \in HandleState :
        /\ Quiet /\ UNCHANGED lease /\ handle' = [handle EXCEPT ![x] = h]
        /\ h.held = {} /\ h.lost = {}
  BY OpenStep
<1>2. Header' = Header /\ UNCHANGED rings
  BY <1>1, RingsQuiet DEF Quiet
<1>3. handle'[x] = h /\ \A y \in Handles : y # x => handle'[y] = handle[y]
  BY <1>1 DEF RegionInv, Typed
<1>4. ReaderOf(x)'
  BY <1>1, <1>2, <1>3, OpenReads DEF ReaderInv
<1>5. ASSUME NEW y \in Handles, y # x PROVE ReaderOf(y)'
  BY <1>1, <1>2, <1>3, <1>5, ReaderKept DEF ReaderInv
<1> QED BY <1>4, <1>5 DEF ReaderInv

\* claim_lease: what it takes was free, and it gives back only its own.
LEMMA ClaimReaders ==
  ASSUME RegionInv, ReaderInv, NEW x \in Handles, ClaimRole(x)
  PROVE  ReaderInv'
<1>1. PICK r \in handle[x].want :
        IF lease[r] # Free THEN Refuse(x) /\ UNCHANGED lease
        ELSE /\ lease' = [lease EXCEPT ![r] = x]
             /\ handle' = [handle EXCEPT ![x].pc = "claimed", ![x].held = {r}]
  BY DEF ClaimRole
<1>2. Quiet /\ handle[x].pc = "opened" /\ r \in Roles /\ handle[x] \in HandleState
  BY DEF ClaimRole, Quiet, RegionInv, Typed, HandleState
<1>3. Header' = Header /\ UNCHANGED rings
  BY <1>2, RingsQuiet DEF Quiet
<1>4. handle \in [Handles -> HandleState] /\ lease \in [Roles -> Handles \union {Free}]
  BY DEF RegionInv, Typed
<1>5. ASSUME NEW y \in Handles, y # x PROVE ReaderOf(y)'
  <2>1. handle'[y] = handle[y] /\ handle[y].held \subseteq Roles
    BY <1>1, <1>4, <1>5 DEF Refuse, HandleState
  <2>2. \A q \in Roles : lease[q] = y => lease'[q] = y
    BY <1>1, <1>2, <1>4, <1>5, ShmRegionAssumption
  <2> QED BY <1>3, <1>5, <2>1, <2>2, ReaderKept DEF ReaderInv
<1>6. ReaderOf(x)'
  <2>1. CASE lease[r] # Free
    <3>1. handle'[x].pc = "refused"
      BY <1>1, <1>4, <2>1 DEF Refuse, Unused
    <3> QED BY <3>1, NoReader DEF Readers
  <2>2. CASE lease[r] = Free
    <3>1. /\ handle'[x].pc = "claimed" /\ handle'[x].gen = handle[x].gen /\ handle'[x].kind = handle[x].kind
          /\ handle'[x].ring = handle[x].ring /\ handle'[x].held = {r} /\ lease'[r] = x
      BY <1>1, <1>2, <1>4, <2>2 DEF HandleState
    <3>2. Generation' = Generation
      BY <1>3 DEF Header
    <3> QED BY <1>2, <1>3, <3>1, <3>2 DEF ReaderInv, ReaderOf, Validated, Attached
  <2> QED BY <2>1, <2>2
<1> QED BY <1>5, <1>6 DEF ReaderInv

LEMMA RecheckRoleReaders ==
  ASSUME InOrder, RegionInv, ReaderInv, NEW x \in Handles, RecheckRole(x)
  PROVE  ReaderInv'
<1>1. Quiet /\ handle[x].pc = "claimed" /\ handle[x] \in HandleState /\ handle[x].held \subseteq Roles
  BY DEF RecheckRole, Quiet, RegionInv, Typed, HandleState
<1>2. PICK r \in handle[x].held :
        \/ Generation = handle[x].gen /\ To(x, "attached") /\ UNCHANGED lease
        \/ Refuse(x) /\ lease' = Released(x, r)
  <2>1. \A t \in Loads(x)!Visible(GenerationWord) : Stores!Value(t) = Generation
    BY LoadsNewest DEF RegionInv, Words, Generation
  <2> QED BY <2>1 DEF RecheckRole
<1>3. Header' = Header /\ UNCHANGED rings
  BY <1>1, RingsQuiet DEF Quiet
<1>4. handle \in [Handles -> HandleState] /\ lease \in [Roles -> Handles \union {Free}]
  BY DEF RegionInv, Typed
<1>5. ASSUME NEW y \in Handles, y # x PROVE ReaderOf(y)'
  <2>1. handle'[y] = handle[y] /\ handle[y].held \subseteq Roles
    BY <1>2, <1>4, <1>5 DEF Refuse, To, HandleState
  <2>2. \A q \in Roles : lease[q] = y => lease'[q] = y
    BY <1>1, <1>2, <1>5, ReleasedLease
  <2> QED BY <1>3, <1>5, <2>1, <2>2, ReaderKept DEF ReaderInv
<1>6. ReaderOf(x)'
  <2>1. CASE Refuse(x)
    <3>1. handle'[x].pc = "refused"
      BY <1>4, <2>1 DEF Refuse, Unused
    <3> QED BY <3>1, NoReader DEF Readers
  <2>2. CASE Generation = handle[x].gen /\ To(x, "attached") /\ UNCHANGED lease
    <3>1. /\ handle'[x].pc = "attached" /\ handle'[x].gen = handle[x].gen /\ handle'[x].kind = handle[x].kind
          /\ handle'[x].ring = handle[x].ring /\ handle'[x].held = handle[x].held /\ handle'[x].lost = handle[x].lost
      BY <1>1, <1>4, <2>2 DEF HandleState, To
    <3>2. Generation' = Generation
      BY <1>3 DEF Header
    <3> QED BY <1>1, <1>3, <2>2, <3>1, <3>2 DEF ReaderInv, ReaderOf, Validated, Attached
  <2> QED BY <1>2, <2>1, <2>2
<1> QED BY <1>5, <1>6 DEF ReaderInv

\* force_claim_lease: who had the role knows to have lost it.
LEMMA ForceReaders ==
  ASSUME RegionInv, ReaderInv, NEW x \in Handles, ForceClaim(x)
  PROVE  ReaderInv'
<1>1. PICK r \in handle[x].want \ handle[x].held :
       /\ \A y \in Handles : handle[y].pc \in {"opened", "claimed"} => r \notin handle[y].held
       /\ lease' = [lease EXCEPT ![r] = x]
       /\ handle' = [y \in Handles |->
            IF y = x THEN [handle[x] EXCEPT !.held = @ \union {r},
                             !.pc = IF handle[x].held \union {r} = handle[x].want THEN "attached" ELSE "opened"]
            ELSE IF r \in handle[y].held THEN [handle[y] EXCEPT !.lost = @ \union {r}] ELSE handle[y]]
  BY DEF ForceClaim
<1>2. Quiet /\ handle[x].pc = "opened" /\ Generation = handle[x].gen /\ r \in Roles /\ handle[x] \in HandleState
  BY DEF ForceClaim, Quiet, RegionInv, Typed, HandleState
<1>3. Header' = Header /\ UNCHANGED rings
  BY <1>2, RingsQuiet DEF Quiet
<1>4. handle \in [Handles -> HandleState] /\ lease \in [Roles -> Handles \union {Free}]
  BY DEF RegionInv, Typed
<1>5. lease'[r] = x /\ \A q \in Roles : q # r => lease'[q] = lease[q]
  BY <1>1, <1>2, <1>4
<1>6. ASSUME NEW y \in Handles, y # x PROVE ReaderOf(y)'
  <2>1. handle[y] \in HandleState /\ handle[y].held \subseteq Roles
    BY <1>4 DEF HandleState
  <2>2. /\ handle'[y].pc = handle[y].pc /\ handle'[y].gen = handle[y].gen /\ handle'[y].kind = handle[y].kind
        /\ handle'[y].ring = handle[y].ring /\ handle'[y].held = handle[y].held
        /\ handle'[y].lost = IF r \in handle[y].held THEN handle[y].lost \union {r} ELSE handle[y].lost
    BY <1>1, <1>6, <2>1 DEF HandleState
  <2>3. \A q \in handle'[y].held \ handle'[y].lost : q \in handle[y].held \ handle[y].lost /\ q # r /\ q \in Roles
    BY <2>1, <2>2
  <2> QED BY <1>3, <1>5, <1>6, <2>2, <2>3, ReaderKept DEF ReaderInv
<1>7. ReaderOf(x)'
  <2>1. /\ handle'[x].pc \in {"opened", "attached"} /\ handle'[x].gen = handle[x].gen /\ handle'[x].kind = handle[x].kind
        /\ handle'[x].ring = handle[x].ring /\ handle'[x].held = handle[x].held \union {r}
        /\ handle'[x].lost = handle[x].lost
    BY <1>1, <1>2 DEF HandleState
  <2>2. Generation' = Generation
    BY <1>3 DEF Header
  <2>3. handle[x].held \subseteq Roles
    BY <1>2 DEF HandleState
  <2>4. ReaderOf(x)
    BY DEF ReaderInv
  <2>5. \A q \in handle'[x].held \ handle'[x].lost : lease'[q] = x
    BY <1>2, <1>5, <2>1, <2>3, <2>4 DEF ReaderOf
  <2> QED BY <1>2, <1>3, <2>1, <2>2, <2>4, <2>5 DEF ReaderOf, Validated, Attached
<1> QED BY <1>6, <1>7 DEF ReaderInv

\* However late a handle is dropped, it frees no other's lease.
LEMMA DropReaders ==
  ASSUME RegionInv, ReaderInv, NEW x \in Handles, Drop(x)
  PROVE  ReaderInv'
<1>1. PICK r \in handle[x].held :
        /\ lease' = Released(x, r)
        /\ handle' = [handle EXCEPT ![x].held = @ \ {r}, ![x].lost = @ \ {r}]
  BY DEF Drop
<1>2. Quiet /\ r \in Roles /\ handle[x] \in HandleState /\ handle \in [Handles -> HandleState]
  BY DEF Drop, Quiet, RegionInv, Typed, HandleState
<1>3. Header' = Header /\ UNCHANGED rings
  BY <1>2, RingsQuiet DEF Quiet
<1>4. \A q \in Roles : lease'[q] = lease[q] \/ (q = r /\ lease[r] = x)
  BY <1>1, <1>2, ReleasedLease
<1>5. ASSUME NEW y \in Handles
      PROVE  /\ handle'[y].pc = handle[y].pc /\ handle'[y].gen = handle[y].gen /\ handle'[y].kind = handle[y].kind
             /\ handle'[y].ring = handle[y].ring
             /\ handle'[y].held \ handle'[y].lost \subseteq handle[y].held \ handle[y].lost
             /\ y = x => r \notin handle'[y].held
  BY <1>1, <1>2 DEF HandleState
<1>6. ASSUME NEW y \in Handles PROVE ReaderOf(y)'
  <2>1. handle[y].held \subseteq Roles
    BY <1>2 DEF HandleState
  <2>2. \A q \in handle'[y].held \ handle'[y].lost :
          q \in handle[y].held \ handle[y].lost /\ (lease[q] = y => lease'[q] = y)
    BY <1>4, <1>5, <2>1
  <2> QED BY <1>3, <1>5, <2>2, ReaderKept DEF ReaderInv
<1> QED BY <1>6 DEF ReaderInv

LEMMA DieReaders ==
  ASSUME RegionInv, ReaderInv, NEW x \in Handles, Die(x)
  PROVE  ReaderInv'
<1>1. Quiet /\ UNCHANGED lease /\ handle' = [handle EXCEPT ![x] = [Unused EXCEPT !.pc = "dead"]]
  BY DEF Die, Quiet
<1>2. handle'[x].pc = "dead" /\ \A y \in Handles : y # x => handle'[y] = handle[y]
  BY <1>1, UnusedTyped DEF RegionInv, Typed
<1>3. Header' = Header /\ UNCHANGED rings
  BY <1>1, RingsQuiet DEF Quiet
<1>4. ReaderOf(x)'
  BY <1>2, NoReader DEF Readers
<1>5. ASSUME NEW y \in Handles, y # x PROVE ReaderOf(y)'
  BY <1>1, <1>2, <1>3, <1>5, ReaderKept DEF ReaderInv
<1> QED BY <1>4, <1>5 DEF ReaderInv

\* While the generation is odd nobody is attached, and no attacher has read it.
LEMMA OddIsNobodys ==
  ASSUME RegionInv, ReaderInv, NEW y \in Handles, handle[y].pc \in Readers, Generation % 2 = 1
  PROVE  ~Attached(y) /\ handle[y].gen # Generation
<1>1. PICK g \in Nat : g = Generation
  BY HeaderTyped DEF RegionInv
<1>2. handle[y].gen % 2 = 0
  BY DEF ReaderInv, ReaderOf, Readers
<1>3. handle[y].gen # Generation
  BY <1>1, <1>2
<1> QED BY <1>3 DEF ReaderInv, ReaderOf

\* A store of a creation under an odd generation.
LEMMA MidReaders ==
  ASSUME RegionInv, ReaderInv, NEW x \in Handles, handle[x].pc \in Mid, Generation' = Generation, UNCHANGED rings,
         handle'[x].pc \notin Readers, \A y \in Handles : y # x => handle'[y] = handle[y]
  PROVE  ReaderInv'
<1>1. Generation % 2 = 1
  BY DEF RegionInv, CreatorInv, CreatorOf
<1>2. Generation \in Nat /\ Generation' \in Nat /\ Generation <= Generation'
  <2>1. PICK g \in Nat : g = Generation
    BY HeaderTyped DEF RegionInv
  <2> QED BY <2>1
<1>3. Len(rings) \in Nat /\ Len(rings') \in Nat /\ Len(rings) <= Len(rings')
  <2>1. PICK n \in Nat : n = Len(rings)
    BY DEF RegionInv, Typed
  <2> QED BY <2>1
<1>4. ReaderOf(x)'
  BY NoReader
<1>5. ASSUME NEW y \in Handles, y # x PROVE ReaderOf(y)'
  <2>1. handle[y].gen \in Nat
    BY DEF RegionInv, Typed, HandleState
  <2>2. handle'[y] = handle[y]
    BY <1>5
  <2>3. ~Attached(y)'
    BY <1>1, <2>2, OddIsNobodys DEF Attached, Readers
  <2>4. handle[y].pc \in Readers => handle[y].gen # Generation'
    BY <1>1, OddIsNobodys
  <2> QED BY <1>2, <1>3, <2>1, <2>2, <2>3, <2>4, ReaderPassed DEF ReaderInv
<1> QED BY <1>4, <1>5 DEF ReaderInv

LEMMA StoreReaders ==
  ASSUME RegionInv, ReaderInv, NEW x \in Handles,
         ClearMagic(x) \/ WriteHeader(x) \/ TakeLeases(x) \/ PublishMagic(x) \/ (ZeroBuffer(x) /\ handle[x].pc = "zero")
  PROVE  ReaderInv'
<1>1. handle[x].pc \in Mid /\ UNCHANGED rings
  BY DEF Mid, ClearMagic, WriteHeader, TakeLeases, PublishMagic, ZeroBuffer
<1>2. Generation' = Generation
  <2>1. LogInv /\ Typed
    BY DEF RegionInv
  <2>2. CASE UNCHANGED log
    BY <2>1, <2>2, HeaderSame DEF Header
  <2>3. CASE ClearMagic(x) \/ WriteHeader(x) \/ PublishMagic(x)
    BY <2>1, <2>3, HeaderClear, HeaderWrite, HeaderPublish
  <2> QED BY <2>2, <2>3 DEF TakeLeases, ZeroBuffer
<1>3. handle \in [Handles -> HandleState] /\ handle[x] \in HandleState
  BY DEF RegionInv, Typed
<1>4. handle'[x].pc \in {"write", "lease", "zero", "publish", "close"}
  <2>1. CASE ClearMagic(x) \/ WriteHeader(x) \/ PublishMagic(x)
    BY <1>3, <2>1 DEF HandleState, ClearMagic, WriteHeader, PublishMagic, To
  <2>2. CASE TakeLeases(x)
    BY <1>3, <2>2 DEF HandleState, TakeLeases
  <2>3. CASE ZeroBuffer(x) /\ handle[x].pc = "zero"
    BY <1>3, <2>3 DEF HandleState, ZeroBuffer, To
  <2> QED BY <2>1, <2>2, <2>3
<1>5. \A y \in Handles : y # x => handle'[y] = handle[y]
  BY <1>3 DEF ClearMagic, WriteHeader, TakeLeases, PublishMagic, ZeroBuffer, To
<1> QED BY <1>1, <1>2, <1>4, <1>5, MidReaders DEF Readers

LEMMA TruncateReaders ==
  ASSUME RegionInv, ReaderInv, NEW x \in Handles, Truncate(x)
  PROVE  ReaderInv'
<1>1. handle \in [Handles -> HandleState] /\ handle[x] \in HandleState
  BY DEF RegionInv, Typed
<1>2. handle'[x].pc = "invalidate" /\ \A y \in Handles : y # x => handle'[y] = handle[y]
  BY <1>1 DEF Truncate, HandleState
<1>3. Header' = Header /\ UNCHANGED <<rings, lease>>
  BY HeaderSame DEF Truncate, RegionInv
<1>4. ReaderOf(x)'
  BY <1>2, NoReader DEF Readers
<1>5. ASSUME NEW y \in Handles, y # x PROVE ReaderOf(y)'
  BY <1>2, <1>3, <1>5, ReaderKept DEF ReaderInv
<1> QED BY <1>4, <1>5 DEF ReaderInv

\* The creator of a pair is attached when it has zeroed the buffer, after it
\* closed the generation.
LEMMA LateReaders ==
  ASSUME RegionInv, ReaderInv, NEW x \in Handles, ZeroBuffer(x), handle[x].pc = "zero_late"
  PROVE  ReaderInv'
<1>1. handle \in [Handles -> HandleState] /\ handle[x] \in HandleState
  BY DEF RegionInv, Typed
<1>2. handle' = [handle EXCEPT ![x].pc = "attached"]
  BY DEF ZeroBuffer, To
<1>3. /\ handle'[x].pc = "attached" /\ handle'[x].gen = handle[x].gen /\ handle'[x].kind = handle[x].kind
      /\ handle'[x].ring = handle[x].ring /\ handle'[x].held = handle[x].held
      /\ \A y \in Handles : y # x => handle'[y] = handle[y]
  BY <1>1, <1>2 DEF HandleState
<1>4. Header' = Header /\ UNCHANGED <<rings, lease>>
  BY HeaderSame DEF ZeroBuffer, RegionInv
<1>5. /\ rings # << >> /\ handle[x].ring = Len(rings) /\ rings[Len(rings)].kind = handle[x].kind
      /\ handle[x].gen = Generation /\ rings[Len(rings)].gen = Generation /\ \A r \in handle[x].held : lease[r] = x
  BY DEF RegionInv, CreatorInv, CreatorOf
<1>6. Generation \in Nat /\ Generation <= Generation
  <2>1. PICK g \in Nat : g = Generation
    BY HeaderTyped DEF RegionInv
  <2> QED BY <2>1
<1>7. Len(rings) \in 1 .. Len(rings)
  BY <1>5 DEF RegionInv, Typed
<1>8. Generation # 0
  BY <1>5 DEF RegionInv, RingsInv
<1>9. Generation % 2 = 0
  BY <1>5, <1>8 DEF RegionInv, RingsInv, FinishedIsOpen
<1>10. ReaderOf(x)'
  <2>1. Generation' = Generation /\ handle'[x].gen = Generation /\ rings' = rings /\ lease' = lease
    BY <1>3, <1>4, <1>5 DEF Header
  <2> QED BY <1>3, <1>5, <1>6, <1>7, <1>8, <1>9, <2>1 DEF ReaderOf, Validated, Attached
<1>11. ASSUME NEW y \in Handles, y # x PROVE ReaderOf(y)'
  BY <1>3, <1>4, <1>11, ReaderKept DEF ReaderInv
<1> QED BY <1>10, <1>11 DEF ReaderInv

\* The first store of a creation: the handles of the ring that was know their
\* generation to have passed.
LEMMA InvalidateReaders ==
  ASSUME RegionInv, ReaderInv, NEW x \in Handles, Invalidate(x)
  PROVE  ReaderInv'
<1>1. PICK g \in Nat : g = Generation
  BY HeaderTyped DEF RegionInv
<1>2. Generation' = Odd(g) /\ Odd(g) \in Nat /\ Odd(g) % 2 = 1 /\ g <= Odd(g)
  <2>1. Generation' = Odd(g)
    BY <1>1, HeaderInvalidate DEF RegionInv
  <2> QED BY <2>1, OddIsOdd
<1>3. PICK n \in Nat : n = Len(rings)
  BY DEF RegionInv, Typed
<1>4. Len(rings') = n + 1 /\ \A i \in 1 .. n : rings'[i] = rings[i]
  BY <1>3, AppendProperties DEF Invalidate, RegionInv, Typed
<1>5. handle \in [Handles -> HandleState] /\ handle[x] \in HandleState
  BY DEF RegionInv, Typed
<1>6. /\ handle'[x].pc = "clear"
      /\ \A y \in Handles : y # x =>
           handle'[y] = IF Attached(y) THEN [handle[y] EXCEPT !.pc = "stale"] ELSE handle[y]
  BY <1>5 DEF Invalidate, HandleState
<1>7. ReaderOf(x)'
  BY <1>6, NoReader DEF Readers
<1>8. ASSUME NEW y \in Handles, y # x PROVE ReaderOf(y)'
  <2>1. handle[y] \in HandleState /\ handle[y].gen \in Nat
    BY <1>5 DEF HandleState
  <2>2. /\ handle'[y].pc = handle[y].pc \/ (Attached(y) /\ handle'[y].pc = "stale")
        /\ handle'[y].pc # "attached"
        /\ handle'[y].gen = handle[y].gen /\ handle'[y].kind = handle[y].kind /\ handle'[y].ring = handle[y].ring
    BY <1>6, <1>8, <2>1 DEF HandleState, Attached
  <2>3. handle[y].pc \in Readers => handle[y].gen % 2 = 0
    BY DEF ReaderInv, ReaderOf, Readers
  <2>4. handle[y].pc \in Readers => handle[y].gen # Generation'
    BY <1>2, <2>1, <2>3
  <2>5. Generation \in Nat /\ Generation' \in Nat /\ Generation <= Generation'
    BY <1>1, <1>2
  <2>6. Len(rings) \in Nat /\ Len(rings') \in Nat /\ Len(rings) <= Len(rings')
    BY <1>3, <1>4
  <2>7. ~Attached(y)'
    BY <2>2 DEF Attached
  <2>8. \A i \in 1 .. Len(rings) : rings[i].gen # 0 => rings'[i] = rings[i]
    BY <1>3, <1>4
  <2> QED BY <2>1, <2>2, <2>4, <2>5, <2>6, <2>7, <2>8, ReaderPassed DEF ReaderInv
<1> QED BY <1>7, <1>8 DEF ReaderInv

\* The last store of a creation: no attacher has read the generation it ends at.
LEMMA CloseReaders ==
  ASSUME RegionInv, ReaderInv, NEW x \in Handles, CloseGeneration(x)
  PROVE  ReaderInv'
<1>1. PICK g \in Nat : g = Generation
  BY HeaderTyped DEF RegionInv
<1>2. PICK n \in Nat : n = Len(rings)
  BY DEF RegionInv, Typed
<1>3. Generation' = g + 1
  BY <1>1, HeaderClose DEF RegionInv
<1>4. handle \in [Handles -> HandleState] /\ handle[x] \in HandleState /\ handle[x].pc = "close" /\ UNCHANGED lease
  BY DEF CloseGeneration, RegionInv, Typed
<1>5. /\ rings # << >> /\ handle[x].ring = n /\ rings[n].kind = handle[x].kind /\ rings[n].gen = 0 /\ g % 2 = 1
      /\ \A r \in handle[x].held : lease[r] = x
  BY <1>1, <1>2, <1>4 DEF RegionInv, CreatorInv, CreatorOf, Mid
<1>6. n \in 1 .. n /\ \A i \in 1 .. n : rings[i] \in [kind : Kinds, len : Lengths, gen : Nat]
  <2>1. n \in 1 .. Len(rings) /\ n \in 1 .. n
    BY <1>2, <1>5 DEF RegionInv, Typed
  <2>2. \A i \in 1 .. n : rings[i] \in [kind : Kinds, len : Lengths, gen : Nat]
    BY <1>2, ElementOfSeq DEF RegionInv, Typed
  <2> QED BY <2>1, <2>2
<1>7. /\ Len(rings') = n /\ rings'[n].gen = g + 1 /\ rings'[n].kind = rings[n].kind
      /\ \A i \in 1 .. n : i # n => rings'[i] = rings[i]
  <2>1. rings' = [rings EXCEPT ![n] = [rings[n] EXCEPT !.gen = g + 1]]
    BY <1>1, <1>2 DEF CloseGeneration
  <2>2. [rings[n] EXCEPT !.gen = g + 1] \in [kind : Kinds, len : Lengths, gen : Nat]
    BY <1>6
  <2>3. /\ Len(rings') = Len(rings)
        /\ \A i \in 1 .. Len(rings) : rings'[i] = IF i = n THEN [rings[n] EXCEPT !.gen = g + 1] ELSE rings[i]
    BY <1>2, <1>6, <2>1, <2>2, ExceptSeq DEF RegionInv, Typed
  <2>4. rings'[n] = [rings[n] EXCEPT !.gen = g + 1]
    BY <1>2, <1>6, <2>3
  <2> QED BY <1>2, <1>6, <2>3, <2>4
<1>8. (g + 1) % 2 = 0 /\ g + 1 # 0 /\ g + 1 <= g + 1
  <2>1. g % 2 = 1
    BY <1>5
  <2> QED BY <2>1, OddIsOdd
<1>9. /\ handle'[x].pc \in {"zero_late", "attached"} /\ handle'[x].gen = g + 1 /\ handle'[x].kind = handle[x].kind
      /\ handle'[x].ring = n /\ handle'[x].held = handle[x].held
      /\ \A y \in Handles : y # x => handle'[y] = handle[y]
  BY <1>1, <1>4, <1>5 DEF CloseGeneration, HandleState
<1>10. ReaderOf(x)'
  <2>1. CASE handle'[x].pc \notin Readers
    BY <2>1, NoReader
  <2>2. CASE handle'[x].pc = "attached"
    <3>1. /\ handle'[x].ring \in 1 .. Len(rings') /\ rings'[handle'[x].ring].kind = handle'[x].kind
          /\ rings'[handle'[x].ring].gen = handle'[x].gen /\ handle'[x].gen # 0
      BY <1>5, <1>6, <1>7, <1>8, <1>9
    <3>2. handle'[x].gen = Generation' /\ handle'[x].gen <= Generation' /\ handle'[x].gen % 2 = 0
      BY <1>3, <1>8, <1>9
    <3>3. \A r \in handle'[x].held : lease'[r] = x
      BY <1>4, <1>5, <1>9
    <3> QED BY <2>2, <3>1, <3>2, <3>3 DEF ReaderOf, Validated, Attached
  <2> QED BY <1>9, <2>1, <2>2 DEF Readers
<1>11. ASSUME NEW y \in Handles, y # x PROVE ReaderOf(y)'
  <2>1. handle[y].gen \in Nat /\ handle'[y] = handle[y]
    BY <1>4, <1>9, <1>11 DEF HandleState
  <2>2. ~Attached(y)'
    BY <1>1, <1>5, <2>1, OddIsNobodys DEF Attached, Readers
  <2>3. handle[y].pc \in Readers => handle[y].gen # Generation'
    <3>1. handle[y].pc \in Readers => handle[y].gen <= Generation
      BY DEF ReaderInv, ReaderOf, Readers
    <3> QED BY <1>1, <1>3, <2>1, <3>1
  <2>4. Generation \in Nat /\ Generation' \in Nat /\ Generation <= Generation'
    BY <1>1, <1>3
  <2>5. /\ Len(rings) \in Nat /\ Len(rings') \in Nat /\ Len(rings) <= Len(rings')
        /\ \A i \in 1 .. Len(rings) : rings[i].gen # 0 => rings'[i] = rings[i]
    BY <1>2, <1>5, <1>7
  <2> QED BY <2>1, <2>2, <2>3, <2>4, <2>5, ReaderPassed DEF ReaderInv
<1> QED BY <1>10, <1>11 DEF ReaderInv

-----------------------------------------------------------------------------

LEMMA InitialReaders == RegionInit => ReaderInv
BY DEF RegionInit, Unused, ReaderInv, ReaderOf, Validated, Attached

LEMMA InductiveReaders == ASSUME InOrder PROVE RegionInv /\ ReaderInv /\ [RegionNext]_region_vars => ReaderInv'
<1> SUFFICES ASSUME RegionInv, ReaderInv, [RegionNext]_region_vars PROVE ReaderInv'
  OBVIOUS
<1>1. ASSUME NEW x \in Handles, create_region(x) PROVE ReaderInv'
  <2>1. CASE ZeroBuffer(x)
    BY <2>1, StoreReaders, LateReaders DEF ZeroBuffer
  <2> QED BY <1>1, <2>1, TruncateReaders, InvalidateReaders, StoreReaders, CloseReaders DEF create_region
<1>2. ASSUME NEW x \in Handles, open_region(x) PROVE ReaderInv'
  BY <1>2, OpenReaders
<1>3. ASSUME NEW x \in Handles, ClaimRole(x) \/ RecheckRole(x) \/ ForceClaim(x) \/ Drop(x) \/ Die(x)
      PROVE  ReaderInv'
  BY <1>3, ClaimReaders, RecheckRoleReaders, ForceReaders, DropReaders, DieReaders
<1>4. CASE UNCHANGED region_vars
  <2>1. Header' = Header /\ UNCHANGED <<handle, lease, rings>>
    BY <1>4, HeaderSame DEF region_vars, RegionInv
  <2> QED BY <2>1, ReaderKept DEF ReaderInv
<1> QED BY <1>1, <1>2, <1>3, <1>4 DEF RegionNext

\* What is attached is of the ring of the generation, and that is the newest.
LEMMA AttachedIsNewest ==
  ASSUME RegionInv, ReaderInv, NEW x \in Handles, Attached(x)
  PROVE  /\ handle[x].ring = Len(rings) /\ handle[x].gen = Generation
         /\ rings # << >> /\ rings[Len(rings)].gen # 0 /\ rings[Len(rings)].kind = handle[x].kind
<1>1. /\ handle[x].ring \in 1 .. Len(rings) /\ rings[handle[x].ring].kind = handle[x].kind
      /\ rings[handle[x].ring].gen = Generation /\ Generation % 2 = 0 /\ handle[x].gen = Generation
  BY DEF ReaderInv, ReaderOf, Validated, Attached
<1>2. handle[x].ring = Len(rings) /\ Generation # 0
  BY <1>1, OfTheNewest
<1>3. rings # << >>
  BY <1>1, <1>2 DEF RegionInv, Typed
<1> QED BY <1>1, <1>2, <1>3

LEMMA Readings == ASSUME InOrder PROVE RegionSpec => [](RegionInv /\ ReaderInv)
<1>1. RegionInit => RegionInv /\ ReaderInv
  BY RegionInitial, InitialReaders
<1>2. (RegionInv /\ ReaderInv) /\ [RegionNext]_region_vars => (RegionInv /\ ReaderInv)'
  BY Inductive, InductiveReaders
<1> QED BY <1>1, <1>2, PTL DEF RegionSpec

\* AttachedToTheRing: whoever open_region lets in has validated a header that one
\* finished creation wrote, and is in the newest ring until a creation begins,
\* whatever creations overlap it and die.
THEOREM AttachesToTheRing == ASSUME InOrder PROVE RegionSpec => []AttachedToTheRing
<1>1. RegionInv /\ ReaderInv => AttachedToTheRing
  <2> SUFFICES ASSUME RegionInv, ReaderInv PROVE AttachedToTheRing
    OBVIOUS
  <2>1. OpenedIsWhole
    BY DEF OpenedIsWhole, ReaderInv, ReaderOf, RegionInv, Typed
  <2>2. IsOfTheNewestRing
    BY AttachedIsNewest DEF IsOfTheNewestRing
  <2> QED BY <2>1, <2>2 DEF AttachedToTheRing
<1> QED BY <1>1, Readings, PTL

\* LeasesMatchHolders: the lease words and the handles say the same of who has a
\* role, over claim_lease and its rollback, force_claim_lease, the drops of the
\* anchors, and creations over rings in use.
THEOREM LeasesMatch == ASSUME InOrder PROVE RegionSpec => []LeasesMatchHolders
<1>1. RegionInv /\ ReaderInv => LeasesMatchHolders
  BY DEF RegionInv, HolderInv, LeasesMatchHolders, HoldersKeepTheirLease, ReaderInv, ReaderOf, Attached
<1> QED BY <1>1, Readings, PTL

\* LossyIsZeroed: nobody is let into a lossy ring (create_bcast_region,
\* open_bcast_region) before its buffer is free of the rings that were.
THEOREM LossyOpensZeroed == ASSUME InOrder PROVE RegionSpec => []LossyIsZeroed
<1>1. RegionInv /\ ReaderInv => LossyIsZeroed
  <2> SUFFICES ASSUME RegionInv, ReaderInv, NEW x \in Handles, Attached(x), handle[x].kind = "lossy" PROVE zeroed
    BY DEF LossyIsZeroed
  <2> QED BY AttachedIsNewest DEF RegionInv, RingsInv
<1> QED BY <1>1, Readings, PTL
=============================================================================
