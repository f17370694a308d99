------------------------------- MODULE CvWait -------------------------------
(***************************************************************************)
(* The blocking wait strategy (src/src/wait.rs, CvWait) under the loops    *)
(* that use it (wait_for_item and publish of src/src/cursor.rs; a producer *)
(* waiting for space and a consumer's flush are the same two loops).       *)
(*                                                                         *)
(* One thread waits for the other's progress word to move and parks on a   *)
(* condition variable; the other publishes and notifies, and skips the     *)
(* mutex unless it sees the waiting flag.  Each thread's plain stores      *)
(* reach memory later than they are issued; its SeqCst fence and its       *)
(* release of the mutex wait until they have.                              *)
(***************************************************************************)
EXTENDS Naturals

CONSTANT MaxProgress      \* bound on the notifier's publishes

ASSUME CvWaitAssumption == MaxProgress \in Nat

Threads == {"waiter", "notifier"}

VARIABLES
  progress,       \* the published cursor, in memory
  stored,         \* the notifier's last store to it
  waiting,        \* the flag, in memory
  flag,           \* the waiter's last store to it
  mutex,          \* who holds the mutex, or "free"
  wpc, npc,       \* where the two threads are
  seen            \* the progress the waiter has consumed

wait_vars == <<progress, stored, waiting, flag, mutex, wpc, npc, seen>>

WaitInit ==
  /\ progress = 0 /\ stored = 0 /\ waiting = FALSE /\ flag = FALSE
  /\ mutex = "free" /\ wpc = "check" /\ npc = "idle" /\ seen = 0

\* A store reaches memory.
DrainFlag ==
  /\ waiting # flag /\ waiting' = flag
  /\ UNCHANGED <<progress, stored, flag, mutex, wpc, npc, seen>>
DrainProgress ==
  /\ progress # stored /\ progress' = stored
  /\ UNCHANGED <<stored, waiting, flag, mutex, wpc, npc, seen>>

-----------------------------------------------------------------------------
(* The waiter *)

\* has_item: consume what is there, or go and wait.
HasItem ==
  /\ wpc = "check"
  /\ IF progress # seen THEN seen' = progress /\ UNCHANGED wpc
     ELSE wpc' = "lock" /\ UNCHANGED seen
  /\ UNCHANGED <<progress, stored, waiting, flag, mutex, npc>>

\* wait: take the mutex and raise the flag.
Lock ==
  /\ wpc = "lock" /\ mutex = "free"
  /\ mutex' = "waiter" /\ flag' = TRUE /\ wpc' = "fence"
  /\ UNCHANGED <<progress, stored, waiting, npc, seen>>

WaiterFence_missing ==
  /\ wpc = "fence" /\ wpc' = "pred"
  /\ UNCHANGED <<progress, stored, waiting, flag, mutex, npc, seen>>
WaiterFence ==
  /\ wpc = "fence" /\ waiting = flag
  /\ wpc' = "pred"
  /\ UNCHANGED <<progress, stored, waiting, flag, mutex, npc, seen>>

\* wait_timeout_while's check of the predicate, with the mutex held; it gives
\* up without parking when its time is already over.
Pred ==
  /\ wpc = "pred"
  /\ wpc' \in IF progress # seen THEN {"unlock"} ELSE {"park", "unlock"}
  /\ UNCHANGED <<progress, stored, waiting, flag, mutex, npc, seen>>

\* The wait on the condition variable releases the mutex and parks, at once.
Park ==
  /\ wpc = "park"
  /\ mutex' = "free" /\ wpc' = "parked"
  /\ UNCHANGED <<progress, stored, waiting, flag, npc, seen>>

\* The timed re-check ran out, or the wake-up was spurious.
TimesOut ==
  /\ wpc = "parked" /\ wpc' = "woken"
  /\ UNCHANGED <<progress, stored, waiting, flag, mutex, npc, seen>>

\* A woken waiter takes the mutex again and re-checks.
Relock ==
  /\ wpc = "woken" /\ mutex = "free"
  /\ mutex' = "waiter" /\ wpc' = "pred"
  /\ UNCHANGED <<progress, stored, waiting, flag, npc, seen>>

\* wait returns: its guard goes first (it is bound to `_`), then the flag.
Unlock ==
  /\ wpc = "unlock" /\ waiting = flag
  /\ mutex' = "free" /\ wpc' = "clear"
  /\ UNCHANGED <<progress, stored, waiting, flag, npc, seen>>
Clear ==
  /\ wpc = "clear"
  /\ flag' = FALSE /\ wpc' = "check"
  /\ UNCHANGED <<progress, stored, waiting, mutex, npc, seen>>

-----------------------------------------------------------------------------
(* The notifier *)

PublishProgress ==
  /\ npc = "idle" /\ stored < MaxProgress
  /\ stored' = stored + 1 /\ npc' = "fence"
  /\ UNCHANGED <<progress, waiting, flag, mutex, wpc, seen>>

NotifierFence ==
  /\ npc = "fence" /\ progress = stored
  /\ npc' = "look"
  /\ UNCHANGED <<progress, stored, waiting, flag, mutex, wpc, seen>>

\* notify's look at the flag.
Look ==
  /\ npc = "look"
  /\ npc' = IF waiting THEN "lock" ELSE "idle"
  /\ UNCHANGED <<progress, stored, waiting, flag, mutex, wpc, seen>>

\* Mutant: signal without the mutex.
NotifierLock_none ==
  /\ npc = "lock" /\ npc' = "signal"
  /\ UNCHANGED <<progress, stored, waiting, flag, mutex, wpc, seen>>
NotifierLock ==
  /\ npc = "lock" /\ mutex = "free"
  /\ mutex' = "notifier" /\ npc' = "signal"
  /\ UNCHANGED <<progress, stored, waiting, flag, wpc, seen>>

\* notify_all; the guard is dropped.
NotifyAll ==
  /\ npc = "signal"
  /\ wpc' = IF wpc = "parked" THEN "woken" ELSE wpc
  /\ mutex' = "free" /\ npc' = "idle"
  /\ UNCHANGED <<progress, stored, waiting, flag, seen>>

-----------------------------------------------------------------------------

WaiterNext ==
  HasItem \/ Lock \/ WaiterFence \/ Pred \/ Park \/ Relock \/ Unlock \/ Clear
NotifierNext == PublishProgress \/ NotifierFence \/ Look \/ NotifierLock \/ NotifyAll

WaitNext == DrainFlag \/ DrainProgress \/ WaiterNext \/ TimesOut \/ NotifierNext

WaitSpec == WaitInit /\ [][WaitNext]_wait_vars

\* Stores reach memory and both threads run; nothing says that the timer runs
\* out or that the notifier publishes again.
WaitFairness ==
  /\ WF_wait_vars(DrainFlag) /\ WF_wait_vars(DrainProgress)
  /\ WF_wait_vars(HasItem \/ WaiterFence \/ Pred \/ Park \/ Unlock \/ Clear)
  /\ SF_wait_vars(Lock) /\ SF_wait_vars(Relock)
  /\ WF_wait_vars(NotifierFence \/ Look \/ NotifyAll) /\ SF_wait_vars(NotifierLock)

WaitLiveSpec == WaitSpec /\ WaitFairness

-----------------------------------------------------------------------------
(* Properties *)

\* Every variable stays in its domain.
WaitTypeOK ==
  /\ progress \in 0 .. MaxProgress /\ stored \in 0 .. MaxProgress /\ seen \in 0 .. MaxProgress
  /\ waiting \in BOOLEAN /\ flag \in BOOLEAN /\ mutex \in Threads \union {"free"}
  /\ wpc \in {"check", "lock", "fence", "pred", "park", "parked", "woken", "unlock", "clear"}
  /\ npc \in {"idle", "fence", "look", "lock", "signal"}

\* A notification is not lost: if the waiter is parked with progress to see,
\* or is about to park on a stale check, a notify that will signal it is under
\* way (the comments of wait and notify; no timeout is needed for this).
NoLostWakeup ==
  wpc \in {"park", "parked"} /\ stored # seen =>
    npc \in {"fence", "lock", "signal"} \/ (npc = "look" /\ waiting)

\* A blocked pop returns once the other side has published, without any help
\* from the timed re-check (the contract of WaitStrategy::notify).
PublishedIsSeen == \A n \in 1 .. MaxProgress : (stored >= n) ~> (seen >= n)
=============================================================================
