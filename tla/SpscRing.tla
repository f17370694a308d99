------------------------------ MODULE SpscRing ------------------------------
(***************************************************************************)
(* The single-producer single-consumer element ring (src/src/spsc.rs) over *)
(* the shared cursor engine (src/src/cursor.rs).                           *)
(*                                                                         *)
(* One step is one access to the memory the two threads share: a load of   *)
(* the other side's cursor, a store of one's own, the write of a slot or   *)
(* the move out of it; what a thread computes on its own fields goes with  *)
(* the access it leads to.  `push`, `try_push`, `claim` and `try_claim`    *)
(* all run HasSpace*, then Write and Publish (or Abandon, for a WriteSlot  *)
(* dropped uncommitted); a blocked `push` is one that repeats HasSpace.    *)
(* `pop`, `try_pop`, `pop_ref` and `try_pop_ref` all run HasItem, then     *)
(* Take and Advance (or Forget, for a guard passed to mem::forget).        *)
(***************************************************************************)
EXTENDS RingArith, TLC

CONSTANTS
  Values,         \* the elements pushed
  MinCapacity,    \* the capacity asked for at construction
  Modulus,        \* 2^w of the cursor word
  BatchDivisor,   \* 8 in the code
  None            \* an uninitialized slot

Capacity == round_capacity(MinCapacity, 1)
MAX_PUBLISH_BATCH == 64
Batch == publish_batch(Capacity, MAX_PUBLISH_BATCH, BatchDivisor)

\* That round_capacity finds a positive capacity is part of the assumption: what its
\* CHOOSE over powers of two finds is evaluated, not proved.
ASSUME SpscAssumption ==
  /\ MinCapacity \in Nat \ {0} /\ Capacity \in Nat \ {0} /\ BatchDivisor \in Nat \ {0}
  /\ Modulus \in Nat /\ Modulus % Capacity = 0 /\ Modulus > Capacity + 1
  /\ None \notin Values

VARIABLES
  buffer,         \* the slots: an element, or None
  write_cursor,   \* shared; the producer's private copy equals it between steps
  read_cursor,    \* shared: the consumer's published progress
  starving,       \* shared: the flag beside read_cursor
  p,              \* the producer handle
  c,              \* the consumer handle
  torn_down       \* has Shared::drop run?

vars == <<buffer, write_cursor, read_cursor, starving, p, c, torn_down>>

Cursor == 0 .. Modulus - 1
Index(cursor) == cursor % Capacity
Succ_unwrapped(cursor) == cursor + 1
Succ(cursor) == wrapping_add(cursor, 1, Modulus)

Init ==
  /\ buffer = [i \in 0 .. Capacity - 1 |-> None]
  /\ write_cursor = 0 /\ read_cursor = 0 /\ starving = 0
  /\ p = [pc |-> "idle", read_cursor_cache |-> 0, raised_starving |-> FALSE]
  /\ c = [pc |-> "idle", read_cursor |-> 0, published |-> 0, write_cursor_cache |-> 0]
  /\ torn_down = FALSE

-----------------------------------------------------------------------------
(* The producer *)

Lacks(cache) == lacks_space(write_cursor, 1, cache, Capacity, Modulus)

\* has_space, when the cached view of the consumer already shows room.
HasSpaceCached ==
  /\ p.pc = "idle" /\ ~Lacks(p.read_cursor_cache)
  /\ p' = [p EXCEPT !.pc = "granted", !.raised_starving = FALSE]
  /\ starving' = IF p.raised_starving THEN 0 ELSE starving
  /\ UNCHANGED <<buffer, write_cursor, read_cursor, c, torn_down>>

\* has_space, when the cursor has to be reloaded: room, or raise the flag.
HasSpaceReload ==
  /\ p.pc = "idle" /\ Lacks(p.read_cursor_cache)
  /\ IF Lacks(read_cursor)
     THEN /\ p' = [p EXCEPT !.read_cursor_cache = read_cursor, !.raised_starving = TRUE]
          /\ starving' = 1
     ELSE /\ p' = [p EXCEPT !.read_cursor_cache = read_cursor, !.pc = "granted"]
          /\ UNCHANGED starving
  /\ UNCHANGED <<buffer, write_cursor, read_cursor, c, torn_down>>

Write(v) ==
  /\ p.pc = "granted"
  /\ buffer' = [buffer EXCEPT ![Index(write_cursor)] = v]
  /\ p' = [p EXCEPT !.pc = "written"]
  /\ UNCHANGED <<write_cursor, read_cursor, starving, c, torn_down>>

Publish ==
  /\ p.pc = "written"
  /\ write_cursor' = Succ(write_cursor)
  /\ p' = [p EXCEPT !.pc = "idle"]
  /\ UNCHANGED <<buffer, read_cursor, starving, c, torn_down>>

\* A claimed WriteSlot dropped uncommitted, before or after its storage was
\* written in place.  MaybeUninit does not drop what was written: the slot is
\* dead storage again.
Abandon ==
  /\ p.pc \in {"granted", "written"}
  /\ p' = [p EXCEPT !.pc = "idle"]
  /\ buffer' = [buffer EXCEPT ![Index(write_cursor)] = None]
  /\ UNCHANGED <<write_cursor, read_cursor, starving, c, torn_down>>

DropProducer ==
  /\ p.pc = "idle"
  /\ p' = [p EXCEPT !.pc = "dropped"]
  /\ UNCHANGED <<buffer, write_cursor, read_cursor, starving, c, torn_down>>

-----------------------------------------------------------------------------
(* The consumer *)

\* has_item: the cache, reloaded at most once.
has_item_cached_only ==
  /\ c.pc = "idle" /\ ~no_item(c.write_cursor_cache, c.read_cursor, Modulus)
  /\ c' = [c EXCEPT !.pc = "holding"]
  /\ UNCHANGED <<buffer, write_cursor, read_cursor, starving, p, torn_down>>
has_item ==
  /\ c.pc = "idle"
  /\ LET cache == IF no_item(c.write_cursor_cache, c.read_cursor, Modulus)
                  THEN write_cursor ELSE c.write_cursor_cache
     IN  c' = [c EXCEPT
                 !.write_cursor_cache = cache,
                 !.pc = IF no_item(cache, c.read_cursor, Modulus) THEN "idle" ELSE "holding"]
  /\ UNCHANGED <<buffer, write_cursor, read_cursor, starving, p, torn_down>>

\* The element leaves its slot: moved out by pop, dropped in place by PopRef
\* (the drop may unwind; the guard advances either way).
Take ==
  /\ c.pc = "holding"
  /\ buffer' = [buffer EXCEPT ![Index(c.read_cursor)] = None]
  /\ c' = [c EXCEPT !.pc = "taken"]
  /\ UNCHANGED <<write_cursor, read_cursor, starving, p, torn_down>>

\* mem::forget on a PopRef: the element is delivered again by the next pop.
Forget ==
  /\ c.pc = "holding"
  /\ c' = [c EXCEPT !.pc = "idle"]
  /\ UNCHANGED <<buffer, write_cursor, read_cursor, starving, p, torn_down>>

\* When does a consumer that has read up to `read` publish?
MustPublish(read, was_full) ==
  \/ was_full
  \/ read = c.write_cursor_cache
  \/ wrapping_sub(read, c.published, Modulus) >= Batch

\* Publish on the shared cursor, and remember it.
FlushTo_unstored(read, pc) ==
  /\ read_cursor' = IF pc = "idle" THEN read_cursor ELSE read
  /\ c' = [c EXCEPT !.read_cursor = read, !.published = read, !.pc = pc]
FlushTo(read, pc) ==
  /\ read_cursor' = read
  /\ c' = [c EXCEPT !.read_cursor = read, !.published = read, !.pc = pc]

advance_one ==
  /\ c.pc = "taken"
  /\ LET was_full == wrapping_sub(c.write_cursor_cache, c.read_cursor, Modulus) > Capacity - 1
         read == Succ(c.read_cursor)
     IN  IF MustPublish(read, was_full) THEN FlushTo(read, "idle")
         ELSE /\ c' = [c EXCEPT !.read_cursor = read, !.pc = "idle"]
              /\ UNCHANGED read_cursor
  /\ UNCHANGED <<buffer, write_cursor, starving, p, torn_down>>

DropConsumer_unflushed ==
  /\ c.pc = "idle"
  /\ c' = [c EXCEPT !.pc = "dropped"]
  /\ UNCHANGED <<buffer, write_cursor, read_cursor, starving, p, torn_down>>
DropConsumer ==
  /\ c.pc = "idle"
  /\ FlushTo(c.read_cursor, "dropped")
  /\ UNCHANGED <<buffer, write_cursor, starving, p, torn_down>>

-----------------------------------------------------------------------------

\* The cursors Shared::drop walks, from `head` to `tail`.
Queued(head, tail) ==
  {wrapping_add(head, i, Modulus) : i \in 0 .. wrapping_sub(tail, head, Modulus) - 1}

TearDown ==
  /\ p.pc = "dropped" /\ c.pc = "dropped" /\ ~torn_down
  /\ torn_down' = TRUE
  /\ buffer' = [i \in DOMAIN buffer |->
                  IF \E s \in Queued(read_cursor, write_cursor) : Index(s) = i
                  THEN None ELSE buffer[i]]
  /\ UNCHANGED <<write_cursor, read_cursor, starving, p, c>>

Terminated == torn_down /\ UNCHANGED vars

ProducerNext ==
  HasSpaceCached \/ HasSpaceReload \/ (\E v \in Values : Write(v)) \/ Publish \/ Abandon
ConsumerNext == has_item \/ Take \/ Forget \/ advance_one

Next == ProducerNext \/ DropProducer \/ ConsumerNext \/ DropConsumer \/ TearDown \/ Terminated

Spec == Init /\ [][Next]_vars

\* A thread inside a call keeps running, a blocked push and a blocked pop keep
\* polling, and an application that takes guards does not forget all of them.
Fairness ==
  /\ WF_vars(HasSpaceCached \/ HasSpaceReload) /\ WF_vars(\E v \in Values : Write(v))
  /\ WF_vars(Publish) /\ WF_vars(has_item) /\ SF_vars(Take) /\ WF_vars(advance_one)

LiveSpec == Spec /\ Fairness

-----------------------------------------------------------------------------
(* Properties *)

\* Every field stays in its domain; cursors stay within the word.
TypeOK ==
  /\ buffer \in [0 .. Capacity - 1 -> Values \union {None}]
  /\ write_cursor \in Cursor /\ read_cursor \in Cursor /\ starving \in {0, 1}
  /\ p \in [pc : {"idle", "granted", "written", "dropped"},
            read_cursor_cache : Cursor, raised_starving : BOOLEAN]
  /\ c \in [pc : {"idle", "holding", "taken", "dropped"},
            read_cursor : Cursor, published : Cursor, write_cursor_cache : Cursor]
  /\ torn_down \in BOOLEAN

\* Each element is dropped exactly once: teardown finds every slot between the
\* published cursors initialized and every other slot empty.
TeardownDropsTheRest ==
  p.pc = "dropped" /\ c.pc = "dropped" /\ ~torn_down =>
    \A i \in DOMAIN buffer :
      (buffer[i] # None) <=> (\E s \in Queued(read_cursor, write_cursor) : Index(s) = i)

\* The ring is a bounded FIFO queue: an element enters at Publish and leaves at
\* Take, in order, once, and no more than Capacity are inside.
Contents ==
  LET first == IF c.pc = "taken" THEN Succ(c.read_cursor) ELSE c.read_cursor
  IN  IF torn_down THEN << >>
      ELSE [i \in 1 .. wrapping_sub(write_cursor, first, Modulus) |->
              buffer[Index(wrapping_add(first, i - 1, Modulus))]]
Abstract == INSTANCE BoundedQueue WITH queue <- Contents
ImplementsQueue == Abstract!Spec

\* A blocked push is granted space, unless a handle goes away: the consumer's
\* deferred publishes never leave the producer waiting for ever.
PushProceeds ==
  (p.pc = "idle") ~> (p.pc \in {"granted", "dropped"} \/ c.pc = "dropped")

\* A published element is consumed, unless the consumer goes away.
PublishedIsConsumed ==
  \A i \in Cursor :
    (c.read_cursor = i /\ write_cursor # i) ~> (c.read_cursor # i \/ c.pc = "dropped")
=============================================================================
