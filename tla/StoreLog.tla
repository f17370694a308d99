------------------------------ MODULE StoreLog ------------------------------
(***************************************************************************)
(* Weakly ordered memory with one writing thread, as the lossy rings use   *)
(* it: the producer stores, a consumer only loads.                         *)
(*                                                                         *)
(* `log` holds the stores in program order, each with the last store that  *)
(* reading it makes known (`rel`: itself for a Release store, the last one *)
(* before the producer's Release fence for a Relaxed one).  A load returns *)
(* any store to its location but one that a store the consumer knows of    *)
(* has overwritten; an Acquire load adds what it read to the consumer's    *)
(* `view`, a Relaxed one to `pending`, which an Acquire fence adds to the  *)
(* view.                                                                   *)
(***************************************************************************)
EXTENDS Integers, Sequences

VARIABLES
  log, fenced,    \* the stores, and how many of them precede the last fence
  view, pending   \* what the consumer knows, and will know after a fence

Relaxed(loc, val) == [loc |-> loc, val |-> val, rel |-> fenced]
Release(loc, val) == [loc |-> loc, val |-> val, rel |-> Len(log) + 1]

Now == Len(log)
IsStore(t, loc) == t = 0 \/ log[t].loc = loc    \* 0 stands for the initial value
Visible(loc) ==
  {t \in 0 .. Now : IsStore(t, loc) /\ \A u \in t + 1 .. view : log[u].loc # loc}
Value(t) == IF t = 0 THEN 0 ELSE log[t].val
With(known, t) ==
  IF t = 0 \/ log[t].rel <= known THEN known ELSE log[t].rel
Fenced == IF pending > view THEN pending ELSE view

\* The value the writing side finds at a location.
Newest(loc) ==
  LET t == CHOOSE t \in 0 .. Now : IsStore(t, loc) /\ \A u \in t + 1 .. Now : log[u].loc # loc
  IN  Value(t)
=============================================================================
