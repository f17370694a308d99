----------------------------- MODULE RingArith -----------------------------
(***************************************************************************)
(* The cursor arithmetic every ring of the crate is built from             *)
(* (src/src/cursor.rs).  A cursor is a machine word, so a difference of    *)
(* two cursors is taken modulo the word size M.  The u64 gating rings      *)
(* never reach their word size and use plain integers instead.             *)
(***************************************************************************)
EXTENDS Integers

Clamp(x, lo, hi) == IF x < lo THEN lo ELSE IF x > hi THEN hi ELSE x

\* The next power of two at or above n, raised to the ring's floor.
MaxExponent == 30     \* the largest capacity considered is 2^30
round_capacity(min_capacity, floor) ==
  LET p == CHOOSE p \in min_capacity .. 2 * min_capacity - 1 : \E k \in 0 .. MaxExponent : p = 2^k
  IN  IF p < floor THEN floor ELSE p

\* How much consumed progress a consumer may keep unpublished.  The code
\* divides by 8; a model with a small ring divides by less, so that the
\* deferral of a 16-slot ring happens in a 4-slot one.
publish_batch(capacity, max_batch, divisor) ==
  Clamp(capacity \div divisor, 1, max_batch)

wrapping_add(a, b, M) == (a + b) % M
wrapping_sub(a, b, M) == (a - b) % M

\* Would writing `needed` more units past `write` overrun the reader?
lacks_space_signed(write, needed, read, capacity, M) ==
  write + needed - read > capacity
lacks_space(write, needed, read, capacity, M) ==
  wrapping_sub(wrapping_add(write, needed, M), read, M) > capacity

no_item(write, read, M) == wrapping_sub(write, read, M) = 0
=============================================================================
