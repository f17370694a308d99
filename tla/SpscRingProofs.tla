--------------------------- MODULE SpscRingProofs ---------------------------
(***************************************************************************)
(* SpscRing is a bounded queue for every capacity and every cursor width;  *)
(* the CvWait its two sides may block in (last section) loses no wake-up.  *)
(*                                                                         *)
(* The code compares wrapped cursors.  The proof gives every cursor the    *)
(* unbounded count it is the remainder of: the counts are in order, at     *)
(* most a ring apart, and every wrapped difference is then a difference of *)
(* counts (RingArithProofs).                                               *)
(***************************************************************************)
EXTENDS SpscRing, CvWait, RingArithProofs, SequenceTheorems

\* The count of the oldest element the consumer has not taken.
First(R) == IF c.pc = "taken" THEN R + 1 ELSE R

\* Q, P, R, K and W are the counts behind the producer's cache of the consumer,
\* the consumer's published cursor, its own, its cache of the producer, and the
\* write cursor.
CursorsAt(Q, P, R, K, W) ==
  /\ Q <= P /\ P <= R /\ R <= K /\ K <= W /\ W <= Q + Capacity
  /\ p.read_cursor_cache = Q % Modulus
  /\ read_cursor = P % Modulus /\ c.published = P % Modulus
  /\ c.read_cursor = R % Modulus /\ c.write_cursor_cache = K % Modulus
  /\ write_cursor = W % Modulus
  /\ p.pc \in {"granted", "written"} => W < Q + Capacity
  /\ c.pc \in {"holding", "taken"} => R < K
  /\ c.pc = "dropped" => P = R
  /\ torn_down => p.pc = "dropped" /\ c.pc = "dropped"

\* The slots of the elements not taken yet are full, and no others except the
\* one being written.
SlotsAt(R, W) ==
  /\ ~torn_down => \A i \in Nat : First(R) <= i /\ i < W => buffer[i % Capacity] # None
  /\ p.pc = "written" => buffer[W % Capacity] # None
  /\ \A s \in 0 .. Capacity - 1 :
       buffer[s] # None =>
         \/ ~torn_down /\ \E i \in Nat : First(R) <= i /\ i < W /\ s = i % Capacity
         \/ p.pc = "written" /\ s = W % Capacity

At(Q, P, R, K, W) == CursorsAt(Q, P, R, K, W) /\ SlotsAt(R, W)

\* Two buffers hold the same elements at the counts from F up to W.
Agree(b, d, F, W) == \A i \in Nat : F <= i /\ i < W => b[i % Capacity] = d[i % Capacity]

\* The inductive invariant.
IInv == TypeOK /\ \E Q, P, R, K, W \in Nat : At(Q, P, R, K, W)

-----------------------------------------------------------------------------
(* Counts and cursors *)

\* What the code's sizes give the arithmetic below.
LEMMA Sizes ==
  ASSUME SpscAssumption
  PROVE  /\ Capacity \in Nat \ {0} /\ Modulus \in Nat \ {0}
         /\ Modulus % Capacity = 0 /\ Modulus > Capacity + 1
  BY DEF SpscAssumption

\* The cursor of a count: its slot and its successor are those of the count.
LEMMA CursorOfCount ==
  ASSUME SpscAssumption, NEW n \in Nat
  PROVE  /\ n % Modulus \in Cursor
         /\ Index(n % Modulus) = n % Capacity
         /\ n % Capacity \in 0 .. Capacity - 1
         /\ Succ(n % Modulus) = (n + 1) % Modulus
<1>1. n \in Int /\ 1 \in Nat
  OBVIOUS
<1>2. n % Modulus \in Cursor /\ n % Capacity \in 0 .. Capacity - 1
  BY <1>1, Sizes, ModInterval DEF Cursor
<1>3. Index(n % Modulus) = n % Capacity
  BY Sizes, ModOfMod DEF Index
<1>4. Succ(n % Modulus) = (n + 1) % Modulus
  BY <1>1, Sizes, WrappedAdd DEF Succ
<1> QED BY <1>2, <1>3, <1>4

\* Counts at most a ring and one apart have the distance of their cursors.
LEMMA Distance ==
  ASSUME SpscAssumption, NEW W \in Nat, NEW X \in Nat, X <= W, W <= X + Capacity + 1
  PROVE  wrapping_sub(W % Modulus, X % Modulus, Modulus) = W - X
<1>1. Modulus \in Nat \ {0}
  BY Sizes
<1>2. W - X < Modulus
  BY Sizes
<1> QED BY <1>1, <1>2, WrappedSub

\* lacks_space fails exactly when the ring is full as the cursor given shows it.
LEMMA LacksOnCounts ==
  ASSUME SpscAssumption, NEW W \in Nat, NEW X \in Nat, X <= W, W <= X + Capacity,
         write_cursor = W % Modulus
  PROVE  Lacks(X % Modulus) <=> W = X + Capacity
<1>1. wrapping_add(W % Modulus, 1, Modulus) = (W + 1) % Modulus
  BY Sizes, WrappedAdd
<1>2. W + 1 \in Nat /\ X <= W + 1 /\ W + 1 <= X + Capacity + 1
  BY Sizes
<1>3. wrapping_sub((W + 1) % Modulus, X % Modulus, Modulus) = (W + 1) - X
  BY <1>2, Distance
<1>4. Lacks(X % Modulus) <=> (W + 1) - X > Capacity
  BY <1>1, <1>3 DEF Lacks, lacks_space
<1> QED BY <1>4, Sizes

\* no_item finds nothing exactly when the two counts are the same.
LEMMA NoItemOnCounts ==
  ASSUME SpscAssumption, NEW W \in Nat, NEW X \in Nat, X <= W, W <= X + Capacity
  PROVE  no_item(W % Modulus, X % Modulus, Modulus) <=> W = X
<1>1. W <= X + Capacity + 1
  BY Sizes
<1>2. wrapping_sub(W % Modulus, X % Modulus, Modulus) = W - X
  BY <1>1, Distance
<1> QED BY <1>2 DEF no_item

\* Counts less than a ring apart have slots of their own.
LEMMA OtherSlot ==
  ASSUME SpscAssumption, NEW i \in Nat, NEW j \in Nat, i # j, i - j < Capacity, j - i < Capacity
  PROVE  i % Capacity # j % Capacity
<1>1. CASE i < j
  BY <1>1, Sizes, ModDistinct
<1>2. CASE j < i
  BY <1>2, Sizes, ModDistinct
<1> QED BY <1>1, <1>2

-----------------------------------------------------------------------------
(* Type correctness, on its own *)

\* Every step keeps every variable in its domain.
LEMMA TypeStep ==
  ASSUME SpscAssumption, TypeOK, [Next]_vars
  PROVE  TypeOK'
<1>1. \A n \in Cursor : Succ(n) \in Cursor /\ Index(n) \in 0 .. Capacity - 1
  <2> TAKE n \in Cursor
  <2>1. n \in Nat /\ n + 1 \in Int /\ n \in Int
    BY Sizes DEF Cursor
  <2>2. (n + 1) % Modulus \in 0 .. Modulus - 1 /\ n % Capacity \in 0 .. Capacity - 1
    BY <2>1, Sizes, ModInterval
  <2> QED BY <2>2 DEF Succ, wrapping_add, Index, Cursor
<1> USE DEF TypeOK
<1>2. CASE HasSpaceCached
  BY <1>2 DEF HasSpaceCached
<1>3. CASE HasSpaceReload
  BY <1>3 DEF HasSpaceReload
<1>4. ASSUME NEW v \in Values, Write(v)
      PROVE  TypeOK'
  BY <1>4 DEF Write
<1>5. CASE Publish
  BY <1>1, <1>5 DEF Publish
<1>6. CASE Abandon
  BY <1>6 DEF Abandon
<1>7. CASE DropProducer
  BY <1>7 DEF DropProducer
<1>8. CASE has_item
  BY <1>8 DEF has_item
<1>9. CASE Take
  BY <1>9 DEF Take
<1>10. CASE Forget
  BY <1>10 DEF Forget
<1>11. CASE advance_one
  <2>1. Succ(c.read_cursor) \in Cursor
    BY <1>1
  <2>2. CASE FlushTo(Succ(c.read_cursor), "idle")
    BY <1>11, <2>1, <2>2 DEF advance_one, FlushTo
  <2>3. CASE c' = [c EXCEPT !.read_cursor = Succ(c.read_cursor), !.pc = "idle"] /\ UNCHANGED read_cursor
    BY <1>11, <2>1, <2>3 DEF advance_one
  <2> QED BY <1>11, <2>2, <2>3 DEF advance_one
<1>12. CASE DropConsumer
  BY <1>12 DEF DropConsumer, FlushTo
<1>13. CASE TearDown
  BY <1>13 DEF TearDown
<1>14. CASE Terminated \/ UNCHANGED vars
  BY <1>14 DEF Terminated, vars
<1> QED
  BY <1>2, <1>3, <1>4, <1>5, <1>6, <1>7, <1>8, <1>9, <1>10, <1>11, <1>12, <1>13, <1>14
  DEF Next, ProducerNext, ConsumerNext

-----------------------------------------------------------------------------
(* What each step does to the counts                                         *)

\* A step that writes no slot and takes nothing keeps the slots.
LEMMA SlotsFrame ==
  ASSUME NEW R \in Nat, NEW W \in Nat, SlotsAt(R, W), UNCHANGED <<buffer, torn_down>>,
         (p'.pc = "written") <=> (p.pc = "written"), First(R)' = First(R)
  PROVE  SlotsAt(R, W)'
  BY DEF SlotsAt

\* has_space moves the producer's cache up at most to what is published.
LEMMA HasSpaceStep ==
  ASSUME SpscAssumption, TypeOK, NEW Q \in Nat, NEW P \in Nat, NEW R \in Nat, NEW K \in Nat, NEW W \in Nat,
         At(Q, P, R, K, W), HasSpaceCached \/ HasSpaceReload
  PROVE  \E Q2 \in Nat : At(Q2, P, R, K, W)'
<1> USE DEF At
<1>1. SlotsAt(R, W)'
  <2>1. UNCHANGED <<buffer, torn_down, c>> /\ p.pc # "written" /\ p'.pc # "written"
    BY DEF HasSpaceCached, HasSpaceReload, TypeOK
  <2>2. First(R)' = First(R)
    BY <2>1 DEF First
  <2> QED BY <2>1, <2>2, SlotsFrame
<1>2. CASE HasSpaceCached
  <2>1. W # Q + Capacity
    BY <1>2, Sizes, LacksOnCounts DEF HasSpaceCached, CursorsAt
  <2>2. /\ p' = [p EXCEPT !.pc = "granted", !.raised_starving = FALSE]
        /\ p'.read_cursor_cache = p.read_cursor_cache /\ ~torn_down
        /\ UNCHANGED <<write_cursor, read_cursor, c, torn_down>>
    BY <1>2 DEF HasSpaceCached, CursorsAt, TypeOK
  <2>3. W < Q + Capacity
    BY <2>1, Sizes DEF CursorsAt
  <2>4. CursorsAt(Q, P, R, K, W)'
    BY <2>2, <2>3 DEF CursorsAt
  <2> QED BY <1>1, <2>4
<1>3. CASE HasSpaceReload
  <2>1. P <= W /\ W <= P + Capacity
    BY Sizes DEF CursorsAt
  <2>2. Lacks(read_cursor) <=> W = P + Capacity
    BY <2>1, LacksOnCounts DEF CursorsAt
  <2>3. /\ p'.read_cursor_cache = read_cursor /\ ~torn_down
        /\ p'.pc \in {"idle", "granted"} /\ (p'.pc = "granted" => ~Lacks(read_cursor))
        /\ UNCHANGED <<write_cursor, read_cursor, c, torn_down>>
    BY <1>3 DEF HasSpaceReload, CursorsAt, TypeOK
  <2>4. p'.pc \in {"granted", "written"} => W < P + Capacity
    BY <2>1, <2>2, <2>3, Sizes
  <2>5. CursorsAt(P, P, R, K, W)'
    BY <2>1, <2>3, <2>4 DEF CursorsAt
  <2> QED BY <1>1, <2>5
<1> QED BY <1>2, <1>3

\* Writing the slot under the write cursor, or abandoning it, touches no element
\* that is queued.
LEMMA WriteStep ==
  ASSUME SpscAssumption, TypeOK, NEW Q \in Nat, NEW P \in Nat, NEW R \in Nat, NEW K \in Nat, NEW W \in Nat,
         At(Q, P, R, K, W), (\E v \in Values : Write(v)) \/ Abandon
  PROVE  /\ At(Q, P, R, K, W)'
         /\ Agree(buffer', buffer, First(R), W)
<1> USE DEF At
<1>1. PICK v \in Values \union {None} :
        /\ p.pc \in {"granted", "written"}
        /\ buffer' = [buffer EXCEPT ![W % Capacity] = v]
        /\ p' = [p EXCEPT !.pc = IF v = None THEN "idle" ELSE "written"]
        /\ UNCHANGED <<write_cursor, read_cursor, starving, c, torn_down>>
  BY CursorOfCount DEF Write, Abandon, CursorsAt, SpscAssumption
<1>2. CursorsAt(Q, P, R, K, W)'
  BY <1>1 DEF CursorsAt, TypeOK
<1>3. First(R) \in Nat /\ First(R)' = First(R) /\ First(R) >= R /\ W < R + Capacity
  BY <1>1, Sizes DEF First, CursorsAt
<1>4. \A i \in Nat : First(R) <= i /\ i < W => i % Capacity # W % Capacity
  BY <1>3, Sizes, OtherSlot
<1>5. \A i \in Nat : i % Capacity \in DOMAIN buffer
  BY CursorOfCount DEF TypeOK
<1>6. \A i \in Nat : First(R) <= i /\ i < W => buffer'[i % Capacity] = buffer[i % Capacity]
  BY <1>1, <1>4, <1>5
<1>7. buffer'[W % Capacity] = v
  BY <1>1, <1>5
<1>8. p'.pc = IF v = None THEN "idle" ELSE "written"
  BY <1>1 DEF TypeOK
<1>9. \A s \in 0 .. Capacity - 1 : s # W % Capacity => buffer'[s] = buffer[s]
  BY <1>1 DEF TypeOK
<1>10. SlotsAt(R, W)'
  BY <1>1, <1>3, <1>6, <1>7, <1>8, <1>9 DEF SlotsAt
<1> QED BY <1>2, <1>6, <1>10 DEF Agree

\* Publish adds one element.
LEMMA PublishStep ==
  ASSUME SpscAssumption, TypeOK, NEW Q \in Nat, NEW P \in Nat, NEW R \in Nat, NEW K \in Nat, NEW W \in Nat,
         At(Q, P, R, K, W), Publish
  PROVE  At(Q, P, R, K, W + 1)'
<1> USE DEF At
<1>1. write_cursor' = (W + 1) % Modulus
  BY CursorOfCount DEF Publish, CursorsAt
<1>2. CursorsAt(Q, P, R, K, W + 1)'
  <2>1. /\ p'.pc = "idle" /\ p'.read_cursor_cache = p.read_cursor_cache /\ p.pc = "written"
        /\ UNCHANGED <<c, read_cursor, torn_down>>
    BY DEF Publish, TypeOK
  <2>2. K <= W + 1 /\ W + 1 <= Q + Capacity
    BY <2>1, Sizes DEF CursorsAt
  <2> QED BY <1>1, <2>1, <2>2 DEF CursorsAt
<1>3. First(R)' = First(R) /\ First(R) \in Nat /\ First(R) <= W /\ p'.pc = "idle"
  <2>1. p'.pc = "idle" /\ UNCHANGED c
    BY DEF Publish, TypeOK
  <2>2. R <= W /\ (c.pc = "taken" => R + 1 <= W)
    BY DEF CursorsAt
  <2> QED BY <2>1, <2>2 DEF First
<1>4. ~torn_down /\ UNCHANGED <<torn_down, buffer>> /\ p.pc = "written"
  BY DEF Publish, CursorsAt
<1>5. \A i \in Nat : i < W + 1 <=> i < W \/ i = W
  OBVIOUS
<1>6. SlotsAt(R, W + 1)'
  BY <1>3, <1>4, <1>5 DEF SlotsAt
<1> QED BY <1>2, <1>6

\* has_item moves the consumer's cache up at most to the write cursor.
LEMMA has_itemStep ==
  ASSUME SpscAssumption, TypeOK, NEW Q \in Nat, NEW P \in Nat, NEW R \in Nat, NEW K \in Nat, NEW W \in Nat,
         At(Q, P, R, K, W), has_item
  PROVE  \E K2 \in Nat : At(Q, P, R, K2, W)'
<1> USE DEF At
<1>1. SlotsAt(R, W)'
  <2>1. UNCHANGED <<buffer, torn_down, p>> /\ c.pc # "taken" /\ c'.pc # "taken"
    BY DEF has_item, TypeOK
  <2> QED BY <2>1, SlotsFrame DEF First
<1>2. no_item(c.write_cursor_cache, c.read_cursor, Modulus) <=> K = R
  <2>1. R <= K /\ K <= R + Capacity
    BY Sizes DEF CursorsAt
  <2>2. c.write_cursor_cache = K % Modulus /\ c.read_cursor = R % Modulus
    BY DEF CursorsAt
  <2>3. no_item(K % Modulus, R % Modulus, Modulus) <=> K = R
    BY <2>1, NoItemOnCounts
  <2> QED BY <2>2, <2>3
<1>3. no_item(write_cursor, c.read_cursor, Modulus) <=> W = R
  <2>1. R <= W /\ W <= R + Capacity
    BY Sizes DEF CursorsAt
  <2> QED BY <2>1, NoItemOnCounts DEF CursorsAt
<1>4. CASE K = R
  <2>1. CursorsAt(Q, P, R, W, W)'
    BY <1>2, <1>3, <1>4 DEF has_item, CursorsAt, TypeOK
  <2> QED BY <1>1, <2>1
<1>5. CASE K # R
  <2>1. CursorsAt(Q, P, R, K, W)'
    BY <1>2, <1>5 DEF has_item, CursorsAt, TypeOK
  <2> QED BY <1>1, <2>1
<1> QED BY <1>4, <1>5

\* Take empties the slot of the oldest element and of no other.
LEMMA TakeStep ==
  ASSUME SpscAssumption, TypeOK, NEW Q \in Nat, NEW P \in Nat, NEW R \in Nat, NEW K \in Nat, NEW W \in Nat,
         At(Q, P, R, K, W), Take
  PROVE  /\ At(Q, P, R, K, W)'
         /\ Agree(buffer', buffer, R + 1, W)
<1> USE DEF At
<1>1. buffer' = [buffer EXCEPT ![R % Capacity] = None]
  BY CursorOfCount DEF Take, CursorsAt
<1>2. CursorsAt(Q, P, R, K, W)'
  BY DEF Take, CursorsAt, TypeOK
<1>3. First(R) = R /\ First(R)' = R + 1 /\ R < W /\ W <= R + Capacity /\ UNCHANGED <<p, torn_down>>
  <2>1. c.pc = "holding" /\ c'.pc = "taken" /\ UNCHANGED <<p, torn_down>>
    BY DEF Take, TypeOK
  <2>2. R < W /\ W <= R + Capacity
    BY <2>1, Sizes DEF CursorsAt
  <2> QED BY <2>1, <2>2 DEF First
<1>4. \A i \in Nat : R + 1 <= i /\ i < W => i % Capacity # R % Capacity
  <2>1. \A i \in Nat : R + 1 <= i /\ i < W => i # R /\ i - R < Capacity /\ R - i < Capacity
    BY <1>3, Sizes
  <2> QED BY <2>1, OtherSlot
<1>5. \A i \in Nat : i % Capacity \in DOMAIN buffer
  BY CursorOfCount DEF TypeOK
<1>6. \A i \in Nat : R + 1 <= i /\ i < W => buffer'[i % Capacity] = buffer[i % Capacity]
  BY <1>1, <1>4, <1>5
<1>7. p.pc = "written" => buffer'[W % Capacity] = buffer[W % Capacity]
  <2>1. p.pc = "written" => W < R + Capacity
    BY Sizes DEF CursorsAt
  <2>2. p.pc = "written" => W % Capacity # R % Capacity
    BY <1>3, <2>1, Sizes, OtherSlot
  <2> QED BY <1>1, <1>5, <2>2
<1>8. buffer'[R % Capacity] = None
  BY <1>1, <1>5
<1>9. \A s \in 0 .. Capacity - 1 : s # R % Capacity => buffer'[s] = buffer[s]
  BY <1>1 DEF TypeOK
<1>10. \A i \in Nat : R <= i /\ i # R => R + 1 <= i
  OBVIOUS
<1>11. \A i \in Nat : R + 1 <= i => R <= i
  OBVIOUS
<1>12. SlotsAt(R, W)'
  <2>1. ~torn_down => \A i \in Nat : R + 1 <= i /\ i < W => buffer'[i % Capacity] # None
    BY <1>3, <1>6, <1>11 DEF SlotsAt
  <2>2. p'.pc = "written" => buffer'[W % Capacity] # None
    BY <1>3, <1>7 DEF SlotsAt
  <2>3. ASSUME NEW s \in 0 .. Capacity - 1, buffer'[s] # None
        PROVE  \/ ~torn_down /\ \E i \in Nat : R + 1 <= i /\ i < W /\ s = i % Capacity
               \/ p.pc = "written" /\ s = W % Capacity
    <3>1. s # R % Capacity /\ buffer[s] # None
      BY <1>8, <1>9, <2>3
    <3>2. \/ ~torn_down /\ \E i \in Nat : R <= i /\ i < W /\ s = i % Capacity
          \/ p.pc = "written" /\ s = W % Capacity
      BY <1>3, <3>1 DEF SlotsAt
    <3> QED BY <1>10, <3>1, <3>2
  <2> QED BY <1>3, <2>1, <2>2, <2>3 DEF SlotsAt
<1> QED BY <1>2, <1>6, <1>12 DEF Agree

\* A forgotten guard and a producer that leaves change no cursor.
LEMMA ForgetStep ==
  ASSUME SpscAssumption, TypeOK, NEW Q \in Nat, NEW P \in Nat, NEW R \in Nat, NEW K \in Nat, NEW W \in Nat,
         At(Q, P, R, K, W), Forget \/ DropProducer
  PROVE  At(Q, P, R, K, W)'
<1>1. SlotsAt(R, W)'
  <2>1. /\ UNCHANGED <<buffer, torn_down>> /\ (p'.pc = "written" <=> p.pc = "written")
        /\ (c'.pc = "taken" <=> c.pc = "taken")
    BY DEF Forget, DropProducer, TypeOK
  <2> QED BY <2>1, SlotsFrame DEF At, First
<1>2. CursorsAt(Q, P, R, K, W)'
  <2>1. CASE Forget
    <3>1. /\ c'.pc = "idle" /\ c'.read_cursor = c.read_cursor /\ c'.published = c.published
          /\ c'.write_cursor_cache = c.write_cursor_cache /\ c.pc # "dropped"
          /\ UNCHANGED <<p, read_cursor, write_cursor, torn_down>>
      BY <2>1 DEF Forget, TypeOK
    <3> QED BY <3>1 DEF At, CursorsAt
  <2>2. CASE DropProducer
    <3>1. /\ p'.pc = "dropped" /\ p'.read_cursor_cache = p.read_cursor_cache /\ p.pc # "dropped"
          /\ UNCHANGED <<c, read_cursor, write_cursor, torn_down>>
      BY <2>2 DEF DropProducer, TypeOK
    <3> QED BY <3>1 DEF At, CursorsAt
  <2> QED BY <2>1, <2>2
<1> QED BY <1>1, <1>2 DEF At

\* advance_one moves the consumer past the element taken, and its published
\* cursor there or not at all.
LEMMA advance_oneStep ==
  ASSUME SpscAssumption, TypeOK, NEW Q \in Nat, NEW P \in Nat, NEW R \in Nat, NEW K \in Nat, NEW W \in Nat,
         At(Q, P, R, K, W), advance_one
  PROVE  \E P2 \in Nat : At(Q, P2, R + 1, K, W)'
<1> USE DEF At
<1>1. Succ(c.read_cursor) = (R + 1) % Modulus
  BY CursorOfCount DEF CursorsAt
<1>2. c.pc = "taken" /\ c'.pc = "idle" /\ R < K /\ UNCHANGED <<buffer, torn_down, p>>
  BY DEF advance_one, FlushTo, TypeOK, CursorsAt
<1>3. SlotsAt(R + 1, W)'
  <2>1. First(R + 1)' = First(R)
    BY <1>2 DEF First
  <2> QED BY <1>2, <2>1 DEF SlotsAt
<1>4. CASE read_cursor' = read_cursor /\ c' = [c EXCEPT !.read_cursor = Succ(c.read_cursor), !.pc = "idle"]
  <2>1. /\ c'.read_cursor = (R + 1) % Modulus /\ c'.published = c.published
        /\ c'.write_cursor_cache = c.write_cursor_cache /\ UNCHANGED write_cursor
    BY <1>1, <1>4 DEF advance_one, TypeOK
  <2>2. CursorsAt(Q, P, R + 1, K, W)'
    BY <1>2, <1>4, <2>1 DEF CursorsAt
  <2> QED BY <1>3, <2>2
<1>5. CASE FlushTo(Succ(c.read_cursor), "idle")
  <2>1. /\ c'.read_cursor = (R + 1) % Modulus /\ c'.published = (R + 1) % Modulus
        /\ read_cursor' = (R + 1) % Modulus
        /\ c'.write_cursor_cache = c.write_cursor_cache /\ UNCHANGED write_cursor
    BY <1>1, <1>5 DEF advance_one, FlushTo, TypeOK
  <2>2. CursorsAt(Q, R + 1, R + 1, K, W)'
    BY <1>2, <2>1 DEF CursorsAt
  <2> QED BY <1>3, <2>2
<1> QED BY <1>4, <1>5 DEF advance_one

\* A consumer that leaves publishes all it has consumed.
LEMMA DropConsumerStep ==
  ASSUME SpscAssumption, TypeOK, NEW Q \in Nat, NEW P \in Nat, NEW R \in Nat, NEW K \in Nat, NEW W \in Nat,
         At(Q, P, R, K, W), DropConsumer
  PROVE  At(Q, R, R, K, W)'
<1>1. SlotsAt(R, W)'
  BY DEF At, SlotsAt, First, DropConsumer, FlushTo, TypeOK
<1>2. CursorsAt(Q, R, R, K, W)'
  BY DEF At, DropConsumer, FlushTo, CursorsAt, TypeOK
<1> QED BY <1>1, <1>2 DEF At

\* Slot s is one that Shared::drop visits; slot s holds an element not taken.
Walked(head, tail, s) == \E n \in Queued(head, tail) : Index(n) = s
Left(P, W, s) == \E i \in Nat : P <= i /\ i < W /\ s = i % Capacity

\* The cursors Shared::drop walks are those of the elements left.
LEMMA QueuedAreLeft ==
  ASSUME SpscAssumption, NEW P \in Nat, NEW W \in Nat, P <= W, W <= P + Capacity,
         NEW s \in 0 .. Capacity - 1
  PROVE  Walked(P % Modulus, W % Modulus, s) <=> Left(P, W, s)
<1>1. wrapping_sub(W % Modulus, P % Modulus, Modulus) = W - P
  <2>1. W <= P + Capacity + 1
    BY Sizes
  <2> QED BY <2>1, Distance
<1>2. \A i \in 0 .. W - P - 1 : i \in Nat /\ P + i \in Nat /\ P <= P + i /\ P + i < W
  OBVIOUS
<1>3. \A i \in 0 .. W - P - 1 : wrapping_add(P % Modulus, i, Modulus) = (P + i) % Modulus
  BY <1>2, Sizes, WrappedAdd
<1>4. Queued(P % Modulus, W % Modulus) = {(P + i) % Modulus : i \in 0 .. W - P - 1}
  BY <1>1, <1>3 DEF Queued
<1>5. \A i \in 0 .. W - P - 1 : Index((P + i) % Modulus) = (P + i) % Capacity
  BY <1>2, CursorOfCount
<1>6. ASSUME NEW n \in Queued(P % Modulus, W % Modulus), Index(n) = s
      PROVE  \E i \in Nat : P <= i /\ i < W /\ s = i % Capacity
  <2>1. PICK i \in 0 .. W - P - 1 : n = (P + i) % Modulus
    BY <1>4, <1>6
  <2>2. P + i \in Nat /\ P <= P + i /\ P + i < W /\ s = (P + i) % Capacity
    BY <1>2, <1>5, <1>6, <2>1
  <2> QED BY <2>2
<1>7. ASSUME NEW i \in Nat, P <= i, i < W, s = i % Capacity
      PROVE  \E n \in Queued(P % Modulus, W % Modulus) : Index(n) = s
  <2>1. i - P \in 0 .. W - P - 1 /\ P + (i - P) = i
    BY <1>7
  <2>2. (P + (i - P)) % Modulus \in Queued(P % Modulus, W % Modulus)
    BY <1>4, <2>1
  <2>3. Index(i % Modulus) = s
    BY <1>7, CursorOfCount
  <2> QED BY <2>1, <2>2, <2>3
<1> QED BY <1>6, <1>7 DEF Walked, Left

\* Shared::drop empties every slot.
LEMMA TearDownStep ==
  ASSUME SpscAssumption, TypeOK, NEW Q \in Nat, NEW P \in Nat, NEW R \in Nat, NEW K \in Nat, NEW W \in Nat,
         At(Q, P, R, K, W), TearDown
  PROVE  At(Q, P, R, K, W)'
<1> USE DEF At
<1>1. CursorsAt(Q, P, R, K, W)'
  BY DEF TearDown, CursorsAt
<1>2. P = R /\ First(R) = R /\ P <= W /\ W <= P + Capacity
  BY Sizes DEF TearDown, CursorsAt, First
<1>3. \A s \in 0 .. Capacity - 1 : Walked(read_cursor, write_cursor, s) <=> Left(P, W, s)
  <2>1. read_cursor = P % Modulus /\ write_cursor = W % Modulus
    BY DEF CursorsAt
  <2>2. TAKE s \in 0 .. Capacity - 1
  <2>3. Walked(P % Modulus, W % Modulus, s) <=> Left(P, W, s)
    BY <1>2, QueuedAreLeft
  <2> QED BY <2>1, <2>3
<1>4. \A s \in 0 .. Capacity - 1 :
        buffer'[s] = IF Walked(read_cursor, write_cursor, s) THEN None ELSE buffer[s]
  BY DEF TearDown, TypeOK, Walked
<1>5. p.pc = "dropped" /\ UNCHANGED p /\ torn_down'
  BY DEF TearDown
<1>6. ASSUME NEW s \in 0 .. Capacity - 1
      PROVE  buffer'[s] = None
  <2>1. CASE buffer[s] # None
    <3>1. Left(P, W, s)
      BY <1>2, <1>5, <2>1 DEF SlotsAt, Left
    <3> QED BY <1>3, <1>4, <3>1
  <2> QED BY <1>4, <2>1
<1>7. SlotsAt(R, W)'
  BY <1>5, <1>6 DEF SlotsAt
<1> QED BY <1>1, <1>7

-----------------------------------------------------------------------------
(* The invariant *)

\* The ring starts with every count at zero.
LEMMA Initially ==
  ASSUME SpscAssumption, Init
  PROVE  IInv
<1>1. 0 % Modulus = 0 /\ 0 \in Cursor
  BY Sizes DEF Cursor
<1>2. TypeOK
  BY <1>1 DEF Init, TypeOK
<1>3. At(0, 0, 0, 0, 0)
  BY <1>1, Sizes DEF Init, At, CursorsAt, SlotsAt, First
<1> QED BY <1>2, <1>3 DEF IInv

\* Every step preserves the invariant.
LEMMA Inductive ==
  ASSUME SpscAssumption, IInv, [Next]_vars
  PROVE  IInv'
<1>1. TypeOK /\ TypeOK'
  BY TypeStep DEF IInv
<1>2. PICK Q \in Nat, P \in Nat, R \in Nat, K \in Nat, W \in Nat : At(Q, P, R, K, W)
  BY DEF IInv
<1>3. W + 1 \in Nat /\ R + 1 \in Nat
  OBVIOUS
<1>4. CASE HasSpaceCached \/ HasSpaceReload
  <2>1. PICK Q2 \in Nat : At(Q2, P, R, K, W)'
    BY <1>1, <1>2, <1>4, HasSpaceStep, Zenon
  <2> QED BY <1>1, <1>2, <1>3, <2>1, Zenon DEF IInv
<1>5. CASE (\E v \in Values : Write(v)) \/ Abandon
  <2>1. At(Q, P, R, K, W)'
    BY <1>1, <1>2, <1>5, WriteStep, Zenon
  <2> QED BY <1>1, <1>2, <1>3, <2>1, Zenon DEF IInv
<1>6. CASE Publish
  <2>1. At(Q, P, R, K, W + 1)'
    BY <1>1, <1>2, <1>6, PublishStep, Zenon
  <2> QED BY <1>1, <1>2, <1>3, <2>1, Zenon DEF IInv
<1>7. CASE has_item
  <2>1. PICK K2 \in Nat : At(Q, P, R, K2, W)'
    BY <1>1, <1>2, <1>7, has_itemStep, Zenon
  <2> QED BY <1>1, <1>2, <1>3, <2>1, Zenon DEF IInv
<1>8. CASE Take
  <2>1. At(Q, P, R, K, W)'
    BY <1>1, <1>2, <1>8, TakeStep, Zenon
  <2> QED BY <1>1, <1>2, <1>3, <2>1, Zenon DEF IInv
<1>9. CASE Forget \/ DropProducer
  <2>1. At(Q, P, R, K, W)'
    BY <1>1, <1>2, <1>9, ForgetStep, Zenon
  <2> QED BY <1>1, <1>2, <1>3, <2>1, Zenon DEF IInv
<1>10. CASE advance_one
  <2>1. PICK P2 \in Nat : At(Q, P2, R + 1, K, W)'
    BY <1>1, <1>2, <1>10, advance_oneStep, Zenon
  <2> QED BY <1>1, <1>2, <1>3, <2>1, Zenon DEF IInv
<1>11. CASE DropConsumer
  <2>1. At(Q, R, R, K, W)'
    BY <1>1, <1>2, <1>11, DropConsumerStep, Zenon
  <2> QED BY <1>1, <1>2, <1>3, <2>1, Zenon DEF IInv
<1>12. CASE TearDown
  <2>1. At(Q, P, R, K, W)'
    BY <1>1, <1>2, <1>12, TearDownStep, Zenon
  <2> QED BY <1>1, <1>2, <1>3, <2>1, Zenon DEF IInv
<1>13. CASE Terminated \/ UNCHANGED vars
  <2>1. UNCHANGED vars
    BY <1>13 DEF Terminated
  <2>2. SlotsAt(R, W)'
    BY <1>2, <2>1, SlotsFrame DEF vars, At, First
  <2>3. CursorsAt(Q, P, R, K, W)'
    BY <1>2, <2>1 DEF vars, At, CursorsAt
  <2> QED BY <1>1, <1>2, <2>2, <2>3, Zenon DEF At, IInv
<1> QED
  BY <1>4, <1>5, <1>6, <1>7, <1>8, <1>9, <1>10, <1>11, <1>12, <1>13 DEF Next, ProducerNext, ConsumerNext

\* The inductive invariant holds in every behaviour of the ring.
THEOREM Invariance ==
  ASSUME SpscAssumption
  PROVE  Spec => []IInv
<1>1. Init => IInv
  BY Initially
<1>2. IInv /\ [Next]_vars => IInv'
  BY Inductive
<1> QED BY <1>1, <1>2, PTL DEF Spec

\* Every variable stays in its domain: no wrapped cursor leaves the word.
THEOREM TypeCorrect ==
  ASSUME SpscAssumption
  PROVE  Spec => []TypeOK
<1>1. IInv => TypeOK
  BY DEF IInv
<1> QED BY <1>1, Invariance, PTL

\* When both handles are gone, Shared::drop finds exactly the elements nobody
\* took between the two published cursors: none is leaked and none is dropped
\* twice, wherever the cursors stand in the word.
THEOREM TeardownIsExact ==
  ASSUME SpscAssumption
  PROVE  Spec => []TeardownDropsTheRest
<1>1. IInv => TeardownDropsTheRest
  <2> SUFFICES ASSUME IInv, p.pc = "dropped", c.pc = "dropped", ~torn_down,
                      NEW s \in DOMAIN buffer
               PROVE  (buffer[s] # None) <=> Walked(read_cursor, write_cursor, s)
    BY DEF TeardownDropsTheRest, Walked
  <2>1. PICK Q \in Nat, P \in Nat, R \in Nat, K \in Nat, W \in Nat : At(Q, P, R, K, W)
    BY DEF IInv
  <2>2. s \in 0 .. Capacity - 1
    BY DEF IInv, TypeOK
  <2>3. P = R /\ First(R) = P /\ P <= W /\ W <= P + Capacity
    BY <2>1, Sizes DEF At, CursorsAt, First
  <2>4. read_cursor = P % Modulus /\ write_cursor = W % Modulus
    BY <2>1 DEF At, CursorsAt
  <2>5. Walked(P % Modulus, W % Modulus, s) <=> Left(P, W, s)
    BY <2>2, <2>3, QueuedAreLeft
  <2>6. (buffer[s] # None) <=> Left(P, W, s)
    BY <2>1, <2>2, <2>3 DEF At, SlotsAt, Left
  <2> QED BY <2>4, <2>5, <2>6
<1> QED BY <1>1, Invariance, PTL

-----------------------------------------------------------------------------
(* The queue inside *)

\* The elements at the counts from F up to W in a buffer b.
Window(b, F, W) == [i \in 1 .. W - F |-> b[(F + i - 1) % Capacity]]

\* The refinement mapping reads the slots of the counts from F up to W.
LEMMA WindowOnCounts ==
  ASSUME SpscAssumption, NEW b, NEW F \in Nat, NEW W \in Nat, F <= W, W <= F + Capacity
  PROVE  [i \in 1 .. wrapping_sub(W % Modulus, F % Modulus, Modulus) |->
            b[Index(wrapping_add(F % Modulus, i - 1, Modulus))]] = Window(b, F, W)
<1>1. wrapping_sub(W % Modulus, F % Modulus, Modulus) = W - F
  <2>1. W <= F + Capacity + 1
    BY Sizes
  <2> QED BY <2>1, Distance
<1>2. ASSUME NEW i \in 1 .. W - F
      PROVE  Index(wrapping_add(F % Modulus, i - 1, Modulus)) = (F + i - 1) % Capacity
  <2>1. i - 1 \in Nat /\ F + (i - 1) \in Nat /\ F + (i - 1) = F + i - 1
    OBVIOUS
  <2>2. wrapping_add(F % Modulus, i - 1, Modulus) = (F + (i - 1)) % Modulus
    BY <2>1, Sizes, WrappedAdd
  <2>3. Index((F + (i - 1)) % Modulus) = (F + (i - 1)) % Capacity
    BY <2>1, CursorOfCount
  <2> QED BY <2>1, <2>2, <2>3
<1> QED BY <1>1, <1>2 DEF Window

\* The queue the ring stands for, on counts.
LEMMA ContentsBefore ==
  ASSUME SpscAssumption, NEW Q \in Nat, NEW P \in Nat, NEW R \in Nat, NEW K \in Nat, NEW W \in Nat,
         At(Q, P, R, K, W)
  PROVE  /\ First(R) \in Nat /\ First(R) <= W /\ W <= First(R) + Capacity
         /\ Contents = IF torn_down THEN << >> ELSE Window(buffer, First(R), W)
<1>1. First(R) \in Nat /\ First(R) <= W /\ W <= First(R) + Capacity
  BY Sizes DEF At, CursorsAt, First
<1>2. (IF c.pc = "taken" THEN Succ(c.read_cursor) ELSE c.read_cursor) = First(R) % Modulus
  BY CursorOfCount DEF At, CursorsAt, First
<1>3. write_cursor = W % Modulus
  BY DEF At, CursorsAt
<1>4. [i \in 1 .. wrapping_sub(W % Modulus, First(R) % Modulus, Modulus) |->
         buffer[Index(wrapping_add(First(R) % Modulus, i - 1, Modulus))]] = Window(buffer, First(R), W)
  BY <1>1, WindowOnCounts, Zenon
<1> QED BY <1>1, <1>2, <1>3, <1>4 DEF Contents

\* The same, after a step.
LEMMA ContentsAfter ==
  ASSUME SpscAssumption, NEW Q \in Nat, NEW P \in Nat, NEW R \in Nat, NEW K \in Nat, NEW W \in Nat,
         At(Q, P, R, K, W)'
  PROVE  Contents' = IF torn_down' THEN << >> ELSE Window(buffer', First(R)', W)
<1>1. First(R)' \in Nat /\ First(R)' <= W /\ W <= First(R)' + Capacity
  BY Sizes DEF At, CursorsAt, First
<1>2. (IF c'.pc = "taken" THEN Succ(c'.read_cursor) ELSE c'.read_cursor) = First(R)' % Modulus
  BY CursorOfCount DEF At, CursorsAt, First
<1>3. write_cursor' = W % Modulus
  BY DEF At, CursorsAt
<1>4. [i \in 1 .. wrapping_sub(W % Modulus, First(R)' % Modulus, Modulus) |->
         buffer'[Index(wrapping_add(First(R)' % Modulus, i - 1, Modulus))]] = Window(buffer', First(R)', W)
  BY <1>1, WindowOnCounts, Zenon
<1> QED BY <1>1, <1>2, <1>3, <1>4 DEF Contents

\* What a slot can hold.
Cell == Values \union {None}
SlotArray == [0 .. Capacity - 1 -> Cell]

\* s lists the elements of b at the counts from F up to W.
IsWindow(s, b, F, W) ==
  /\ s \in Seq(Cell) /\ Len(s) = W - F
  /\ \A i \in 1 .. W - F : s[i] = b[(F + i - 1) % Capacity]

\* A window is a sequence of slots.
LEMMA WindowType ==
  ASSUME SpscAssumption, NEW b \in SlotArray, NEW F \in Nat, NEW W \in Nat, F <= W
  PROVE  IsWindow(Window(b, F, W), b, F, W)
<1>1. ASSUME NEW i \in 1 .. W - F
      PROVE  b[(F + i - 1) % Capacity] \in Cell
  <2>1. F + i - 1 \in Nat
    OBVIOUS
  <2> QED BY <2>1, CursorOfCount DEF SlotArray
<1>2. Window(b, F, W) \in [1 .. W - F -> Cell] /\ W - F \in Nat
  BY <1>1 DEF Window, SlotArray
<1> QED BY <1>2 DEF Window, IsWindow, SlotArray

\* Writing one slot outside the window leaves it.
LEMMA SameWindow ==
  ASSUME NEW F \in Nat, NEW W \in Nat, NEW b, NEW d,
         Agree(d, b, F, W)
  PROVE  Window(d, F, W) = Window(b, F, W)
<1>1. \A i \in 1 .. W - F : F + i - 1 \in Nat /\ F <= F + i - 1 /\ F + i - 1 < W
  OBVIOUS
<1> QED BY <1>1 DEF Window, Agree

\* Adding a count at the end appends its element.
LEMMA WindowAppend ==
  ASSUME SpscAssumption, NEW b \in SlotArray, NEW F \in Nat, NEW W \in Nat, F <= W
  PROVE  Window(b, F, W + 1) = Append(Window(b, F, W), b[W % Capacity])
<1> DEFINE s == Window(b, F, W)
           t == Window(b, F, W + 1)
           e == b[W % Capacity]
<1>1. W + 1 \in Nat /\ F <= W + 1 /\ (W + 1) - F = (W - F) + 1 /\ F + ((W - F) + 1) - 1 = W
  OBVIOUS
<1>2. s \in Seq(Cell) /\ Len(s) = W - F /\ \A i \in 1 .. W - F : s[i] = b[(F + i - 1) % Capacity]
  <2>1. IsWindow(s, b, F, W)
    BY WindowType
  <2> QED BY <2>1 DEF IsWindow
<1>3. t \in Seq(Cell) /\ Len(t) = (W - F) + 1 /\ \A i \in 1 .. (W - F) + 1 : t[i] = b[(F + i - 1) % Capacity]
  <2>1. IsWindow(t, b, F, W + 1)
    BY <1>1, WindowType
  <2> QED BY <1>1, <2>1 DEF IsWindow
<1>4. e \in Cell
  BY CursorOfCount DEF SlotArray
<1> HIDE DEF s, t
<1>5. t[(W - F) + 1] = e
  BY <1>1, <1>3
<1> HIDE DEF e
<1>6. /\ Append(s, e) \in Seq(Cell) /\ Len(Append(s, e)) = (W - F) + 1
      /\ \A i \in 1 .. W - F : Append(s, e)[i] = s[i]
      /\ Append(s, e)[(W - F) + 1] = e
  <2>1. s \in Seq(Cell) /\ e \in Cell
    BY <1>2, <1>4
  <2>2. /\ Append(s, e) \in Seq(Cell) /\ Len(Append(s, e)) = Len(s) + 1
        /\ \A i \in 1 .. Len(s) : Append(s, e)[i] = s[i]
        /\ Append(s, e)[Len(s) + 1] = e
    BY <2>1, AppendProperties
  <2> QED BY <1>2, <2>2
<1>7. \A i \in 1 .. (W - F) + 1 : i \in 1 .. W - F \/ i = (W - F) + 1
  OBVIOUS
<1>8. \A i \in 1 .. Len(t) : t[i] = Append(s, e)[i]
  BY <1>2, <1>3, <1>5, <1>6, <1>7
<1>9. t = Append(s, e)
  BY <1>3, <1>6, <1>8, SeqEqual
<1> QED BY <1>9 DEF s, t, e

\* Dropping the first count drops the first element.
LEMMA WindowTail ==
  ASSUME SpscAssumption, NEW b \in SlotArray, NEW F \in Nat, NEW W \in Nat, F < W
  PROVE  Window(b, F, W) # << >> /\ Window(b, F + 1, W) = Tail(Window(b, F, W))
<1> DEFINE s == Window(b, F, W)
           t == Window(b, F + 1, W)
<1>1. F + 1 \in Nat /\ F + 1 <= W /\ F <= W /\ W - (F + 1) = (W - F) - 1
  OBVIOUS
<1>2. s \in Seq(Cell) /\ Len(s) = W - F /\ \A i \in 1 .. W - F : s[i] = b[(F + i - 1) % Capacity]
  <2>1. IsWindow(s, b, F, W)
    BY <1>1, WindowType
  <2> QED BY <2>1 DEF IsWindow
<1>3. t \in Seq(Cell) /\ Len(t) = (W - F) - 1 /\ \A i \in 1 .. (W - F) - 1 : t[i] = b[(F + 1 + i - 1) % Capacity]
  <2>1. IsWindow(t, b, F + 1, W)
    BY <1>1, WindowType
  <2> QED BY <1>1, <2>1 DEF IsWindow
<1> HIDE DEF s, t
<1>4. s # << >>
  BY <1>2
<1>5. Tail(s) \in Seq(Cell) /\ Len(Tail(s)) = (W - F) - 1 /\ \A i \in 1 .. (W - F) - 1 : Tail(s)[i] = s[i + 1]
  BY <1>2, <1>4, HeadTailProperties
<1>6. \A i \in 1 .. (W - F) - 1 : i + 1 \in 1 .. W - F /\ F + (i + 1) - 1 = F + 1 + i - 1
  OBVIOUS
<1>7. \A i \in 1 .. Len(t) : t[i] = Tail(s)[i]
  BY <1>2, <1>3, <1>5, <1>6
<1>8. t = Tail(s)
  BY <1>3, <1>5, <1>7, SeqEqual
<1> QED BY <1>4, <1>8 DEF s, t

\* A step that leaves the window and its slots alone is a stutter of the queue.
LEMMA Quiet ==
  ASSUME SpscAssumption, NEW Q \in Nat, NEW P \in Nat, NEW R \in Nat, NEW K \in Nat, NEW W \in Nat,
         At(Q, P, R, K, W),
         NEW Q2 \in Nat, NEW P2 \in Nat, NEW R2 \in Nat, NEW K2 \in Nat, At(Q2, P2, R2, K2, W)',
         First(R2)' = First(R), UNCHANGED torn_down,
         Agree(buffer', buffer, First(R), W)
  PROVE  Contents' = Contents
<1>1. /\ First(R) \in Nat
      /\ Contents = IF torn_down THEN << >> ELSE Window(buffer, First(R), W)
  BY ContentsBefore
<1>2. Contents' = IF torn_down' THEN << >> ELSE Window(buffer', First(R2)', W)
  BY ContentsAfter
<1>3. Window(buffer', First(R), W) = Window(buffer, First(R), W)
  BY <1>1, SameWindow
<1> QED BY <1>1, <1>2, <1>3

\* Publish appends the element written.
LEMMA PublishEnqueues ==
  ASSUME SpscAssumption, TypeOK, NEW Q \in Nat, NEW P \in Nat, NEW R \in Nat, NEW K \in Nat, NEW W \in Nat,
         At(Q, P, R, K, W), Publish
  PROVE  \E v \in Values : Abstract!Enqueue(v)
<1>1. W + 1 \in Nat /\ At(Q, P, R, K, W + 1)'
  BY PublishStep
<1>2. First(R)' = First(R) /\ UNCHANGED <<buffer, torn_down>> /\ p.pc = "written" /\ ~torn_down
  BY DEF Publish, TypeOK, First, At, CursorsAt
<1>3. Contents' = Window(buffer, First(R), W + 1)
  BY <1>1, <1>2, ContentsAfter
<1>4. First(R) \in Nat /\ First(R) <= W /\ Contents = Window(buffer, First(R), W)
  BY <1>2, ContentsBefore
<1>5. buffer \in SlotArray
  BY DEF TypeOK, Cell, SlotArray
<1>6. Contents' = Append(Contents, buffer[W % Capacity])
  <2>1. Window(buffer, First(R), W + 1) = Append(Window(buffer, First(R), W), buffer[W % Capacity])
    <3>1. PICK F \in Nat : F = First(R)
      BY <1>4
    <3>2. F <= W
      BY <1>4, <3>1
    <3>3. Window(buffer, F, W + 1) = Append(Window(buffer, F, W), buffer[W % Capacity])
      BY <1>5, <3>2, WindowAppend
    <3> QED BY <3>1, <3>3
  <2> QED BY <1>3, <1>4, <2>1
<1>7. Len(Contents) = W - First(R)
  <2>1. IsWindow(Contents, buffer, First(R), W)
    BY <1>4, <1>5, WindowType
  <2> QED BY <2>1 DEF IsWindow
<1>8. Len(Contents) < Capacity
  <2>1. W < First(R) + Capacity
    BY <1>2, Sizes DEF At, CursorsAt, First
  <2> QED BY <1>4, <1>7, <2>1, Sizes
<1>9. buffer[W % Capacity] \in Values
  BY <1>2, <1>5, CursorOfCount DEF At, SlotsAt, Cell, SlotArray
<1> QED BY <1>6, <1>8, <1>9 DEF Abstract!Enqueue

\* Take removes the oldest element.
LEMMA TakeDequeues ==
  ASSUME SpscAssumption, TypeOK, NEW Q \in Nat, NEW P \in Nat, NEW R \in Nat, NEW K \in Nat, NEW W \in Nat,
         At(Q, P, R, K, W), Take
  PROVE  Abstract!Dequeue
<1>1. At(Q, P, R, K, W)' /\ Agree(buffer', buffer, R + 1, W)
  BY TakeStep
<1>2. First(R) = R /\ First(R)' = R + 1 /\ R < W /\ UNCHANGED torn_down /\ ~torn_down /\ R + 1 \in Nat
  <2>1. c.pc = "holding" /\ c'.pc = "taken" /\ UNCHANGED torn_down
    BY DEF Take, TypeOK
  <2>2. R < W /\ ~torn_down
    BY <2>1 DEF At, CursorsAt
  <2> QED BY <2>1, <2>2 DEF First
<1>3. Contents' = Window(buffer', R + 1, W)
  BY <1>1, <1>2, ContentsAfter
<1>4. Contents = Window(buffer, R, W)
  BY <1>2, ContentsBefore
<1>5. Window(buffer', R + 1, W) = Window(buffer, R + 1, W)
  BY <1>1, <1>2, SameWindow
<1>6. buffer \in SlotArray
  BY DEF TypeOK, Cell, SlotArray
<1>7. Window(buffer, R, W) # << >> /\ Window(buffer, R + 1, W) = Tail(Window(buffer, R, W))
  BY <1>2, <1>6, WindowTail
<1> QED BY <1>3, <1>4, <1>5, <1>7 DEF Abstract!Dequeue

\* Shared::drop discards what is left, if anything.
LEMMA TearDownDiscards ==
  ASSUME SpscAssumption, TypeOK, NEW Q \in Nat, NEW P \in Nat, NEW R \in Nat, NEW K \in Nat, NEW W \in Nat,
         At(Q, P, R, K, W), TearDown
  PROVE  Abstract!Discard \/ Contents' = Contents
<1>1. At(Q, P, R, K, W)'
  BY TearDownStep
<1>2. Contents' = << >>
  BY <1>1, ContentsAfter DEF TearDown
<1> QED BY <1>2 DEF Abstract!Discard

\* Every step of the ring is a step of the queue or a stutter.
LEMMA StepOfQueue ==
  ASSUME SpscAssumption, IInv, [Next]_vars
  PROVE  [Abstract!Next]_Contents
<1>1. TypeOK
  BY DEF IInv
<1>2. PICK Q \in Nat, P \in Nat, R \in Nat, K \in Nat, W \in Nat : At(Q, P, R, K, W)
  BY DEF IInv
<1>3. R + 1 \in Nat
  OBVIOUS
<1>4. CASE HasSpaceCached \/ HasSpaceReload
  <2>1. PICK Q2 \in Nat : At(Q2, P, R, K, W)'
    BY <1>1, <1>2, <1>4, HasSpaceStep, Zenon
  <2>2. UNCHANGED <<buffer, torn_down>> /\ First(R)' = First(R)
    BY <1>4 DEF HasSpaceCached, HasSpaceReload, First
  <2>3. Agree(buffer', buffer, First(R), W)
    BY <2>2 DEF Agree
  <2> QED BY <1>2, <2>1, <2>2, <2>3, Quiet
<1>5. CASE (\E v \in Values : Write(v)) \/ Abandon
  <2>1. /\ At(Q, P, R, K, W)'
        /\ Agree(buffer', buffer, First(R), W)
    BY <1>1, <1>2, <1>5, WriteStep, Zenon
  <2>2. UNCHANGED torn_down /\ First(R)' = First(R)
    BY <1>5 DEF Write, Abandon, First
  <2> QED BY <1>2, <2>1, <2>2, Quiet
<1>6. CASE Publish
  BY <1>1, <1>2, <1>6, PublishEnqueues, Zenon DEF Abstract!Next
<1>7. CASE has_item
  <2>1. PICK K2 \in Nat : At(Q, P, R, K2, W)'
    BY <1>1, <1>2, <1>7, has_itemStep, Zenon
  <2>2. UNCHANGED <<buffer, torn_down>> /\ First(R)' = First(R)
    BY <1>1, <1>7 DEF has_item, First, TypeOK
  <2>3. Agree(buffer', buffer, First(R), W)
    BY <2>2 DEF Agree
  <2> QED BY <1>2, <2>1, <2>2, <2>3, Quiet
<1>8. CASE Take
  BY <1>1, <1>2, <1>8, TakeDequeues, Zenon DEF Abstract!Next
<1>9. CASE Forget \/ DropProducer
  <2>1. At(Q, P, R, K, W)'
    BY <1>1, <1>2, <1>9, ForgetStep, Zenon
  <2>2. UNCHANGED <<buffer, torn_down>> /\ First(R)' = First(R)
    BY <1>1, <1>9 DEF Forget, DropProducer, First, TypeOK
  <2>3. Agree(buffer', buffer, First(R), W)
    BY <2>2 DEF Agree
  <2> QED BY <1>2, <2>1, <2>2, <2>3, Quiet
<1>10. CASE advance_one
  <2>1. PICK P2 \in Nat : At(Q, P2, R + 1, K, W)'
    BY <1>1, <1>2, <1>10, advance_oneStep, Zenon
  <2>2. UNCHANGED <<buffer, torn_down>> /\ c.pc = "taken" /\ c'.pc = "idle"
    BY <1>1, <1>10 DEF advance_one, FlushTo, TypeOK
  <2>3. First(R + 1)' = First(R)
    BY <2>2 DEF First
  <2>4. Agree(buffer', buffer, First(R), W)
    BY <2>2 DEF Agree
  <2> QED BY <1>2, <1>3, <2>1, <2>2, <2>3, <2>4, Quiet
<1>11. CASE DropConsumer
  <2>1. At(Q, R, R, K, W)'
    BY <1>1, <1>2, <1>11, DropConsumerStep, Zenon
  <2>2. UNCHANGED <<buffer, torn_down>> /\ First(R)' = First(R)
    BY <1>1, <1>11 DEF DropConsumer, FlushTo, First, TypeOK
  <2>3. Agree(buffer', buffer, First(R), W)
    BY <2>2 DEF Agree
  <2> QED BY <1>2, <2>1, <2>2, <2>3, Quiet
<1>12. CASE TearDown
  <2>1. Abstract!Discard \/ Contents' = Contents
    BY <1>1, <1>2, <1>12, TearDownDiscards, Zenon
  <2> QED BY <2>1 DEF Abstract!Next
<1>13. CASE Terminated \/ UNCHANGED vars
  <2>1. UNCHANGED vars
    BY <1>13 DEF Terminated
  <2>2. SlotsAt(R, W)'
    BY <1>2, <2>1, SlotsFrame DEF vars, At, First
  <2>3. CursorsAt(Q, P, R, K, W)'
    BY <1>2, <2>1 DEF vars, At, CursorsAt
  <2>4. Agree(buffer', buffer, First(R), W) /\ UNCHANGED torn_down /\ First(R)' = First(R)
    BY <2>1 DEF Agree, First, vars
  <2>5. At(Q, P, R, K, W)'
    BY <2>2, <2>3 DEF At
  <2> QED BY <1>2, <2>4, <2>5, Quiet
<1> QED
  BY <1>4, <1>5, <1>6, <1>7, <1>8, <1>9, <1>10, <1>11, <1>12, <1>13 DEF Next, ProducerNext, ConsumerNext

\* The ring implements the bounded queue: no element is lost, duplicated,
\* reordered or overwritten, for every capacity and every width of the cursor
\* word, through its wraps and for every choice of when progress is published.
THEOREM ImplementsBoundedQueue ==
  ASSUME SpscAssumption
  PROVE  Spec => ImplementsQueue
<1>1. Init => Abstract!Init
  <2> SUFFICES ASSUME Init PROVE Contents = << >>
    BY DEF Abstract!Init
  <2>1. At(0, 0, 0, 0, 0) /\ ~torn_down /\ First(0) = 0
    <3>1. 0 % Modulus = 0
      BY Sizes
    <3> QED BY <3>1, Sizes DEF Init, At, CursorsAt, SlotsAt, First
  <2>2. Contents = Window(buffer, 0, 0)
    BY <2>1, ContentsBefore
  <2> QED BY <2>2 DEF Window
<1>2. IInv /\ [Next]_vars => [Abstract!Next]_Contents
  BY StepOfQueue
<1> QED BY <1>1, <1>2, Invariance, PTL DEF Spec, ImplementsQueue, Abstract!Spec

-----------------------------------------------------------------------------
(***************************************************************************)
(* The wait of either side, when it is a CvWait: CvWait loses no wake-up,  *)
(* for any number of publishes, whether or not its timer ever runs out.    *)
(***************************************************************************)

\* The mutex is held by the thread that is between its lock and its unlock.
MutexInv ==
  /\ mutex = "waiter" <=> wpc \in {"fence", "pred", "park", "unlock"}
  /\ mutex = "notifier" <=> npc = "signal"

\* Past a thread's fence, its store is in memory.
FenceInv ==
  /\ npc # "fence" => progress = stored
  /\ wpc \in {"fence", "pred", "park", "parked", "woken", "unlock", "clear"} => flag
  /\ wpc \in {"pred", "park", "parked", "woken", "unlock", "clear"} => waiting

WaitInv == WaitTypeOK /\ MutexInv /\ FenceInv /\ NoLostWakeup

\* Both threads start outside the mutex, with nothing stored.
LEMMA WaitInitially ==
  ASSUME WaitInit
  PROVE  WaitInv
<1>1. 0 \in 0 .. MaxProgress
  BY CvWaitAssumption DEF CvWaitAssumption
<1>2. WaitTypeOK
  BY <1>1 DEF WaitInit, WaitTypeOK, Threads
<1>3. MutexInv /\ FenceInv /\ NoLostWakeup
  BY DEF WaitInit, MutexInv, FenceInv, NoLostWakeup
<1> QED BY <1>2, <1>3 DEF WaitInv

\* A step of either thread preserves the invariant; the two that matter are
\* Pred, whose stale read means that the notifier has yet to pass its fence,
\* and NotifyAll, whose mutex means that the waiter is not between check and park.
LEMMA WaitInductive ==
  ASSUME WaitInv, [WaitNext]_wait_vars
  PROVE  WaitInv'
<1> USE CvWaitAssumption DEF CvWaitAssumption, WaitInv, WaitTypeOK, Threads, MutexInv, FenceInv, NoLostWakeup
<1>1. CASE DrainFlag \/ DrainProgress
  BY <1>1 DEF DrainFlag, DrainProgress
<1>2. CASE HasItem \/ Lock \/ WaiterFence
  BY <1>2 DEF HasItem, Lock, WaiterFence
<1>3. CASE Pred
  <2>1. stored # seen /\ wpc' = "park" => npc = "fence"
    BY <1>3 DEF Pred
  <2> QED BY <1>3, <2>1 DEF Pred
<1>4. CASE Park \/ Relock \/ TimesOut
  BY <1>4 DEF Park, Relock, TimesOut
<1>5. CASE Clear \/ Unlock
  BY <1>5 DEF Clear, Unlock
<1>6. CASE PublishProgress \/ NotifierFence
  BY <1>6 DEF PublishProgress, NotifierFence
<1>7. CASE Look \/ NotifierLock
  BY <1>7 DEF Look, NotifierLock
<1>8. CASE NotifyAll
  <2>1. wpc # "park"
    BY <1>8 DEF NotifyAll
  <2> QED BY <1>8, <2>1 DEF NotifyAll
<1>9. CASE UNCHANGED wait_vars
  BY <1>9 DEF wait_vars
<1> QED BY <1>1, <1>2, <1>3, <1>4, <1>5, <1>6, <1>7, <1>8, <1>9 DEF WaitNext, WaiterNext, NotifierNext

\* A waiter parked with progress to see always has a signal on its way: the
\* two SeqCst fences and the mutex suffice, without the timed re-check.
THEOREM NoWakeupIsLost == WaitSpec => []NoLostWakeup
<1>1. WaitInit => WaitInv
  BY WaitInitially
<1>2. WaitInv /\ [WaitNext]_wait_vars => WaitInv'
  BY WaitInductive
<1>3. WaitInv => NoLostWakeup
  BY DEF WaitInv
<1> QED BY <1>1, <1>2, <1>3, PTL DEF WaitSpec
=============================================================================
