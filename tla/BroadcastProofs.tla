-------------------------- MODULE BroadcastProofs --------------------------
(***************************************************************************)
(* Proofs about the two lossy rings, over the same weakly ordered memory:  *)
(* the element ring BroadcastRing implements the lossy log, for every      *)
(* capacity, slack, payload size, batch divisor and number of messages;    *)
(* and the byte ring BroadcastBytes implements the lossy log of records,   *)
(* for every capacity, set of lengths, number of pushes and of producers.  *)
(***************************************************************************)
EXTENDS BroadcastRing, BroadcastBytes, RingArithProofs, SequenceTheorems, WellFoundedInduction

-----------------------------------------------------------------------------
(* Locations and stores *)

Locations ==
  {Generation(q) : q \in Nat} \union {Word(q, w) : q \in Nat, w \in 1 .. Words}
    \union {TailWord, ClosedFlag}
Store == [loc : Locations, val : Nat, rel : Nat]

\* Two locations are the same only when they are of one kind and of one slot.
LEMMA GenerationLocation ==
  ASSUME NEW q \in Nat, NEW s \in Nat
  PROVE  /\ Generation(q) = Generation(s) <=> slot(q) = slot(s)
         /\ Generation(q) # TailWord /\ Generation(q) # ClosedFlag
         /\ \A w : Generation(q) # Word(s, w)
  BY DEF Generation, Word, TailWord, ClosedFlag

\* The same of the payload words.
LEMMA WordLocation ==
  ASSUME NEW q \in Nat, NEW s \in Nat, NEW w \in Nat, NEW x \in Nat
  PROVE  /\ Word(q, w) = Word(s, x) <=> (slot(q) = slot(s) /\ w = x)
         /\ Word(q, w) # TailWord /\ Word(q, w) # ClosedFlag
  BY DEF Generation, Word, TailWord, ClosedFlag

\* The tail and the close flag are two words.
LEMMA FlagLocation == TailWord # ClosedFlag
  BY DEF TailWord, ClosedFlag

\* The constants, and the largest batch made of them.
LEMMA Sizes ==
  ASSUME BroadcastAssumption
  PROVE  /\ Capacity \in Nat /\ Capacity > 0 /\ Slack \in Nat /\ Slack < Capacity
         /\ Words \in Nat /\ Words > 0 /\ MaxSeq \in Nat
         /\ MaxBatch \in Nat /\ MaxBatch >= 1
  BY DEF BroadcastAssumption, MaxBatch

\* One store is appended, and what the log held is left alone.
LEMMA OneStore ==
  ASSUME log \in Seq(Store), NEW r \in Store, log' = Append(log, r)
  PROVE  /\ log' \in Seq(Store) /\ Now' = Now + 1 /\ Now \in Nat
         /\ \A t \in 1 .. Now : log'[t] = log[t]
         /\ log'[Now + 1] = r
  BY AppendProperties DEF Now

\* The words of a payload are appended at once, in their order.
Payloads(q) == [w \in 1 .. Words |-> Relaxed(Word(q, w), q)]

\* So the log ends in them, and what it held is left alone.
LEMMA WordStores ==
  ASSUME BroadcastAssumption, log \in Seq(Store), fenced \in Nat,
         NEW q \in Nat, log' = log \o Payloads(q)
  PROVE  /\ log' \in Seq(Store) /\ Now' = Now + Words /\ Now \in Nat
         /\ \A t \in 1 .. Now : log'[t] = log[t]
         /\ \A w \in 1 .. Words : log'[Now + w] = Relaxed(Word(q, w), q)
<1> DEFINE m == Payloads(q)
<1>1. m \in Seq(Store) /\ Len(m) = Words /\ \A w \in 1 .. Words : m[w] = Relaxed(Word(q, w), q)
  <2>1. \A w \in 1 .. Words : Relaxed(Word(q, w), q) \in Store
    BY DEF Relaxed, Store, Locations
  <2>2. m \in [1 .. Words -> Store]
    BY <2>1 DEF Payloads
  <2>3. Words \in Nat
    BY Sizes
  <2> QED BY <2>2, <2>3 DEF Payloads
<1> HIDE DEF m
<1>2. /\ log \o m \in Seq(Store) /\ Len(log \o m) = Len(log) + Words
      /\ \A i \in 1 .. Len(log) + Words : (log \o m)[i] = IF i <= Len(log) THEN log[i] ELSE m[i - Len(log)]
  BY <1>1, ConcatProperties
<1>3. log' = log \o m
  BY DEF m
<1>4. Now \in Nat /\ Words \in Nat
  BY Sizes DEF Now
<1>5. Now' = Now + Words
  BY <1>2, <1>3 DEF Now
<1>6. \A t \in 1 .. Now : log'[t] = log[t]
  BY <1>2, <1>3, <1>4 DEF Now
<1>7. ASSUME NEW w \in 1 .. Words PROVE log'[Now + w] = m[w]
  <2>1. Now + w \in 1 .. Now + Words /\ ~(Now + w <= Now) /\ (Now + w) - Now = w
    BY <1>4
  <2> QED BY <1>2, <1>3, <2>1 DEF Now
<1> QED BY <1>1, <1>2, <1>3, <1>4, <1>5, <1>6, <1>7

-----------------------------------------------------------------------------
(* The producer's stores: message by message its odd generation, its words  *)
(* and its even generation, and between messages the tail.                  *)

begun == IF ppc \in {"payload", "publish"} THEN next_seq + 1 ELSE next_seq

\* Store t opens, fills or publishes message q, or publishes the tail v.
Opens(t, q)    == log[t].loc = Generation(q) /\ log[t].val = 2 * q + 1
Fills(t, q, w) == log[t].loc = Word(q, w) /\ log[t].val = q
Ends(t, q)     == log[t].loc = Generation(q) /\ log[t].val = 2 * q + 2
Tails(t, v)    == log[t].loc = TailWord /\ log[t].val = v
Closes(t)      == log[t].loc = ClosedFlag

\* Of the first k stores, one published message q; a store of a later message
\* to its generation; and all of its words.
Written(k, q)     == \E t \in 1 .. k : Ends(t, q)
Overwriting(k, q) == \E t \in 1 .. k : log[t].loc = Generation(q) /\ log[t].val > 2 * q + 2
Filled(k, q)      == \A w \in 1 .. Words : \E t \in 1 .. k : Fills(t, q, w)

IsStoreOf(t) ==
  \/ \E q \in Nat : q < begun /\ Opens(t, q) /\ log[t].rel \in 0 .. t
  \/ \E q \in Nat : q < begun /\ (\E w \in 1 .. Words : Fills(t, q, w))
                    /\ log[t].rel \in 1 .. t /\ Opens(log[t].rel, q)
  \/ \E q \in Nat : q < next_seq /\ Ends(t, q) /\ log[t].rel = t /\ Filled(t, q)
  \/ \E v \in Nat : v <= next_seq - unpublished /\ Tails(t, v) /\ log[t].rel = t
                    /\ \A q \in Nat : q < v => Written(t, q)
  \/ Closes(t) /\ log[t].rel = t /\ ppc = "closed" /\ \A u \in t .. Now : log[u].loc # TailWord

Stores == \A t \in 1 .. Now : IsStoreOf(t)

\* Generations rise and neither payloads nor tails fall, in program order.
IsGeneration(t) == \E q \in Nat : log[t].loc = Generation(q)
IsWord(t)       == \E q \in Nat, w \in 1 .. Words : log[t].loc = Word(q, w)
Rising ==
  \A u \in 1 .. Now : \A t \in 1 .. u - 1 :
    /\ IsGeneration(t) /\ IsGeneration(u) => log[t].val < log[u].val
    /\ IsWord(t) /\ IsWord(u) => log[t].val <= log[u].val
    /\ log[t].loc = TailWord /\ log[u].loc = TailWord => log[t].val <= log[u].val

\* What the producer has yet to do for the message in hand.
InHand ==
  /\ ppc = "payload" => fenced \in 1 .. Now /\ Opens(fenced, next_seq)
  /\ ppc = "publish" => Filled(Now, next_seq)
  /\ \A q \in Nat : q < next_seq => Written(Now, q)

\* The tail a reader of everything would find.
TailIs(v) ==
  \/ v = 0 /\ \A t \in 1 .. Now : log[t].loc # TailWord
  \/ \E t \in 1 .. Now : Tails(t, v) /\ \A u \in t + 1 .. Now : log[u].loc # TailWord

ProducerType ==
  /\ log \in Seq(Store) /\ fenced \in 0 .. Now
  /\ ppc \in {"idle", "payload", "publish", "frontier", "closing", "closed"}
  /\ next_seq \in Nat /\ begun <= MaxSeq
  /\ tail_batch \in 1 .. MaxBatch
  /\ unpublished \in 0 .. next_seq
  /\ ppc # "frontier" => unpublished < tail_batch
  /\ ppc = "frontier" => unpublished > 0
  /\ ppc \in {"closing", "closed"} => unpublished = 0

ProducerInv == ProducerType /\ Stores /\ Rising /\ InHand /\ TailIs(next_seq - unpublished)

-----------------------------------------------------------------------------
(* What a store's location says of it *)

\* The counts of the producer, and their order.
LEMMA BegunIsNat ==
  ASSUME ProducerType
  PROVE  /\ begun \in Nat /\ next_seq \in Nat /\ unpublished \in Nat
         /\ next_seq <= begun /\ begun <= next_seq + 1 /\ begun <= MaxSeq
         /\ next_seq - unpublished \in Nat /\ next_seq - unpublished <= next_seq /\ Now \in Nat
  BY DEF ProducerType, begun, Now

\* A store to a generation opened or published a message of that slot.
LEMMA GenerationStore ==
  ASSUME ProducerInv, NEW t \in 1 .. Now, NEW s \in Nat, log[t].loc = Generation(s)
  PROVE  \E q \in Nat :
           /\ slot(q) = slot(s) /\ q < begun
           /\ \/ Opens(t, q) /\ log[t].rel \in 0 .. t
              \/ q < next_seq /\ Ends(t, q) /\ log[t].rel = t /\ Filled(t, q)
<1>1. IsStoreOf(t)
  BY DEF ProducerInv, Stores
<1>2. CASE \E q \in Nat : q < begun /\ Opens(t, q) /\ log[t].rel \in 0 .. t
  BY <1>2, GenerationLocation DEF Opens
<1>3. CASE \E q \in Nat : q < begun /\ (\E w \in 1 .. Words : Fills(t, q, w))
                          /\ log[t].rel \in 1 .. t /\ Opens(log[t].rel, q)
  BY <1>3, GenerationLocation DEF Fills
<1>4. CASE \E q \in Nat : q < next_seq /\ Ends(t, q) /\ log[t].rel = t /\ Filled(t, q)
  <2>1. next_seq \in Nat /\ begun \in Nat /\ next_seq <= begun
    BY BegunIsNat DEF ProducerInv
  <2>2. PICK q \in Nat : q < next_seq /\ Ends(t, q) /\ log[t].rel = t /\ Filled(t, q)
    BY <1>4
  <2>3. slot(q) = slot(s)
    BY <2>2, GenerationLocation DEF Ends
  <2>4. q < begun
    BY <2>1, <2>2
  <2> QED BY <2>2, <2>3, <2>4
<1>5. CASE log[t].loc = TailWord \/ log[t].loc = ClosedFlag
  BY <1>5, GenerationLocation
<1> QED BY <1>1, <1>2, <1>3, <1>4, <1>5 DEF IsStoreOf, Tails, Closes

\* A store to a payload word wrote a message of that slot, after opening it.
LEMMA WordStore ==
  ASSUME ProducerInv, NEW t \in 1 .. Now, NEW s \in Nat, NEW w \in 1 .. Words, log[t].loc = Word(s, w)
  PROVE  \E q \in Nat : /\ slot(q) = slot(s) /\ q < begun /\ log[t].val = q
                        /\ log[t].rel \in 1 .. t /\ Opens(log[t].rel, q)
<1>1. IsStoreOf(t)
  BY DEF ProducerInv, Stores
<1>2. CASE \E q \in Nat : q < begun /\ (\E x \in 1 .. Words : Fills(t, q, x))
                          /\ log[t].rel \in 1 .. t /\ Opens(log[t].rel, q)
  <2>1. PICK q \in Nat : q < begun /\ (\E x \in 1 .. Words : Fills(t, q, x))
                          /\ log[t].rel \in 1 .. t /\ Opens(log[t].rel, q)
    BY <1>2
  <2>2. PICK x \in 1 .. Words : Fills(t, q, x)
    BY <2>1
  <2>3. x \in Nat /\ w \in Nat
    OBVIOUS
  <2>4. log[t].loc = Word(q, x) /\ log[t].val = q
    BY <2>2 DEF Fills
  <2>5. Word(q, x) = Word(s, w)
    BY <2>4
  <2>6. slot(q) = slot(s)
    BY <2>3, <2>5, WordLocation
  <2> QED BY <2>1, <2>4, <2>6
<1>3. CASE \E q \in Nat : log[t].loc = Generation(q)
  BY <1>3, GenerationLocation
<1>4. CASE log[t].loc = TailWord \/ log[t].loc = ClosedFlag
  <2>1. w \in Nat
    OBVIOUS
  <2> QED BY <1>4, <2>1, WordLocation
<1> QED BY <1>1, <1>2, <1>3, <1>4 DEF IsStoreOf, Opens, Ends, Tails, Closes

\* A store to the tail counted messages already written.
LEMMA TailStore ==
  ASSUME ProducerInv, NEW t \in 1 .. Now, log[t].loc = TailWord
  PROVE  /\ log[t].val \in Nat /\ log[t].val <= next_seq - unpublished /\ log[t].rel = t
         /\ \A q \in Nat : q < log[t].val => Written(t, q)
<1>1. IsStoreOf(t)
  BY DEF ProducerInv, Stores
<1>2. ASSUME NEW q \in Nat PROVE log[t].loc # Generation(q) /\ \A w \in 1 .. Words : log[t].loc # Word(q, w)
  <2>1. log[t].loc # Generation(q)
    BY GenerationLocation
  <2>2. ASSUME NEW w \in 1 .. Words PROVE log[t].loc # Word(q, w)
    <3>1. w \in Nat
      OBVIOUS
    <3> QED BY <3>1, WordLocation
  <2> QED BY <2>1, <2>2
<1>3. PICK v \in Nat : v <= next_seq - unpublished /\ Tails(t, v) /\ log[t].rel = t
                       /\ \A q \in Nat : q < v => Written(t, q)
  BY <1>1, <1>2, FlagLocation DEF IsStoreOf, Opens, Fills, Ends, Closes
<1> QED BY <1>3 DEF Tails

\* A store to the close flag came last, after every store to the tail.
LEMMA ClosedStore ==
  ASSUME ProducerInv, NEW t \in 1 .. Now, log[t].loc = ClosedFlag
  PROVE  log[t].rel = t /\ ppc = "closed" /\ \A u \in t .. Now : log[u].loc # TailWord
<1>1. IsStoreOf(t)
  BY DEF ProducerInv, Stores
<1>2. ASSUME NEW q \in Nat PROVE log[t].loc # Generation(q) /\ \A w \in 1 .. Words : log[t].loc # Word(q, w)
  <2>1. log[t].loc # Generation(q)
    BY GenerationLocation
  <2>2. ASSUME NEW w \in 1 .. Words PROVE log[t].loc # Word(q, w)
    <3>1. w \in Nat
      OBVIOUS
    <3> QED BY <3>1, WordLocation
  <2> QED BY <2>1, <2>2
<1> QED BY <1>1, <1>2, FlagLocation DEF IsStoreOf, Opens, Fills, Ends, Closes, Tails

\* The newest store to the tail is what `published` reads.
LEMMA TailIsPublished ==
  ASSUME Now \in Nat, NEW v, TailIs(v)
  PROVE  published = v
<1> DEFINE tails == {t \in 1 .. Now : log[t].loc = TailWord}
           newest == CHOOSE t \in tails : \A u \in tails : u <= t
<1>1. CASE tails = {}
  <2>1. v = 0
    BY <1>1 DEF TailIs, Tails
  <2> QED BY <1>1, <2>1 DEF published
<1>2. CASE tails # {}
  <2>1. PICK t \in 1 .. Now : Tails(t, v) /\ \A u \in t + 1 .. Now : log[u].loc # TailWord
    BY <1>2 DEF TailIs
  <2>2. t \in tails /\ \A u \in tails : u <= t
    BY <2>1 DEF Tails
  <2>3. newest \in tails /\ \A u \in tails : u <= newest
    BY <2>2, Zenon
  <2>4. newest = t
    BY <2>2, <2>3
  <2>5. published = log[newest].val
    BY <1>2 DEF published
  <2> QED BY <2>1, <2>4, <2>5 DEF Tails
<1> QED BY <1>1, <1>2

-----------------------------------------------------------------------------
(* The producer's steps *)

\* What later stores leave standing of an earlier one.
Grows ==
  /\ Now \in Nat /\ Now' \in Nat /\ Now <= Now'
  /\ \A t \in 1 .. Now : log'[t] = log[t]

\* What was written, overwritten or filled stays so.
LEMMA WrittenGrows ==
  ASSUME Grows, NEW k \in 0 .. Now, NEW j \in 0 .. Now', k <= j, NEW q \in Nat
  PROVE  /\ Written(k, q) => Written(j, q)'
         /\ Overwriting(k, q) => Overwriting(j, q)'
         /\ Filled(k, q) => Filled(j, q)'
<1>1. \A t \in 1 .. k : t \in 1 .. j /\ log'[t] = log[t]
  BY DEF Grows
<1>2. Written(k, q) => Written(j, q)'
  BY <1>1 DEF Written, Ends
<1>3. Overwriting(k, q) => Overwriting(j, q)'
  BY <1>1 DEF Overwriting
<1>4. Filled(k, q) => Filled(j, q)'
  BY <1>1 DEF Filled, Fills
<1> QED BY <1>2, <1>3, <1>4

\* An old store keeps its kind while the producer moves forward.
LEMMA StoreKept ==
  ASSUME Grows, Stores, NEW t \in 1 .. Now,
         begun \in Nat, begun' \in Nat, begun <= begun',
         next_seq \in Nat, next_seq' \in Nat, next_seq <= next_seq',
         NEW here \in Nat, here = next_seq - unpublished, NEW r \in Nat, r = next_seq' - unpublished', here <= r,
         ppc = "closed" => ppc' = "closed" /\ \A u \in Now + 1 .. Now' : log'[u].loc # TailWord
  PROVE  IsStoreOf(t)'
<1>1. IsStoreOf(t) /\ log'[t] = log[t]
  BY DEF Stores, Grows
<1>2. \A x \in 1 .. t : log'[x] = log[x]
  BY DEF Grows
<1>3. CASE \E q \in Nat : q < begun /\ Opens(t, q) /\ log[t].rel \in 0 .. t
  <2>1. PICK q \in Nat : q < begun /\ Opens(t, q) /\ log[t].rel \in 0 .. t
    BY <1>3
  <2>2. q < begun' /\ Opens(t, q)' /\ log'[t].rel \in 0 .. t
    BY <1>1, <2>1 DEF Opens
  <2> QED BY <2>2 DEF IsStoreOf
<1>4. CASE \E q \in Nat : q < begun /\ (\E w \in 1 .. Words : Fills(t, q, w))
                          /\ log[t].rel \in 1 .. t /\ Opens(log[t].rel, q)
  <2>1. PICK q \in Nat : q < begun /\ (\E w \in 1 .. Words : Fills(t, q, w))
                          /\ log[t].rel \in 1 .. t /\ Opens(log[t].rel, q)
    BY <1>4
  <2>2. q < begun' /\ (\E w \in 1 .. Words : Fills(t, q, w)') /\ log'[t].rel \in 1 .. t
    BY <1>1, <2>1 DEF Fills
  <2>3. Opens(log[t].rel, q)' /\ log'[t].rel = log[t].rel
    BY <1>1, <1>2, <2>1 DEF Opens
  <2>4. Opens(log[t].rel, q)'
    BY <1>1, <1>2, <2>1, <2>3 DEF Opens
  <2> QED BY <2>2, <2>3, <2>4 DEF IsStoreOf
<1>5. CASE \E q \in Nat : q < next_seq /\ Ends(t, q) /\ log[t].rel = t /\ Filled(t, q)
  <2>1. PICK q \in Nat : q < next_seq /\ Ends(t, q) /\ log[t].rel = t /\ Filled(t, q)
    BY <1>5
  <2>2. q < next_seq' /\ Ends(t, q)' /\ log'[t].rel = t
    BY <1>1, <2>1 DEF Ends
  <2>3. Filled(t, q)'
    BY <1>2, <2>1 DEF Filled, Fills
  <2> QED BY <2>2, <2>3 DEF IsStoreOf
<1>6. CASE \E v \in Nat : v <= next_seq - unpublished /\ Tails(t, v) /\ log[t].rel = t
                    /\ \A q \in Nat : q < v => Written(t, q)
  <2>1. PICK v \in Nat : v <= next_seq - unpublished /\ Tails(t, v) /\ log[t].rel = t
                    /\ \A q \in Nat : q < v => Written(t, q)
    BY <1>6
  <2>2. v <= next_seq' - unpublished' /\ Tails(t, v)' /\ log'[t].rel = t
    BY <1>1, <2>1 DEF Tails
  <2>3. \A q \in Nat : q < v => Written(t, q)'
    BY <1>2, <2>1 DEF Written, Ends
  <2> QED BY <2>2, <2>3 DEF IsStoreOf
<1>7. CASE Closes(t) /\ log[t].rel = t /\ ppc = "closed" /\ \A u \in t .. Now : log[u].loc # TailWord
  <2>1. Closes(t)' /\ log'[t].rel = t /\ ppc' = "closed"
    BY <1>1, <1>7 DEF Closes
  <2>2. ASSUME NEW u \in t .. Now' PROVE log'[u].loc # TailWord
    <3>1. CASE u <= Now
      BY <1>7, <3>1 DEF Grows
    <3>2. CASE u > Now
      <4>1. u \in Now + 1 .. Now'
        BY <3>2 DEF Grows
      <4> QED BY <1>7, <4>1
    <3> QED BY <3>1, <3>2 DEF Grows
  <2> QED BY <2>1, <2>2 DEF IsStoreOf
<1> QED BY <1>1, <1>3, <1>4, <1>5, <1>6, <1>7 DEF IsStoreOf

\* The stores rise if each new one rises above all before it.
LEMMA RisingKept ==
  ASSUME Grows, Rising,
         \A u \in Now + 1 .. Now' : \A t \in 1 .. u - 1 :
           /\ IsGeneration(t)' /\ IsGeneration(u)' => log'[t].val < log'[u].val
           /\ IsWord(t)' /\ IsWord(u)' => log'[t].val <= log'[u].val
           /\ log'[t].loc = TailWord /\ log'[u].loc = TailWord => log'[t].val <= log'[u].val
  PROVE  Rising'
<1> SUFFICES ASSUME NEW u \in 1 .. Now', NEW t \in 1 .. u - 1
             PROVE  /\ IsGeneration(t)' /\ IsGeneration(u)' => log'[t].val < log'[u].val
                    /\ IsWord(t)' /\ IsWord(u)' => log'[t].val <= log'[u].val
                    /\ log'[t].loc = TailWord /\ log'[u].loc = TailWord => log'[t].val <= log'[u].val
  BY DEF Rising
<1>1. CASE u > Now
  <2>1. u \in Now + 1 .. Now'
    BY <1>1 DEF Grows
  <2> QED BY <2>1
<1>2. CASE u <= Now
  <2>1. u \in 1 .. Now /\ t \in 1 .. Now
    BY <1>2 DEF Grows
  <2>2. log'[t] = log[t] /\ log'[u] = log[u]
    BY <2>1 DEF Grows
  <2>3. /\ IsGeneration(t) /\ IsGeneration(u) => log[t].val < log[u].val
        /\ IsWord(t) /\ IsWord(u) => log[t].val <= log[u].val
        /\ log[t].loc = TailWord /\ log[u].loc = TailWord => log[t].val <= log[u].val
    BY <2>1 DEF Rising
  <2>4. (IsGeneration(t)' <=> IsGeneration(t)) /\ (IsGeneration(u)' <=> IsGeneration(u))
    BY <2>2 DEF IsGeneration
  <2>5. (IsWord(t)' <=> IsWord(t)) /\ (IsWord(u)' <=> IsWord(u))
    BY <2>2 DEF IsWord
  <2> QED BY <2>2, <2>3, <2>4, <2>5
<1> QED BY <1>1, <1>2 DEF Grows

\* The tail stays what it is while nothing is stored to it.
LEMMA TailKept ==
  ASSUME Grows, NEW v, TailIs(v), \A u \in Now + 1 .. Now' : log'[u].loc # TailWord
  PROVE  TailIs(v)'
<1>1. \A u \in 1 .. Now' : u \in 1 .. Now \/ u \in Now + 1 .. Now'
  BY DEF Grows
<1>2. CASE v = 0 /\ \A t \in 1 .. Now : log[t].loc # TailWord
  BY <1>1, <1>2 DEF TailIs, Grows
<1>3. CASE \E t \in 1 .. Now : Tails(t, v) /\ \A u \in t + 1 .. Now : log[u].loc # TailWord
  <2>1. PICK t \in 1 .. Now : Tails(t, v) /\ \A u \in t + 1 .. Now : log[u].loc # TailWord
    BY <1>3
  <2>2. t \in 1 .. Now' /\ Tails(t, v)'
    BY <2>1 DEF Grows, Tails
  <2>3. \A u \in t + 1 .. Now' : u \in t + 1 .. Now \/ u \in Now + 1 .. Now'
    BY DEF Grows
  <2>4. \A u \in t + 1 .. Now : u \in 1 .. Now /\ log'[u] = log[u]
    BY DEF Grows
  <2>5. \A u \in t + 1 .. Now' : log'[u].loc # TailWord
    BY <2>1, <2>3, <2>4
  <2> QED BY <2>2, <2>5 DEF TailIs
<1> QED BY <1>2, <1>3 DEF TailIs

\* The same after a step.
LEMMA BegunIsNatAfter ==
  ASSUME ProducerType'
  PROVE  begun' \in Nat /\ next_seq' \in Nat /\ next_seq' - unpublished' \in Nat
<1>1. PICK n \in Nat : next_seq' = n
  BY DEF ProducerType
<1>2. PICK u \in 0 .. n : unpublished' = u
  BY <1>1 DEF ProducerType
<1>3. begun' \in Nat
  BY <1>1 DEF begun
<1> QED BY <1>1, <1>2, <1>3

\* A step that appends one store of a kind, above those before it.
LEMMA AfterStore ==
  ASSUME ProducerInv, ProducerType', Grows, NEW k \in Nat, k = Now + 1, Now' = k,
         begun <= begun', next_seq <= next_seq', next_seq - unpublished <= (next_seq - unpublished)',
         ppc # "closed", IsStoreOf(k)',
         \A t \in 1 .. Now :
           /\ IsGeneration(t) /\ IsGeneration(k)' => log[t].val < log'[k].val
           /\ log[t].loc = TailWord /\ log'[k].loc = TailWord => log[t].val <= log'[k].val,
         ~IsWord(k)'
  PROVE  Stores' /\ Rising'
<1>1. Now \in Nat /\ \A u \in Now + 1 .. Now' : u = k
  BY DEF Grows
<1>2. Stores'
  <2>1. ASSUME NEW t \in 1 .. Now PROVE IsStoreOf(t)'
    <3>0. ProducerType
      BY DEF ProducerInv
    <3>1. PICK here \in Nat : here = next_seq - unpublished /\ begun \in Nat /\ next_seq \in Nat
      BY <3>0, BegunIsNat, Zenon
    <3>2. PICK r \in Nat : r = next_seq' - unpublished' /\ begun' \in Nat /\ next_seq' \in Nat
      BY BegunIsNatAfter, Zenon
    <3>3. here <= r
      BY <3>1, <3>2, Zenon
    <3>4. Stores
      BY DEF ProducerInv
    <3> QED BY <1>1, <3>1, <3>2, <3>3, <3>4, StoreKept
  <2>2. \A t \in 1 .. Now' : t \in 1 .. Now \/ t = k
    BY <1>1
  <2> QED BY <2>1, <2>2 DEF Stores
<1>3. Rising'
  <2>1. ASSUME NEW u \in Now + 1 .. Now', NEW t \in 1 .. u - 1
        PROVE  /\ IsGeneration(t)' /\ IsGeneration(u)' => log'[t].val < log'[u].val
               /\ IsWord(t)' /\ IsWord(u)' => log'[t].val <= log'[u].val
               /\ log'[t].loc = TailWord /\ log'[u].loc = TailWord => log'[t].val <= log'[u].val
    <3>1. u = k /\ t \in 1 .. Now
      BY <1>1
    <3>2. log'[t] = log[t]
      BY <3>1 DEF Grows
    <3>3. IsGeneration(t)' <=> IsGeneration(t)
      BY <3>2 DEF IsGeneration
    <3> QED BY <3>1, <3>2, <3>3
  <2>2. Rising
    BY DEF ProducerInv
  <2> QED BY <2>1, <2>2, RisingKept
<1> QED BY <1>2, <1>3

\* What the log holds of the messages published stays there.
LEMMA WrittenKept ==
  ASSUME ProducerInv, Grows, NEW q \in Nat, q < next_seq
  PROVE  Written(Now, q)'
<1>1. Written(Now, q)
  BY DEF ProducerInv, InHand
<1>2. PICK a \in Nat, b \in Nat : a = Now /\ b = Now' /\ a \in 0 .. Now /\ b \in 0 .. Now' /\ a <= b
  BY DEF Grows
<1>3. Written(b, q)'
  BY <1>1, <1>2, WrittenGrows
<1> QED BY <1>2, <1>3 DEF Written

\* push, first store: the message's odd generation, above all that came before.
LEMMA InvalidateStep ==
  ASSUME BroadcastAssumption, ProducerInv, Invalidate
  PROVE  ProducerInv' /\ Grows
<1>1. PICK n \in Nat : n = next_seq
  BY DEF ProducerInv, ProducerType
<1>2. n < MaxSeq /\ begun = n /\ begun' = n + 1 /\ next_seq' = n /\ unpublished' = unpublished
  BY <1>1 DEF Invalidate, begun
<1>3. ProducerType
  BY DEF ProducerInv
<1>4. log \in Seq(Store) /\ fenced \in Nat /\ Now \in Nat
  BY <1>3 DEF ProducerType, Now
<1>5. PICK k \in Nat : k = Now + 1
  BY <1>4
<1>6. Relaxed(Generation(n), 2 * n + 1) \in Store
  BY <1>4 DEF Relaxed, Store, Locations
<1>7. /\ log' \in Seq(Store) /\ Now' = k
      /\ \A t \in 1 .. Now : log'[t] = log[t]
      /\ log'[k] = Relaxed(Generation(n), 2 * n + 1)
  BY <1>1, <1>4, <1>5, <1>6, OneStore DEF Invalidate
<1>8. /\ log'[k].loc = Generation(n) /\ log'[k].val = 2 * n + 1 /\ log'[k].rel = fenced
      /\ Opens(k, n)'
  BY <1>7 DEF Opens, Relaxed
<1>9. fenced' = k
  BY <1>7 DEF Invalidate, Now
<1>10. Grows
  BY <1>4, <1>5, <1>7 DEF Grows
<1>11. ProducerType'
  <2>1. fenced' \in 0 .. Now'
    BY <1>7, <1>9
  <2>2. begun' <= MaxSeq
    BY <1>2, Sizes
  <2>3. UNCHANGED <<next_seq, unpublished, tail_batch>> /\ ppc = "idle" /\ ppc' = "payload"
    BY DEF Invalidate
  <2> QED BY <1>3, <1>7, <2>1, <2>2, <2>3 DEF ProducerType, MaxBatch
<1>12. log'[k].loc # TailWord /\ ~IsWord(k)'
  BY <1>8, GenerationLocation DEF IsWord
<1>13. Stores' /\ Rising'
  <2>1. IsStoreOf(k)'
    <3>1. log'[k].rel \in 0 .. k
      BY <1>3, <1>4, <1>5, <1>8 DEF ProducerType
    <3>2. n < begun'
      BY <1>2
    <3> QED BY <1>8, <3>1, <3>2 DEF IsStoreOf
  <2>2. ASSUME NEW t \in 1 .. Now, IsGeneration(t) PROVE log[t].val < log'[k].val
    <3>1. PICK s \in Nat : log[t].loc = Generation(s)
      BY <2>2 DEF IsGeneration
    <3>2. PICK q \in Nat : q < begun /\ (Opens(t, q) \/ Ends(t, q))
      BY <3>1, GenerationStore
    <3> QED BY <1>2, <1>8, <3>2 DEF Opens, Ends
  <2>3. begun <= begun' /\ next_seq <= next_seq' /\ next_seq - unpublished <= (next_seq - unpublished)' /\ ppc # "closed"
    BY <1>1, <1>2, BegunIsNat DEF ProducerInv, Invalidate
  <2> QED BY <1>5, <1>7, <1>10, <1>11, <1>12, <2>1, <2>2, <2>3, AfterStore
<1>14. InHand'
  <2>1. Opens(fenced, next_seq)' /\ fenced' \in 1 .. Now'
    <3>1. fenced' \in 1 .. Now'
      BY <1>4, <1>5, <1>7, <1>9
    <3>2. (log[fenced].loc = Generation(next_seq) /\ log[fenced].val = 2 * next_seq + 1)'
      BY <1>2, <1>8, <1>9 DEF Generation, slot
    <3> QED BY <3>1, <3>2 DEF Opens
  <2>2. ASSUME NEW q \in Nat, q < next_seq' PROVE Written(Now, q)'
    BY <1>1, <1>2, <1>10, <2>2, WrittenKept
  <2>3. ppc' = "payload"
    BY DEF Invalidate
  <2> QED BY <2>1, <2>2, <2>3 DEF InHand
<1>15. TailIs(next_seq - unpublished)'
  <2>1. PICK v : v = next_seq - unpublished
    OBVIOUS
  <2>2. v = next_seq' - unpublished' /\ TailIs(v)
    BY <1>1, <1>2, <2>1 DEF ProducerInv
  <2>3. \A u \in Now + 1 .. Now' : u = k
    BY <1>4, <1>5, <1>7
  <2>4. TailIs(v)'
    BY <1>10, <1>12, <2>2, <2>3, TailKept
  <2> QED BY <2>2, <2>4
<1> QED BY <1>10, <1>11, <1>13, <1>14, <1>15 DEF ProducerInv

\* push, the payload: every word, after the fence that followed its opening.
LEMMA WritePayloadStep ==
  ASSUME BroadcastAssumption, ProducerInv, WritePayload
  PROVE  ProducerInv' /\ Grows
<1>1. PICK n \in Nat : n = next_seq
  BY DEF ProducerInv, ProducerType
<1>2. begun = n + 1 /\ begun' = n + 1 /\ next_seq' = n /\ ppc = "payload" /\ ppc' = "publish"
  BY <1>1 DEF WritePayload, begun
<1>3. ProducerType
  BY DEF ProducerInv
<1>4. log \in Seq(Store) /\ fenced \in Nat
  BY <1>3 DEF ProducerType, Now
<1>5. PICK f \in 1 .. Now : f = fenced /\ Opens(f, n)
  BY <1>1, <1>2 DEF ProducerInv, InHand
<1>6. log' = log \o Payloads(n)
  BY <1>1 DEF WritePayload, Payloads
<1>7. PICK k \in Nat : k = Now
  BY <1>3, BegunIsNat
<1>8. /\ log' \in Seq(Store) /\ Now' = k + Words
      /\ \A t \in 1 .. k : log'[t] = log[t]
      /\ \A w \in 1 .. Words : log'[k + w] = Relaxed(Word(n, w), n)
  BY <1>4, <1>6, <1>7, WordStores
<1>9. Words \in Nat
  BY Sizes
<1>10. Grows
  BY <1>7, <1>8, <1>9 DEF Grows
<1>11. \A u \in k + 1 .. k + Words : \E w \in 1 .. Words : u = k + w
  <2>1. ASSUME NEW u \in k + 1 .. k + Words PROVE u - k \in 1 .. Words /\ u = k + (u - k)
    BY <1>9
  <2> QED BY <2>1
<1>12. ASSUME NEW u \in k + 1 .. k + Words
       PROVE  /\ \E w \in 1 .. Words : Fills(u, n, w)'
              /\ log'[u].val = n /\ log'[u].rel = f
              /\ ~IsGeneration(u)' /\ log'[u].loc # TailWord
  <2>1. PICK w \in 1 .. Words : u = k + w
    BY <1>11
  <2>2. log'[u] = Relaxed(Word(n, w), n)
    BY <1>8, <2>1
  <2>3. log'[u].loc = Word(n, w) /\ log'[u].val = n /\ log'[u].rel = f
    BY <1>5, <2>2 DEF Relaxed
  <2>4. w \in Nat
    OBVIOUS
  <2>5. log'[u].loc # TailWord
    BY <2>3, <2>4, WordLocation
  <2>6. ASSUME NEW q \in Nat PROVE log'[u].loc # Generation(q)
    BY <2>3, GenerationLocation
  <2> QED BY <2>3, <2>5, <2>6 DEF Fills, IsGeneration
<1>13. ProducerType'
  <2>1. fenced' \in 0 .. Now' /\ begun' <= MaxSeq
    <3>1. fenced' = f
      BY <1>5 DEF WritePayload
    <3>2. begun <= MaxSeq
      BY <1>3 DEF ProducerType
    <3> QED BY <1>2, <1>5, <1>7, <1>8, <1>9, <3>1, <3>2
  <2>2. UNCHANGED <<next_seq, unpublished, tail_batch>>
    BY DEF WritePayload
  <2> QED BY <1>2, <1>3, <1>8, <2>1, <2>2 DEF ProducerType, MaxBatch
<1>14. UNCHANGED <<next_seq, unpublished>>
  BY DEF WritePayload
<1>15. Stores'
  <2>1. ASSUME NEW t \in 1 .. Now PROVE IsStoreOf(t)'
    <3>1. PICK here \in Nat : here = next_seq - unpublished
      BY <1>3, BegunIsNat
    <3>2. here = next_seq' - unpublished' /\ here <= here /\ n + 1 \in Nat /\ n + 1 <= n + 1 /\ n <= n
      BY <1>14, <3>1
    <3>3. Stores
      BY DEF ProducerInv
    <3> QED BY <1>1, <1>2, <1>10, <3>1, <3>2, <3>3, StoreKept
  <2>2. ASSUME NEW u \in k + 1 .. k + Words PROVE IsStoreOf(u)'
    <3>1. n < begun' /\ \E w \in 1 .. Words : Fills(u, n, w)'
      BY <1>2, <1>12
    <3>2. log'[u].rel = f /\ f \in 1 .. u
      BY <1>7, <1>12
    <3>3. Opens(f, n)'
      BY <1>5, <1>7, <1>8 DEF Opens
    <3>4. Opens(log[u].rel, n)'
      BY <3>2, <3>3 DEF Opens
    <3> QED BY <3>1, <3>2, <3>4 DEF IsStoreOf
  <2>3. \A t \in 1 .. Now' : t \in 1 .. Now \/ t \in k + 1 .. k + Words
    BY <1>7, <1>8, <1>9
  <2> QED BY <2>1, <2>2, <2>3 DEF Stores
<1>16. Rising'
  <2>1. ASSUME NEW u \in k + 1 .. k + Words, NEW t \in 1 .. u - 1
        PROVE  /\ ~IsGeneration(u)' /\ log'[u].loc # TailWord
               /\ IsWord(t)' => log'[t].val <= log'[u].val
    <3>1. CASE t \in k + 1 .. k + Words
      BY <1>12, <3>1
    <3>2. CASE t \in 1 .. k
      <4>1. ASSUME IsWord(t)' PROVE log'[t].val <= n
        <5>1. log'[t] = log[t] /\ t \in 1 .. Now
          BY <1>7, <1>8, <3>2
        <5>2. PICK s \in Nat, w \in 1 .. Words : log[t].loc = Word(s, w)
          BY <4>1, <5>1 DEF IsWord
        <5>3. PICK q \in Nat : q < begun /\ log[t].val = q
          BY <5>1, <5>2, WordStore
        <5> QED BY <1>2, <5>1, <5>3
      <4> QED BY <1>12, <4>1
    <3> QED BY <1>9, <3>1, <3>2
  <2>2. Rising
    BY DEF ProducerInv
  <2> QED BY <1>7, <1>8, <1>10, <2>1, <2>2, RisingKept
<1>17. InHand'
  <2>1. ASSUME NEW q \in Nat, q < next_seq' PROVE Written(Now, q)'
    BY <1>1, <1>2, <1>10, <2>1, WrittenKept
  <2>2. ASSUME NEW w \in 1 .. Words PROVE \E t \in 1 .. k + Words : Fills(t, n, w)'
    <3>1. k + w \in 1 .. k + Words /\ log'[k + w] = Relaxed(Word(n, w), n)
      BY <1>8, <1>9
    <3> QED BY <3>1 DEF Fills, Relaxed
  <2>3. Filled(k + Words, n)'
    BY <2>2 DEF Filled
  <2>4. Filled(Now, next_seq)'
    BY <1>2, <1>8, <2>3, Zenon DEF Filled, Fills
  <2> QED BY <1>2, <2>1, <2>4 DEF InHand
<1>18. TailIs(next_seq - unpublished)'
  <2>1. PICK v : v = next_seq - unpublished
    OBVIOUS
  <2>2. v = next_seq' - unpublished' /\ TailIs(v)
    BY <1>14, <2>1 DEF ProducerInv
  <2>3. \A u \in Now + 1 .. Now' : log'[u].loc # TailWord
    BY <1>7, <1>8, <1>12
  <2>4. TailIs(v)'
    BY <1>10, <2>2, <2>3, TailKept
  <2> QED BY <2>2, <2>4
<1> QED BY <1>10, <1>13, <1>15, <1>16, <1>17, <1>18 DEF ProducerInv

\* push, last store: the message's even generation.
LEMMA PublishSlotStep ==
  ASSUME BroadcastAssumption, ProducerInv, PublishSlot
  PROVE  ProducerInv' /\ Grows /\ begun' = begun
<1>1. PICK n \in Nat : n = next_seq
  BY DEF ProducerInv, ProducerType
<1>2. PICK d \in 0 .. n : d = unpublished
  BY <1>1 DEF ProducerInv, ProducerType
<1>3. /\ begun = n + 1 /\ begun' = n + 1 /\ next_seq' = n + 1 /\ unpublished' = d + 1
      /\ ppc = "publish" /\ ppc' = IF d + 1 >= tail_batch THEN "frontier" ELSE "idle"
  BY <1>1, <1>2 DEF PublishSlot, begun
<1>4. ProducerType
  BY DEF ProducerInv
<1>5. log \in Seq(Store) /\ Now \in Nat
  BY <1>4 DEF ProducerType, Now
<1>6. PICK k \in Nat : k = Now + 1
  BY <1>5
<1>7. Release(Generation(n), 2 * n + 2) = [loc |-> Generation(n), val |-> 2 * n + 2, rel |-> k]
  BY <1>6 DEF Release, Now
<1>8. Release(Generation(n), 2 * n + 2) \in Store
  BY <1>7 DEF Store, Locations
<1>9. /\ log' \in Seq(Store) /\ Now' = k
      /\ \A t \in 1 .. Now : log'[t] = log[t]
      /\ log'[k] = Release(Generation(n), 2 * n + 2)
  BY <1>1, <1>5, <1>6, <1>8, OneStore DEF PublishSlot
<1>10. /\ log'[k].loc = Generation(n) /\ log'[k].val = 2 * n + 2 /\ log'[k].rel = k
       /\ Ends(k, n)'
  BY <1>7, <1>9 DEF Ends
<1>11. Grows
  BY <1>5, <1>6, <1>9 DEF Grows
<1>12. ProducerType'
  <2>1. fenced' \in 0 .. Now'
    <3>1. PICK f \in 0 .. Now : fenced = f
      BY <1>4 DEF ProducerType
    <3>2. fenced' = f
      BY <3>1 DEF PublishSlot
    <3>3. f \in 0 .. k
      BY <1>5, <1>6
    <3> QED BY <1>9, <3>2, <3>3
  <2>2. begun' <= MaxSeq
    BY <1>3, <1>4 DEF ProducerType
  <2>3. tail_batch' = tail_batch
    BY DEF PublishSlot
  <2>4. tail_batch \in 1 .. MaxBatch
    BY <1>4 DEF ProducerType
  <2>5. MaxBatch \in Nat
    BY Sizes
  <2>6. d + 1 \in 0 .. n + 1 /\ n + 1 \in Nat /\ d + 1 > 0 /\ (~(d + 1 >= tail_batch) => d + 1 < tail_batch)
    BY <2>4, <2>5
  <2> QED BY <1>3, <1>9, <2>1, <2>2, <2>3, <2>4, <2>6 DEF ProducerType, MaxBatch
<1>13. log'[k].loc # TailWord /\ ~IsWord(k)'
  BY <1>10, GenerationLocation DEF IsWord
<1>14. Stores' /\ Rising'
  <2>1. IsStoreOf(k)'
    <3>1. Filled(k, n)'
      <4>1. Filled(Now, n)
        BY <1>1, <1>3 DEF ProducerInv, InHand
      <4>2. PICK a \in 0 .. Now : a = Now
        BY <1>5
      <4>3. k \in 0 .. Now' /\ a <= k
        BY <1>5, <1>6, <1>9, <4>2
      <4>4. Filled(a, n)
        BY <4>1, <4>2
      <4> QED BY <1>11, <4>3, <4>4, WrittenGrows
    <3>2. n < next_seq'
      BY <1>3
    <3> QED BY <1>10, <3>1, <3>2 DEF IsStoreOf
  <2>2. ASSUME NEW t \in 1 .. Now, IsGeneration(t) PROVE log[t].val < log'[k].val
    <3>1. PICK s \in Nat : log[t].loc = Generation(s)
      BY <2>2 DEF IsGeneration
    <3>2. PICK q \in Nat : /\ slot(q) = slot(s) /\ q < begun
                           /\ \/ Opens(t, q) /\ log[t].rel \in 0 .. t
                              \/ q < next_seq /\ Ends(t, q) /\ log[t].rel = t /\ Filled(t, q)
      BY <3>1, GenerationStore
    <3>3. CASE Opens(t, q)
      <4>1. q < n + 1 /\ log[t].val = 2 * q + 1
        BY <1>3, <3>2, <3>3 DEF Opens
      <4> QED BY <1>10, <4>1
    <3>4. CASE q < next_seq /\ Ends(t, q)
      <4>1. q < n /\ log[t].val = 2 * q + 2
        BY <1>1, <3>4 DEF Ends
      <4> QED BY <1>10, <4>1
    <3> QED BY <3>2, <3>3, <3>4
  <2>3. begun <= begun' /\ next_seq <= next_seq' /\ next_seq - unpublished <= (next_seq - unpublished)' /\ ppc # "closed"
    BY <1>1, <1>2, <1>3
  <2> QED BY <1>6, <1>9, <1>11, <1>12, <1>13, <2>1, <2>2, <2>3, AfterStore
<1>15. InHand'
  <2>1. ASSUME NEW q \in Nat, q < n + 1 PROVE Written(Now, q)'
    <3>1. CASE q < n
      BY <1>1, <1>11, <3>1, WrittenKept
    <3>2. CASE q = n
      <4>1. Written(k, q)'
        BY <1>6, <1>5, <1>10, <3>2 DEF Written
      <4> QED BY <1>9, <4>1 DEF Written
    <3> QED BY <2>1, <3>1, <3>2
  <2>2. ppc' \notin {"payload", "publish"}
    BY <1>3
  <2> QED BY <1>3, <2>1, <2>2 DEF InHand
<1>16. TailIs(next_seq - unpublished)'
  <2>1. PICK v : v = n - d
    OBVIOUS
  <2>2. TailIs(v)
    BY <1>1, <1>2, <2>1 DEF ProducerInv
  <2>3. \A u \in Now + 1 .. Now' : u = k
    BY <1>5, <1>6, <1>9
  <2>4. TailIs(v)'
    BY <1>11, <1>13, <2>2, <2>3, TailKept
  <2>5. next_seq' - unpublished' = v
    BY <1>3, <2>1
  <2> QED BY <2>4, <2>5
<1> QED BY <1>3, <1>11, <1>12, <1>14, <1>15, <1>16 DEF ProducerInv

\* publish_tail, from whichever step makes it: the tail passes all messages.
LEMMA TailStep ==
  ASSUME BroadcastAssumption, ProducerInv, publish_tail, UNCHANGED <<fenced, next_seq>>,
         ppc \in {"idle", "frontier"}, ppc' \in {"idle", "closing"}, tail_batch' \in 1 .. MaxBatch
  PROVE  ProducerInv' /\ Grows /\ begun' = begun
<1>1. PICK n \in Nat : n = next_seq
  BY DEF ProducerInv, ProducerType
<1>2. PICK d \in 0 .. n : d = unpublished
  BY <1>1 DEF ProducerInv, ProducerType
<1>3. begun = n /\ begun' = n /\ next_seq' = n /\ unpublished' = 0
  BY <1>1 DEF publish_tail, begun
<1>4. ProducerType
  BY DEF ProducerInv
<1>5. log \in Seq(Store) /\ Now \in Nat
  BY <1>4 DEF ProducerType, Now
<1>6. PICK k \in Nat : k = Now + 1
  BY <1>5
<1>7. Release(TailWord, n) = [loc |-> TailWord, val |-> n, rel |-> k]
  BY <1>6 DEF Release, Now
<1>8. Release(TailWord, n) \in Store
  BY <1>7 DEF Store, Locations
<1>9. /\ log' \in Seq(Store) /\ Now' = k
      /\ \A t \in 1 .. Now : log'[t] = log[t]
      /\ log'[k] = Release(TailWord, n)
  BY <1>1, <1>5, <1>6, <1>8, OneStore DEF publish_tail
<1>10. log'[k].loc = TailWord /\ log'[k].val = n /\ log'[k].rel = k /\ Tails(k, n)'
  BY <1>7, <1>9 DEF Tails
<1>11. Grows
  BY <1>5, <1>6, <1>9 DEF Grows
<1>12. ProducerType'
  <2>1. fenced' \in 0 .. Now'
    BY <1>4, <1>5, <1>6, <1>9 DEF ProducerType
  <2>2. begun' <= MaxSeq
    BY <1>3, <1>4 DEF ProducerType
  <2>3. MaxBatch \in Nat
    BY Sizes
  <2>4. 0 \in 0 .. n /\ 0 < tail_batch'
    BY <2>3
  <2> QED BY <1>3, <1>9, <2>1, <2>2, <2>4 DEF ProducerType, MaxBatch
<1>13. ~IsGeneration(k)' /\ ~IsWord(k)'
  <2>1. ~IsGeneration(k)'
    BY <1>10, GenerationLocation DEF IsGeneration
  <2>2. ASSUME NEW q \in Nat, NEW w \in 1 .. Words PROVE Word(q, w) # TailWord
    <3>1. w \in Nat
      OBVIOUS
    <3> QED BY <3>1, WordLocation
  <2> QED BY <1>10, <2>1, <2>2 DEF IsWord
<1>14. ASSUME NEW q \in Nat, q < n PROVE Written(k, q)'
  <2>1. Written(Now, q)'
    BY <1>1, <1>11, <1>14, WrittenKept
  <2> QED BY <1>9, <2>1 DEF Written
<1>15. Stores' /\ Rising'
  <2>1. IsStoreOf(k)'
    <3>1. n <= next_seq' - unpublished'
      BY <1>3
    <3> QED BY <1>10, <1>14, <3>1 DEF IsStoreOf
  <2>2. ASSUME NEW t \in 1 .. Now, log[t].loc = TailWord PROVE log[t].val <= log'[k].val
    <3>1. log[t].val \in Nat /\ log[t].val <= n - d
      BY <1>1, <1>2, <2>2, TailStore
    <3> QED BY <1>10, <3>1
  <2>3. begun <= begun' /\ next_seq <= next_seq' /\ next_seq - unpublished <= (next_seq - unpublished)' /\ ppc # "closed"
    BY <1>1, <1>2, <1>3
  <2> QED BY <1>6, <1>9, <1>11, <1>12, <1>13, <2>1, <2>2, <2>3, AfterStore
<1>16. InHand'
  <2>1. ASSUME NEW q \in Nat, q < n PROVE Written(Now, q)'
    BY <1>9, <1>14, <2>1 DEF Written
  <2> QED BY <1>3, <2>1 DEF InHand
<1>17. TailIs(next_seq - unpublished)'
  <2>1. k \in 1 .. Now' /\ \A u \in k + 1 .. Now' : FALSE
    BY <1>5, <1>6, <1>9
  <2>2. TailIs(n)'
    BY <1>10, <2>1 DEF TailIs
  <2>3. next_seq' - unpublished' = n
    BY <1>3
  <2> QED BY <2>2, <2>3
<1> QED BY <1>3, <1>11, <1>12, <1>15, <1>16, <1>17 DEF ProducerInv

\* Producer::drop, last store: the close flag, after which there is none.
LEMMA StoreClosedStep ==
  ASSUME BroadcastAssumption, ProducerInv, StoreClosed
  PROVE  ProducerInv' /\ Grows /\ begun' = begun
<1>1. PICK n \in Nat : n = next_seq
  BY DEF ProducerInv, ProducerType
<1>2. begun = n /\ begun' = n /\ next_seq' = n /\ unpublished = 0 /\ unpublished' = 0 /\ ppc' = "closed" /\ ppc = "closing"
  BY <1>1 DEF StoreClosed, begun, ProducerInv, ProducerType
<1>3. ProducerType
  BY DEF ProducerInv
<1>4. log \in Seq(Store) /\ Now \in Nat
  BY <1>3 DEF ProducerType, Now
<1>5. PICK k \in Nat : k = Now + 1
  BY <1>4
<1>6. Release(ClosedFlag, 1) = [loc |-> ClosedFlag, val |-> 1, rel |-> k]
  BY <1>5 DEF Release, Now
<1>7. Release(ClosedFlag, 1) \in Store
  BY <1>6 DEF Store, Locations
<1>8. /\ log' \in Seq(Store) /\ Now' = k
      /\ \A t \in 1 .. Now : log'[t] = log[t]
      /\ log'[k] = Release(ClosedFlag, 1)
  BY <1>4, <1>5, <1>7, OneStore DEF StoreClosed
<1>9. log'[k].loc = ClosedFlag /\ log'[k].rel = k /\ Closes(k)' /\ log'[k].loc # TailWord
  BY <1>6, <1>8, FlagLocation DEF Closes
<1>10. Grows
  BY <1>4, <1>5, <1>8 DEF Grows
<1>11. ProducerType'
  <2>1. fenced' \in 0 .. Now' /\ begun' <= MaxSeq
    BY <1>2, <1>3, <1>4, <1>5, <1>8 DEF ProducerType, StoreClosed
  <2>2. UNCHANGED tail_batch
    BY DEF StoreClosed
  <2> QED BY <1>2, <1>3, <1>8, <2>1, <2>2 DEF ProducerType, MaxBatch
<1>12. ~IsGeneration(k)' /\ ~IsWord(k)'
  <2>1. ~IsGeneration(k)'
    BY <1>9, GenerationLocation DEF IsGeneration
  <2>2. ASSUME NEW q \in Nat, NEW w \in 1 .. Words PROVE Word(q, w) # ClosedFlag
    <3>1. w \in Nat
      OBVIOUS
    <3> QED BY <3>1, WordLocation
  <2> QED BY <1>9, <2>1, <2>2 DEF IsWord
<1>13. Stores' /\ Rising'
  <2>1. IsStoreOf(k)'
    <3>1. \A u \in k .. Now' : u = k
      BY <1>8
    <3> QED BY <1>2, <1>9, <3>1 DEF IsStoreOf
  <2>2. begun <= begun' /\ next_seq <= next_seq' /\ next_seq - unpublished <= (next_seq - unpublished)' /\ ppc # "closed"
    BY <1>1, <1>2
  <2> QED BY <1>5, <1>8, <1>9, <1>10, <1>11, <1>12, <2>1, <2>2, AfterStore
<1>14. InHand'
  <2>1. ASSUME NEW q \in Nat, q < n PROVE Written(Now, q)'
    BY <1>1, <1>10, <2>1, WrittenKept
  <2> QED BY <1>2, <2>1 DEF InHand
<1>15. TailIs(next_seq - unpublished)'
  <2>1. PICK v : v = next_seq - unpublished
    OBVIOUS
  <2>2. next_seq' - unpublished' = v /\ TailIs(v)
    BY <1>1, <1>2, <2>1 DEF ProducerInv
  <2>3. \A u \in Now + 1 .. Now' : u = k
    BY <1>4, <1>5, <1>8
  <2>4. TailIs(v)'
    BY <1>9, <1>10, <2>2, <2>3, TailKept
  <2> QED BY <2>2, <2>4
<1> QED BY <1>2, <1>10, <1>11, <1>13, <1>14, <1>15 DEF ProducerInv

\* A step of the producer without a store: the batch is set, or a drop begins
\* with nothing owed.
LEMMA StorelessStep ==
  ASSUME BroadcastAssumption, ProducerInv, UNCHANGED <<log, fenced, next_seq, unpublished>>,
         \/ UNCHANGED <<ppc, tail_batch>>
         \/ /\ ppc = "idle" /\ ppc' \in {"idle", "closing"} /\ tail_batch' \in 1 .. MaxBatch
            /\ unpublished < tail_batch' /\ (ppc' = "closing" => unpublished = 0)
  PROVE  ProducerInv' /\ Grows /\ begun' = begun
<1>1. Now' = Now /\ begun' = begun /\ (ppc = "closed" => ppc' = "closed")
      /\ (ppc' = "payload" <=> ppc = "payload") /\ (ppc' = "publish" <=> ppc = "publish")
  BY DEF Now, begun
<1>2. ProducerType'
  BY <1>1 DEF ProducerInv, ProducerType, MaxBatch
<1>3. Grows
  BY <1>1, BegunIsNat DEF Grows, ProducerInv
<1>4. Stores'
  <2>1. ASSUME NEW t \in 1 .. Now PROVE IsStoreOf(t)'
    <3>1. IsStoreOf(t)
      BY DEF ProducerInv, Stores
    <3> QED BY <1>1, <3>1 DEF IsStoreOf, Opens, Fills, Ends, Tails, Closes, Written, Filled
  <2> QED BY <1>1, <2>1 DEF Stores
<1>5. Rising'
  BY <1>1 DEF ProducerInv, Rising, IsGeneration, IsWord
<1>6. InHand'
  BY <1>1 DEF ProducerInv, InHand, Opens, Filled, Fills, Written, Ends
<1>7. TailIs(next_seq - unpublished)'
  BY <1>1 DEF ProducerInv, TailIs, Tails
<1> QED BY <1>1, <1>2, <1>3, <1>4, <1>5, <1>6, <1>7 DEF ProducerInv

-----------------------------------------------------------------------------
(* What a load tells the consumer *)

\* What a store makes known lies in its past.
LEMMA RelIsPast ==
  ASSUME ProducerInv, NEW t \in 1 .. Now
  PROVE  log[t].rel \in 0 .. t
<1>1. IsStoreOf(t) /\ Now \in Nat
  BY BegunIsNat DEF ProducerInv, Stores
<1> QED BY <1>1 DEF IsStoreOf

\* A load adds to what is known, up to the store it read.
LEMMA WithBounds ==
  ASSUME ProducerInv, NEW k \in 0 .. Now, NEW t \in 0 .. Now
  PROVE  /\ With(k, t) \in k .. Now
         /\ t # 0 => With(k, t) >= log[t].rel
<1>1. Now \in Nat
  BY BegunIsNat DEF ProducerInv
<1>2. CASE t = 0
  BY <1>1, <1>2 DEF With
<1>3. CASE t # 0
  <2>1. log[t].rel \in 0 .. t
    BY <1>1, <1>3, RelIsPast
  <2>2. PICK r \in 0 .. t : r = log[t].rel
    BY <2>1
  <2>3. With(k, t) = IF r <= k THEN k ELSE r
    BY <1>3, <2>2 DEF With
  <2> QED BY <1>1, <2>2, <2>3
<1> QED BY <1>2, <1>3

\* Knowing more, a consumer knows no less.
LEMMA KnownGrows ==
  ASSUME NEW k \in Nat, NEW j \in Nat, k <= j, NEW q \in Nat
  PROVE  (Written(k, q) => Written(j, q)) /\ (Overwriting(k, q) => Overwriting(j, q))
<1>1. \A t \in 1 .. k : t \in 1 .. j
  OBVIOUS
<1> QED BY <1>1 DEF Written, Overwriting

\* A load never goes back past a store the consumer knows of.
LEMMA LoadIsLater ==
  ASSUME ProducerInv, view \in 0 .. Now, NEW loc, NEW t \in Visible(loc),
         NEW u \in 1 .. view, log[u].loc = loc
  PROVE  t \in u .. Now /\ t \in 1 .. Now /\ log[t].loc = loc
<1>1. Now \in Nat
  BY BegunIsNat DEF ProducerInv
<1>2. t \in 0 .. Now /\ IsStore(t, loc) /\ \A x \in t + 1 .. view : log[x].loc # loc
  BY DEF Visible
<1>3. t >= u
  BY <1>1, <1>2
<1> QED BY <1>1, <1>2, <1>3 DEF IsStore

\* The generation of a message the consumer knows to be written is its even
\* one, or that of a message a whole ring or more ahead.
LEMMA GenerationLoad ==
  ASSUME BroadcastAssumption, ProducerInv, view \in 0 .. Now, NEW s \in Nat, Written(view, s),
         NEW t \in Visible(Generation(s))
  PROVE  /\ t \in 1 .. Now /\ log[t].val \in Nat /\ log[t].val >= 2 * s + 2
         /\ log[t].val = 2 * s + 2 => log[t].rel = t /\ Ends(t, s)
         /\ log[t].val # 2 * s + 2 => begun > s + Capacity
         /\ Overwriting(view, s) => log[t].val > 2 * s + 2
<1>1. Now \in Nat /\ begun \in Nat
  BY BegunIsNat DEF ProducerInv
<1>2. PICK u \in 1 .. view : Ends(u, s)
  BY DEF Written
<1>3. t \in u .. Now /\ t \in 1 .. Now /\ log[t].loc = Generation(s)
  BY <1>2, LoadIsLater DEF Ends
<1>4. PICK q \in Nat : /\ slot(q) = slot(s) /\ q < begun
                       /\ \/ Opens(t, q) /\ log[t].rel \in 0 .. t
                          \/ q < next_seq /\ Ends(t, q) /\ log[t].rel = t /\ Filled(t, q)
  BY <1>3, GenerationStore
<1>5. (log[t].val = 2 * q + 1 \/ log[t].val = 2 * q + 2) /\ log[t].val \in Nat
  <2>1. CASE Opens(t, q)
    BY <2>1 DEF Opens
  <2>2. CASE Ends(t, q)
    BY <2>2 DEF Ends
  <2> QED BY <1>4, <2>1, <2>2
<1>6. ASSUME NEW x \in 1 .. view, log[x].loc = Generation(s) PROVE x = t \/ log[x].val < log[t].val
  <2>1. t \in x .. Now
    BY <1>6, LoadIsLater
  <2>2. IsGeneration(t) /\ IsGeneration(x)
    BY <1>3, <1>6 DEF IsGeneration
  <2>3. CASE x # t
    <3>1. x \in 1 .. t - 1
      BY <1>1, <2>1, <2>3
    <3> QED BY <1>3, <2>2, <3>1 DEF ProducerInv, Rising
  <2> QED BY <2>3
<1>7. log[u].val = 2 * s + 2
  BY <1>2 DEF Ends
<1>8. log[t].val >= 2 * s + 2
  <2>1. u = t \/ log[u].val < log[t].val
    BY <1>2, <1>6 DEF Ends
  <2> QED BY <1>5, <1>7, <2>1
<1>9. log[t].val = 2 * s + 2 => log[t].rel = t /\ Ends(t, s)
  <2> SUFFICES ASSUME log[t].val = 2 * s + 2 PROVE log[t].rel = t /\ Ends(t, s)
    OBVIOUS
  <2>1. ~Opens(t, q)
    <3>1. 2 * q + 1 # 2 * s + 2
      OBVIOUS
    <3> QED BY <3>1 DEF Opens
  <2> QED BY <1>3, <1>4, <2>1 DEF Ends
<1>10. log[t].val # 2 * s + 2 => begun > s + Capacity
  <2> SUFFICES ASSUME log[t].val # 2 * s + 2 PROVE begun > s + Capacity
    OBVIOUS
  <2>1. q > s
    BY <1>5, <1>8
  <2>2. ~(q - s < Capacity)
    <3>1. Capacity \in Nat \ {0}
      BY DEF BroadcastAssumption
    <3> QED BY <1>4, <2>1, <3>1, ModDistinct DEF slot
  <2>3. Capacity \in Nat
    BY Sizes
  <2> QED BY <1>1, <1>4, <2>1, <2>2, <2>3
<1>11. Overwriting(view, s) => log[t].val > 2 * s + 2
  <2> SUFFICES ASSUME Overwriting(view, s) PROVE log[t].val > 2 * s + 2
    OBVIOUS
  <2>1. PICK x \in 1 .. view : log[x].loc = Generation(s) /\ log[x].val > 2 * s + 2
    BY DEF Overwriting
  <2>2. x = t \/ log[x].val < log[t].val
    BY <1>6, <2>1
  <2>3. x \in 1 .. Now
    BY <1>1
  <2>4. log[x].val \in Nat
    <3>1. PICK here \in Nat : /\ slot(here) = slot(s) /\ here < begun
                       /\ \/ Opens(x, here) /\ log[x].rel \in 0 .. x
                          \/ here < next_seq /\ Ends(x, here) /\ log[x].rel = x /\ Filled(x, here)
      BY <2>1, <2>3, GenerationStore
    <3> QED BY <3>1 DEF Opens, Ends
  <2> QED BY <1>5, <2>1, <2>2, <2>4
<1> QED BY <1>3, <1>5, <1>8, <1>9, <1>10, <1>11

\* A payload word of a message known to be written is the message's, or its
\* load makes known, once fenced, that the slot is being written again.
LEMMA WordLoad ==
  ASSUME BroadcastAssumption, ProducerInv, view \in 0 .. Now, NEW s \in Nat, Written(view, s),
         NEW w \in 1 .. Words, NEW t \in Visible(Word(s, w)), NEW k \in 0 .. Now
  PROVE  /\ t \in 1 .. Now /\ Payload(t) \in 0 .. MaxSeq
         /\ Payload(t) = s \/ Overwriting(With(k, t), s)
<1>1. Now \in Nat /\ begun \in Nat /\ begun <= MaxSeq /\ MaxSeq \in Nat
  BY BegunIsNat, Sizes DEF ProducerInv
<1>2. PICK e \in 1 .. view : Ends(e, s)
  BY DEF Written
<1>3. e \in 1 .. Now
  BY <1>1
<1>4. Filled(e, s)
  <2>1. PICK q \in Nat : /\ slot(q) = slot(s) /\ q < begun
                         /\ \/ Opens(e, q) /\ log[e].rel \in 0 .. e
                            \/ q < next_seq /\ Ends(e, q) /\ log[e].rel = e /\ Filled(e, q)
    BY <1>2, <1>3, GenerationStore DEF Ends
  <2>2. ~Opens(e, q)
    <3>1. log[e].val = 2 * s + 2 /\ 2 * q + 1 # 2 * s + 2
      BY <1>2 DEF Ends
    <3> QED BY <3>1 DEF Opens
  <2>3. q = s
    <3>1. log[e].val = 2 * s + 2
      BY <1>2 DEF Ends
    <3>2. log[e].val = 2 * q + 2
      BY <2>1, <2>2 DEF Ends
    <3>3. 2 * q + 2 = 2 * s + 2
      BY <3>1, <3>2, Zenon
    <3> QED BY <3>3
  <2> QED BY <2>1, <2>2, <2>3
<1>5. PICK u \in 1 .. e : Fills(u, s, w)
  BY <1>4 DEF Filled
<1>6. u \in 1 .. view
  BY <1>1
<1>7. t \in u .. Now /\ t \in 1 .. Now /\ log[t].loc = Word(s, w)
  BY <1>5, <1>6, LoadIsLater DEF Fills
<1>8. PICK q \in Nat : /\ slot(q) = slot(s) /\ q < begun /\ log[t].val = q
                       /\ log[t].rel \in 1 .. t /\ Opens(log[t].rel, q)
  BY <1>7, WordStore
<1>9. Payload(t) = q
  BY <1>7, <1>8 DEF Payload
<1>10. q >= s
  <2>1. CASE u = t
    BY <1>5, <1>8, <2>1 DEF Fills
  <2>2. CASE u # t
    <3>1. u \in 1 .. t - 1
      BY <1>1, <1>7, <2>2
    <3>2. IsWord(u) /\ IsWord(t)
      BY <1>5, <1>7 DEF Fills, IsWord
    <3>3. log[u].val <= log[t].val
      BY <1>7, <3>1, <3>2 DEF ProducerInv, Rising
    <3> QED BY <1>5, <1>8, <3>3 DEF Fills
  <2> QED BY <2>1, <2>2
<1>11. ASSUME q # s PROVE Overwriting(With(k, t), s)
  <2>1. PICK r \in 1 .. t : r = log[t].rel /\ Opens(r, q)
    BY <1>8
  <2>2. With(k, t) \in k .. Now /\ With(k, t) >= r
    <3>1. t \in 0 .. Now /\ t # 0
      BY <1>1, <1>7
    <3> QED BY <2>1, <3>1, WithBounds
  <2>3. log[r].loc = Generation(s) /\ log[r].val > 2 * s + 2
    <3>1. log[r].loc = Generation(q) /\ log[r].val = 2 * q + 1
      BY <2>1 DEF Opens
    <3>2. Generation(q) = Generation(s)
      BY <1>8, GenerationLocation
    <3> QED BY <1>10, <1>11, <3>1, <3>2
  <2>4. r \in 1 .. With(k, t)
    BY <1>1, <2>2
  <2> QED BY <2>3, <2>4 DEF Overwriting
<1> QED BY <1>1, <1>7, <1>8, <1>9, <1>11

\* A tail the consumer loads counts messages it then knows to be written.
LEMMA TailLoad ==
  ASSUME ProducerInv, view \in 0 .. Now, NEW t \in Visible(TailWord)
  PROVE  /\ t \in 0 .. Now
         /\ Value(t) \in Nat /\ Value(t) <= next_seq - unpublished
         /\ With(view, t) \in view .. Now
         /\ \A q \in Nat : q < Value(t) => Written(With(view, t), q)
<1>1. Now \in Nat /\ next_seq - unpublished \in Nat
  BY BegunIsNat DEF ProducerInv
<1>2. t \in 0 .. Now /\ (t = 0 \/ log[t].loc = TailWord)
  BY DEF Visible, IsStore
<1>3. With(view, t) \in view .. Now /\ (t # 0 => With(view, t) >= log[t].rel)
  BY <1>2, WithBounds
<1>4. CASE t = 0
  BY <1>1, <1>2, <1>3, <1>4 DEF Value
<1>5. CASE t # 0
  <2>1. t \in 1 .. Now
    BY <1>1, <1>2, <1>5
  <2>2. /\ log[t].val \in Nat /\ log[t].val <= next_seq - unpublished /\ log[t].rel = t
        /\ \A q \in Nat : q < log[t].val => Written(t, q)
    BY <1>2, <1>5, <2>1, TailStore
  <2>3. Value(t) = log[t].val
    BY <1>5 DEF Value
  <2>4. PICK j \in Nat : j = With(view, t) /\ t <= j
    BY <1>1, <1>3, <1>5, <2>2
  <2>5. ASSUME NEW q \in Nat, q < Value(t) PROVE Written(j, q)
    <3>1. Written(t, q) /\ t \in Nat
      BY <2>1, <2>2, <2>3, <2>5
    <3> QED BY <2>4, <3>1, KnownGrows
  <2> QED BY <1>2, <1>3, <2>2, <2>3, <2>4, <2>5
<1> QED BY <1>4, <1>5

-----------------------------------------------------------------------------
(* The consumer *)

\* What its copy will have made known when it looks at the generation again.
known == IF cpc = "copy" THEN pending ELSE view

ConsumerType ==
  /\ view \in 0 .. Now /\ pending \in 0 .. Now
  /\ cpc \in {"out", "idle", "empty", "recheck", "copy", "revalidate", "lapped"}
  /\ pos \in Nat /\ tail_cache \in Nat /\ seen_seq \in Nat
  /\ copy \subseteq {Uninit} \union 0 .. MaxSeq /\ word \in 0 .. Words
  /\ pos <= next_seq - unpublished /\ tail_cache <= next_seq - unpublished
  /\ result.kind \in {"out", "none", "item", "lagged", "skipped", "closed"}
  /\ cpc = "out" => result = Returned("out", {})

\* Every message below the cached tail is known to be written.
TailIsKnown == \A q \in Nat : q < tail_cache => Written(view, q)

\* A word of the copy that is not the message's betrays itself to the fence.
CopyIsHonest ==
  /\ cpc \in {"copy", "revalidate"} =>
       /\ pos < tail_cache /\ seen_seq = 2 * pos + 2
       /\ \A x \in copy : x = pos \/ Overwriting(known, pos)
       /\ word > 0 => copy # {}
  /\ cpc = "revalidate" => word = Words
  /\ cpc \notin {"copy", "revalidate"} => copy = {} /\ word = 0

\* A lapped consumer is a whole ring behind; one that saw the close flag knows it.
LapIsReal  == cpc = "lapped" => begun > pos + Capacity
CloseIsKnown == cpc = "recheck" => \E t \in 1 .. view : Closes(t)

ConsumerInv ==
  ConsumerType /\ TailIsKnown /\ CopyIsHonest /\ LapIsReal /\ CloseIsKnown /\ ClosedMeansDrained

IInv == ProducerInv /\ ConsumerInv

\* The producer's steps take nothing from the consumer.
LEMMA ConsumerKept ==
  ASSUME ConsumerInv, ProducerInv, Grows, UNCHANGED consumer,
         begun' \in Nat, begun <= begun',
         NEW here \in Nat, here = next_seq - unpublished, NEW r \in Nat, next_seq' - unpublished' = r, here <= r,
         ppc # "closed"
  PROVE  ConsumerInv'
<1>1. ConsumerType /\ Now \in Nat /\ Now <= Now'
  BY DEF ConsumerInv, Grows
<1>2. ConsumerType'
  <2>1. view' \in 0 .. Now' /\ pending' \in 0 .. Now'
    BY <1>1 DEF ConsumerType, Grows, consumer
  <2>2. pos' <= next_seq' - unpublished' /\ tail_cache' <= next_seq' - unpublished'
    BY <1>1 DEF ConsumerType, consumer
  <2> QED BY <1>1, <2>1, <2>2 DEF ConsumerType, consumer
<1>3. ASSUME NEW k \in 0 .. Now, NEW q \in Nat
      PROVE  (Written(k, q) => Written(k, q)') /\ (Overwriting(k, q) => Overwriting(k, q)')
  <2>1. k \in 0 .. Now' /\ k <= k
    BY <1>1 DEF Grows
  <2> QED BY <2>1, WrittenGrows
<1>4. PICK v \in 0 .. Now : view = v /\ view' = v
  BY <1>1 DEF ConsumerType, consumer
<1>5. TailIsKnown'
  <2>1. ASSUME NEW q \in Nat, q < tail_cache' PROVE Written(view, q)'
    <3>1. Written(view, q)
      BY <2>1 DEF ConsumerInv, TailIsKnown, consumer
    <3>2. Written(v, q)'
      BY <1>3, <1>4, <3>1
    <3> QED BY <1>4, <3>2 DEF Written
  <2> QED BY <2>1 DEF TailIsKnown
<1>6. CopyIsHonest'
  <2>1. PICK j \in 0 .. Now : known = j /\ known' = j
    BY <1>1 DEF ConsumerType, known, consumer
  <2>2. PICK s \in Nat : pos = s /\ pos' = s
    BY <1>1 DEF ConsumerType, consumer
  <2>3. Overwriting(known, pos) => Overwriting(known, pos)'
    <3>1. Overwriting(j, s) => Overwriting(j, s)'
      BY <1>3
    <3> QED BY <2>1, <2>2, <3>1 DEF Overwriting, Generation, slot
  <2> QED BY <2>3 DEF ConsumerInv, CopyIsHonest, consumer
<1>7. LapIsReal'
  <2>1. cpc' = cpc /\ pos' = pos
    BY DEF consumer
  <2>2. ASSUME cpc = "lapped" PROVE begun' > pos' + Capacity
    <3>1. begun \in Nat /\ Capacity \in Nat
      BY BegunIsNat, BroadcastAssumption DEF ProducerInv, BroadcastAssumption
    <3> QED BY <1>1, <2>1, <2>2, <3>1 DEF ConsumerInv, LapIsReal, ConsumerType
  <2> QED BY <2>1, <2>2 DEF LapIsReal
<1>8. CloseIsKnown'
  <2>1. ASSUME NEW t \in 1 .. v, Closes(t) PROVE Closes(t)'
    <3>1. t \in 1 .. Now
      BY <1>1
    <3> QED BY <2>1, <3>1 DEF Closes, Grows
  <2> QED BY <1>4, <2>1 DEF ConsumerInv, CloseIsKnown, consumer
<1>9. ClosedMeansDrained'
  BY DEF ConsumerInv, ClosedMeansDrained, consumer
<1> QED BY <1>2, <1>5, <1>6, <1>7, <1>8, <1>9 DEF ConsumerInv

\* A step of the consumer leaves the producer's side as it found it.
LEMMA ReadOnly ==
  ASSUME BroadcastAssumption, ProducerInv, UNCHANGED producer
  PROVE  /\ ProducerInv' /\ begun' = begun /\ Now' = Now /\ published' = published
         /\ \A k, q : (Written(k, q)' <=> Written(k, q)) /\ (Overwriting(k, q)' <=> Overwriting(k, q))
         /\ \A t : Closes(t)' <=> Closes(t)
<1>1. ProducerInv' /\ begun' = begun
  BY StorelessStep DEF producer
<1>2. log' = log
  BY DEF producer
<1> QED BY <1>1, <1>2 DEF Now, published, Written, Overwriting, Closes, Ends

\* A step after which the consumer holds no copy.
LEMMA Settles ==
  ASSUME BroadcastAssumption, IInv, UNCHANGED producer,
         NEW j \in 0 .. Now, view' = j,
         NEW cached \in Nat, tail_cache' = cached, cached <= next_seq - unpublished, \A q \in Nat : q < cached => Written(j, q),
         NEW here \in Nat, pos' = here, here <= next_seq - unpublished,
         cpc' \in {"idle", "empty", "recheck", "lapped"}, copy' = {}, word' = 0,
         pending' \in 0 .. Now, seen_seq' \in Nat,
         result'.kind \in {"none", "item", "lagged", "skipped", "closed", "out"},
         cpc' = "recheck" => \E t \in 1 .. j : Closes(t),
         cpc' = "lapped" => begun > here + Capacity,
         result'.kind = "closed" => ppc = "closed" /\ here = next_seq
  PROVE  ConsumerInv'
<1>1. /\ begun' = begun /\ Now' = Now
      /\ \A k, q : (Written(k, q)' <=> Written(k, q)) /\ (Overwriting(k, q)' <=> Overwriting(k, q))
      /\ \A t : Closes(t)' <=> Closes(t)
  BY ReadOnly DEF IInv
<1>2. UNCHANGED <<ppc, next_seq, unpublished>>
  BY DEF producer
<1>3. ConsumerType'
  <2>1. view' \in 0 .. Now' /\ pending' \in 0 .. Now'
    BY <1>1
  <2>2. pos' <= next_seq' - unpublished' /\ tail_cache' <= next_seq' - unpublished'
    BY <1>2
  <2>3. copy' \subseteq {Uninit} \union 0 .. MaxSeq /\ word' \in 0 .. Words
    BY Sizes
  <2> QED BY <2>1, <2>2, <2>3 DEF ConsumerType
<1>4. TailIsKnown'
  <2>1. ASSUME NEW q \in Nat, q < tail_cache' PROVE Written(view, q)'
    <3>1. Written(j, q)'
      BY <1>1, <2>1
    <3> QED BY <3>1 DEF Written
  <2> QED BY <2>1 DEF TailIsKnown
<1>5. CopyIsHonest'
  BY DEF CopyIsHonest
<1>6. LapIsReal'
  BY <1>1 DEF LapIsReal
<1>7. CloseIsKnown'
  BY <1>1 DEF CloseIsKnown
<1>8. ClosedMeansDrained'
  BY <1>2 DEF ClosedMeansDrained
<1> QED BY <1>3, <1>4, <1>5, <1>6, <1>7, <1>8 DEF ConsumerInv

\* What the consumer's invariant gives each step, in constants.
LEMMA ConsumerFacts ==
  ASSUME IInv
  PROVE  /\ view \in 0 .. Now /\ pending \in 0 .. Now /\ Now \in Nat
         /\ pos \in Nat /\ pos <= next_seq - unpublished
         /\ tail_cache \in Nat /\ tail_cache <= next_seq - unpublished
         /\ next_seq \in Nat /\ next_seq - unpublished \in Nat /\ next_seq - unpublished <= next_seq
         /\ published = next_seq - unpublished
         /\ \A q \in Nat : q < tail_cache => Written(view, q)
<1>1. ProducerType /\ TailIs(next_seq - unpublished)
  BY DEF IInv, ProducerInv
<1>2. Now \in Nat /\ next_seq \in Nat /\ next_seq - unpublished \in Nat /\ next_seq - unpublished <= next_seq
  BY <1>1, BegunIsNat
<1>3. published = next_seq - unpublished
  BY <1>1, <1>2, TailIsPublished
<1> QED BY <1>2, <1>3 DEF IInv, ConsumerInv, ConsumerType, TailIsKnown

\* has_item's reload.
LEMMA RefreshStep ==
  ASSUME BroadcastAssumption, IInv, Refresh
  PROVE  ConsumerInv'
<1>1. PICK t \in Visible(TailWord) :
        /\ tail_cache' = Value(t) /\ view' = With(view, t)
        /\ cpc' = IF Value(t) > pos THEN "idle" ELSE "empty"
  BY DEF Refresh
<1>2. /\ Value(t) \in Nat /\ Value(t) <= next_seq - unpublished
      /\ With(view, t) \in view .. Now
      /\ \A q \in Nat : q < Value(t) => Written(With(view, t), q)
  BY ConsumerFacts, TailLoad DEF IInv
<1>3. PICK cached \in Nat : Value(t) = cached
  BY <1>2
<1>4. PICK j \in 0 .. Now : With(view, t) = j
  BY <1>2, ConsumerFacts
<1>5. PICK here \in Nat : pos = here
  BY ConsumerFacts
<1>6. UNCHANGED <<producer, pos, seen_seq, copy, word, pending, result>> /\ cpc = "idle" /\ cpc' \in {"idle", "empty"}
  BY <1>1 DEF Refresh
<1>7. copy' = {} /\ word' = 0 /\ seen_seq' \in Nat /\ pending' \in 0 .. Now
  BY <1>6 DEF IInv, ConsumerInv, CopyIsHonest, ConsumerType
<1>8. /\ result'.kind \in {"none", "item", "lagged", "skipped", "closed", "out"}
      /\ result'.kind = "closed" => ppc = "closed" /\ here = next_seq
  BY <1>5, <1>6 DEF IInv, ConsumerInv, ConsumerType, ClosedMeansDrained
<1>9. here <= next_seq - unpublished /\ cached <= next_seq - unpublished /\ \A q \in Nat : q < cached => Written(j, q)
  BY <1>2, <1>3, <1>4, <1>5, ConsumerFacts
<1>10. pos' = here /\ tail_cache' = cached /\ view' = j /\ cpc' # "recheck" /\ cpc' # "lapped"
       /\ cpc' \in {"idle", "empty", "recheck", "lapped"}
  BY <1>1, <1>3, <1>4, <1>5, <1>6
<1> QED BY <1>6, <1>7, <1>8, <1>9, <1>10, Settles

\* subscribe.
LEMMA SubscribeStep ==
  ASSUME BroadcastAssumption, IInv, Subscribe
  PROVE  ConsumerInv' /\ Abstract!Join
<1>1. PICK t \in Visible(TailWord) :
        pos' = Value(t) /\ tail_cache' = Value(t) /\ view' = With(view, t)
  BY DEF Subscribe
<1>2. /\ Value(t) \in Nat /\ Value(t) <= next_seq - unpublished
      /\ With(view, t) \in view .. Now
      /\ \A q \in Nat : q < Value(t) => Written(With(view, t), q)
  BY ConsumerFacts, TailLoad DEF IInv
<1>3. PICK cached \in Nat : Value(t) = cached
  BY <1>2
<1>4. PICK j \in 0 .. Now : With(view, t) = j
  BY <1>2, ConsumerFacts
<1>5. UNCHANGED <<producer, seen_seq, copy, word, pending>> /\ cpc = "out" /\ cpc' = "idle"
      /\ result' = Returned("none", {})
  BY DEF Subscribe
<1>6. copy' = {} /\ word' = 0 /\ seen_seq' \in Nat /\ pending' \in 0 .. Now /\ result = Returned("out", {})
  BY <1>5 DEF IInv, ConsumerInv, CopyIsHonest, ConsumerType
<1>7. result'.kind = "none"
  BY <1>5 DEF Returned
<1>8. cached <= next_seq - unpublished /\ \A q \in Nat : q < cached => Written(j, q)
  BY <1>2, <1>3, <1>4
<1>9. pos' = cached /\ tail_cache' = cached /\ view' = j
  BY <1>1, <1>3, <1>4
<1>10. ConsumerInv'
  BY <1>5, <1>6, <1>7, <1>8, <1>9, Settles
<1>11. Abstract!Join
  <2>1. begun' = begun /\ published' = published
    BY <1>5, ReadOnly DEF IInv
  <2>2. cached \in 0 .. published
    BY <1>8, ConsumerFacts
  <2> QED BY <1>5, <1>6, <1>9, <2>1, <2>2 DEF Abstract!Join, Abstract!Out, Abstract!Nothing, Returned, begun
<1> QED BY <1>10, <1>11

\* check_closed, the flag.
LEMMA CheckClosedStep ==
  ASSUME BroadcastAssumption, IInv, CheckClosed
  PROVE  ConsumerInv'
<1>1. PICK t \in Visible(ClosedFlag) :
        view' = With(view, t) /\ cpc' = IF Value(t) # 0 THEN "recheck" ELSE "idle"
  BY DEF CheckClosed
<1>2. t \in 0 .. Now /\ (t = 0 \/ log[t].loc = ClosedFlag)
  BY DEF Visible, IsStore
<1>3. With(view, t) \in view .. Now /\ (t # 0 => With(view, t) >= log[t].rel)
  BY <1>2, ConsumerFacts, WithBounds DEF IInv
<1>4. PICK j \in 0 .. Now : With(view, t) = j /\ view <= j
  BY <1>3, ConsumerFacts
<1>5. PICK here \in Nat : pos = here
  BY ConsumerFacts
<1>6. PICK cached \in Nat : tail_cache = cached
  BY ConsumerFacts
<1>7. UNCHANGED <<producer, pos, tail_cache, seen_seq, copy, word, pending, result>> /\ cpc = "empty"
  BY DEF CheckClosed
<1>8. copy' = {} /\ word' = 0 /\ seen_seq' \in Nat /\ pending' \in 0 .. Now
  BY <1>7 DEF IInv, ConsumerInv, CopyIsHonest, ConsumerType
<1>9. /\ result'.kind \in {"none", "item", "lagged", "skipped", "closed", "out"}
      /\ result'.kind = "closed" => ppc = "closed" /\ here = next_seq
  BY <1>5, <1>7 DEF IInv, ConsumerInv, ConsumerType, ClosedMeansDrained
<1>10. here <= next_seq - unpublished /\ cached <= next_seq - unpublished
  BY <1>5, <1>6, ConsumerFacts
<1>11. ASSUME NEW q \in Nat, q < cached PROVE Written(j, q)
  <2>1. PICK v \in Nat : view = v /\ v <= j
    BY <1>4, ConsumerFacts
  <2>2. Written(v, q) /\ j \in Nat
    BY <1>6, <1>11, <2>1, ConsumerFacts
  <2> QED BY <2>1, <2>2, KnownGrows
<1>12. cpc' = "recheck" => \E x \in 1 .. j : Closes(x)
  <2> SUFFICES ASSUME cpc' = "recheck" PROVE \E x \in 1 .. j : Closes(x)
    OBVIOUS
  <2>1. t # 0
    BY <1>1 DEF Value
  <2>2. t \in 1 .. Now /\ log[t].loc = ClosedFlag
    BY <1>2, <2>1
  <2>3. log[t].rel = t
    BY <2>2, ClosedStore DEF IInv
  <2>4. t \in 1 .. j
    BY <1>3, <1>4, <2>1, <2>2, <2>3
  <2> QED BY <2>2, <2>4 DEF Closes
<1>13. pos' = here /\ tail_cache' = cached /\ view' = j /\ cpc' # "lapped"
       /\ cpc' \in {"idle", "empty", "recheck", "lapped"}
  BY <1>1, <1>4, <1>5, <1>6, <1>7
<1> QED BY <1>7, <1>8, <1>9, <1>10, <1>11, <1>12, <1>13, Settles

\* Behind the close flag there is one tail to load: the last.
LEMMA FinalTail ==
  ASSUME ProducerInv, view \in 0 .. Now, NEW x \in 1 .. view, Closes(x), NEW t \in Visible(TailWord)
  PROVE  Value(t) = next_seq /\ ppc = "closed" /\ unpublished = 0
<1>1. Now \in Nat /\ next_seq \in Nat
  BY BegunIsNat DEF ProducerInv
<1>2. ppc = "closed" /\ \A u \in x .. Now : log[u].loc # TailWord
  BY <1>1, ClosedStore DEF Closes
<1>3. unpublished = 0
  BY <1>2 DEF ProducerInv, ProducerType
<1>4. t \in 0 .. Now /\ (t = 0 \/ log[t].loc = TailWord)
  BY DEF Visible, IsStore
<1>5. PICK v : v = next_seq - unpublished /\ TailIs(v)
  BY DEF ProducerInv
<1>6. v = next_seq
  BY <1>1, <1>3, <1>5
<1>7. CASE v = 0 /\ \A u \in 1 .. Now : log[u].loc # TailWord
  <2>1. t = 0
    BY <1>1, <1>4, <1>7
  <2> QED BY <1>2, <1>3, <1>6, <1>7, <2>1 DEF Value
<1>8. CASE \E u \in 1 .. Now : Tails(u, v) /\ \A y \in u + 1 .. Now : log[y].loc # TailWord
  <2>1. PICK u \in 1 .. Now : Tails(u, v) /\ \A y \in u + 1 .. Now : log[y].loc # TailWord
    BY <1>8
  <2>2. u < x
    BY <1>1, <1>2, <2>1 DEF Tails
  <2>3. u \in 1 .. view
    BY <1>1, <2>2
  <2>4. t \in u .. Now /\ t \in 1 .. Now /\ log[t].loc = TailWord
    BY <2>1, <2>3, LoadIsLater DEF Tails
  <2>5. t = u
    BY <1>1, <2>1, <2>4
  <2> QED BY <1>2, <1>3, <1>6, <2>1, <2>4, <2>5 DEF Value, Tails
<1> QED BY <1>5, <1>7, <1>8 DEF TailIs

\* check_closed, the tail once more.
LEMMA RecheckStep ==
  ASSUME BroadcastAssumption, IInv, Recheck
  PROVE  /\ ConsumerInv'
         /\ Abstract!Finish \/ UNCHANGED <<pos, result>>
<1>1. PICK t \in Visible(TailWord) :
        /\ tail_cache' = Value(t) /\ view' = With(view, t)
        /\ result' = IF Value(t) <= pos THEN Returned("closed", {}) ELSE result
  BY DEF Recheck
<1>2. /\ Value(t) \in Nat /\ Value(t) <= next_seq - unpublished
      /\ With(view, t) \in view .. Now
      /\ \A q \in Nat : q < Value(t) => Written(With(view, t), q)
  BY ConsumerFacts, TailLoad DEF IInv
<1>3. PICK cached \in Nat : Value(t) = cached
  BY <1>2
<1>4. PICK j \in 0 .. Now : With(view, t) = j
  BY <1>2, ConsumerFacts
<1>5. PICK here \in Nat : pos = here
  BY ConsumerFacts
<1>6. UNCHANGED <<producer, pos, seen_seq, copy, word, pending>> /\ cpc = "recheck" /\ cpc' = "idle"
  BY DEF Recheck
<1>7. copy' = {} /\ word' = 0 /\ seen_seq' \in Nat /\ pending' \in 0 .. Now
  BY <1>6 DEF IInv, ConsumerInv, CopyIsHonest, ConsumerType
<1>8. here <= next_seq - unpublished /\ cached <= next_seq - unpublished /\ \A q \in Nat : q < cached => Written(j, q)
  BY <1>2, <1>3, <1>4, <1>5, ConsumerFacts
<1>9. cached = next_seq /\ ppc = "closed" /\ unpublished = 0
  <2>1. PICK x \in 1 .. view : Closes(x)
    BY <1>6 DEF IInv, ConsumerInv, CloseIsKnown
  <2> QED BY <1>3, <2>1, ConsumerFacts, FinalTail DEF IInv
<1>10. cached <= here => here = next_seq
  BY <1>8, <1>9, ConsumerFacts
<1>11. /\ result'.kind \in {"none", "item", "lagged", "skipped", "closed", "out"}
       /\ result'.kind = "closed" => ppc = "closed" /\ here = next_seq
  <2>1. CASE cached <= here
    BY <1>1, <1>3, <1>5, <1>9, <1>10, <2>1 DEF Returned
  <2>2. CASE ~(cached <= here)
    <3>1. result' = result
      BY <1>1, <1>3, <1>5, <2>2
    <3> QED BY <1>5, <3>1 DEF IInv, ConsumerInv, ConsumerType, ClosedMeansDrained
  <2> QED BY <2>1, <2>2
<1>12. pos' = here /\ tail_cache' = cached /\ view' = j
  BY <1>1, <1>3, <1>4, <1>5, <1>6
<1>13. ConsumerInv'
  BY <1>6, <1>7, <1>8, <1>11, <1>12, Settles
<1>14. Abstract!Finish \/ UNCHANGED <<pos, result>>
  <2>1. begun' = begun /\ published' = published
    BY <1>6, ReadOnly DEF IInv
  <2>2. published = next_seq /\ begun = next_seq
    BY <1>9, ConsumerFacts DEF begun
  <2>3. CASE cached <= here
    <3>1. result' = Returned("closed", {}) /\ pos = next_seq
      BY <1>1, <1>3, <1>5, <1>10, <2>3
    <3> QED BY <1>6, <2>1, <2>2, <3>1 DEF Abstract!Finish, Abstract!Closed, Returned, begun
  <2>4. CASE ~(cached <= here)
    BY <1>1, <1>3, <1>5, <1>6, <2>4
  <2> QED BY <2>3, <2>4
<1> QED BY <1>13, <1>14

\* skip_to_latest.
LEMMA SkipToLatestStep ==
  ASSUME BroadcastAssumption, IInv, SkipToLatest
  PROVE  ConsumerInv' /\ Abstract!Skip
<1>1. PICK t \in Visible(TailWord) :
        LET skipped == IF Value(t) < pos THEN 0 ELSE Value(t) - pos
        IN  /\ tail_cache' = Value(t) /\ view' = With(view, t)
            /\ pos' = pos + skipped /\ result' = Returned("skipped", {skipped})
  BY DEF SkipToLatest
<1>2. /\ Value(t) \in Nat /\ Value(t) <= next_seq - unpublished
      /\ With(view, t) \in view .. Now
      /\ \A q \in Nat : q < Value(t) => Written(With(view, t), q)
  BY ConsumerFacts, TailLoad DEF IInv
<1>3. PICK cached \in Nat : Value(t) = cached
  BY <1>2
<1>4. PICK j \in 0 .. Now : With(view, t) = j
  BY <1>2, ConsumerFacts
<1>5. PICK here \in Nat : pos = here
  BY ConsumerFacts
<1>6. PICK r \in Nat : r = (IF cached < here THEN here ELSE cached)
  OBVIOUS
<1>7. /\ here <= r /\ r - here \in Nat
      /\ tail_cache' = cached /\ view' = j /\ pos' = r /\ result' = Returned("skipped", {r - here})
  <2>1. CASE cached < here
    <3>1. r = here /\ r - here = 0
      BY <1>6, <2>1
    <3>2. pos' = here + 0 /\ result' = Returned("skipped", {0})
      BY <1>1, <1>3, <1>5, <2>1
    <3> QED BY <1>1, <1>3, <1>4, <3>1, <3>2
  <2>2. CASE ~(cached < here)
    <3>1. r = cached /\ here + (cached - here) = cached
      BY <1>6, <2>2
    <3>2. pos' = here + (cached - here) /\ result' = Returned("skipped", {cached - here})
      BY <1>1, <1>3, <1>5, <2>2
    <3> QED BY <1>1, <1>3, <1>4, <2>2, <3>1, <3>2
  <2> QED BY <2>1, <2>2
<1>8. UNCHANGED <<producer, cpc, seen_seq, copy, word, pending>> /\ cpc = "idle"
  BY DEF SkipToLatest
<1>9. copy' = {} /\ word' = 0 /\ seen_seq' \in Nat /\ pending' \in 0 .. Now
  BY <1>8 DEF IInv, ConsumerInv, CopyIsHonest, ConsumerType
<1>10. r <= next_seq - unpublished /\ cached <= next_seq - unpublished /\ \A q \in Nat : q < cached => Written(j, q)
  BY <1>2, <1>3, <1>4, <1>5, <1>6, ConsumerFacts
<1>11. result'.kind = "skipped" /\ cpc' = "idle"
  BY <1>7, <1>8 DEF Returned
<1>12. ConsumerInv'
  BY <1>7, <1>8, <1>9, <1>10, <1>11, Settles
<1>13. Abstract!Skip
  <2>1. begun' = begun /\ published' = published
    BY <1>8, ReadOnly DEF IInv
  <2>2. r \in here .. published
    BY <1>7, <1>10, ConsumerFacts
  <2>3. pos' \in pos .. published /\ result' = Returned("skipped", {pos' - pos})
    BY <1>5, <1>7, <2>2
  <2> QED BY <2>1, <2>3 DEF Abstract!Skip, Abstract!Jump, Abstract!Skipped, Returned, begun
<1> QED BY <1>12, <1>13

\* Lap recovery: forward, and never past what is published.
LEMMA RepositionStep ==
  ASSUME BroadcastAssumption, IInv, Reposition
  PROVE  ConsumerInv' /\ Abstract!Lag
<1>1. PICK t \in Visible(TailWord) :
        LET target == reposition_target(Value(t))
            new_pos == IF target < pos THEN pos ELSE target
        IN  /\ tail_cache' = Value(t) /\ view' = With(view, t)
            /\ pos' = new_pos /\ result' = Returned("lagged", {new_pos - pos})
  BY DEF Reposition
<1>2. /\ Value(t) \in Nat /\ Value(t) <= next_seq - unpublished
      /\ With(view, t) \in view .. Now
      /\ \A q \in Nat : q < Value(t) => Written(With(view, t), q)
  BY ConsumerFacts, TailLoad DEF IInv
<1>3. PICK cached \in Nat : Value(t) = cached
  BY <1>2
<1>4. PICK j \in 0 .. Now : With(view, t) = j
  BY <1>2, ConsumerFacts
<1>5. PICK here \in Nat : pos = here
  BY ConsumerFacts
<1>6. PICK g \in 0 .. cached : reposition_target(Value(t)) = g
  <2>1. reposition_target(cached) \in 0 .. cached
    BY Sizes DEF reposition_target
  <2> QED BY <1>3, <2>1
<1>7. PICK r \in Nat : r = (IF g < here THEN here ELSE g)
  OBVIOUS
<1>8. tail_cache' = cached /\ view' = j /\ pos' = r /\ result' = Returned("lagged", {r - here})
  BY <1>1, <1>3, <1>4, <1>5, <1>6, <1>7
<1>9. UNCHANGED <<producer, copy, word, pending>> /\ cpc = "lapped" /\ cpc' = "idle" /\ seen_seq' = 0
  BY DEF Reposition
<1>10. copy' = {} /\ word' = 0 /\ pending' \in 0 .. Now
  BY <1>9 DEF IInv, ConsumerInv, CopyIsHonest, ConsumerType
<1>11. r <= next_seq - unpublished /\ cached <= next_seq - unpublished /\ \A q \in Nat : q < cached => Written(j, q)
  BY <1>2, <1>3, <1>4, <1>5, <1>7, ConsumerFacts
<1>12. result'.kind = "lagged" /\ seen_seq' \in Nat
  BY <1>8, <1>9 DEF Returned
<1>13. ConsumerInv'
  BY <1>8, <1>9, <1>10, <1>11, <1>12, Settles
<1>14. Abstract!Lag
  <2>1. begun' = begun /\ published' = published
    BY <1>9, ReadOnly DEF IInv
  <2>2. r \in here .. published
    BY <1>7, <1>11, ConsumerFacts
  <2>3. pos' \in pos .. published /\ result' = Returned("lagged", {pos' - pos})
    BY <1>5, <1>8, <2>2
  <2>4. begun > pos + Capacity
    BY <1>9 DEF IInv, ConsumerInv, LapIsReal
  <2> QED BY <2>1, <2>3, <2>4 DEF Abstract!Lag, Abstract!Jump, Abstract!Lagged, Returned, begun
<1> QED BY <1>13, <1>14

\* read_valid, the generation before the copy.
LEMMA LoadSeqStep ==
  ASSUME BroadcastAssumption, IInv, LoadSeq
  PROVE  ConsumerInv'
<1>1. PICK t \in Visible(Generation(pos)) :
        /\ seen_seq' = Value(t) /\ view' = With(view, t)
        /\ cpc' = IF Value(t) = 2 * pos + 2 THEN "copy" ELSE "lapped"
  BY DEF LoadSeq
<1>2. PICK here \in Nat : pos = here
  BY ConsumerFacts
<1>3. PICK cached \in Nat : tail_cache = cached
  BY ConsumerFacts
<1>4. UNCHANGED <<producer, pos, tail_cache, copy, word, pending, result>> /\ cpc = "idle" /\ here < cached
  BY <1>2, <1>3 DEF LoadSeq
<1>5. Written(view, here) /\ ProducerInv /\ view \in 0 .. Now
  BY <1>3, <1>4, ConsumerFacts DEF IInv
<1>6. /\ t \in 1 .. Now /\ log[t].val \in Nat
      /\ log[t].val = 2 * here + 2 => log[t].rel = t /\ Ends(t, here)
      /\ log[t].val # 2 * here + 2 => begun > here + Capacity
  BY <1>1, <1>2, <1>5, GenerationLoad
<1>7. Value(t) = log[t].val
  BY <1>6 DEF Value
<1>8. t \in 0 .. Now /\ t # 0 /\ Now \in Nat
  BY <1>6, ConsumerFacts
<1>9. With(view, t) \in view .. Now /\ With(view, t) >= log[t].rel
  BY <1>5, <1>8, WithBounds
<1>10. PICK j \in 0 .. Now : With(view, t) = j /\ view <= j
  BY <1>5, <1>8, <1>9
<1>11. PICK v \in Nat : view = v /\ v <= j
  BY <1>5, <1>10
<1>12. ASSUME NEW q \in Nat, q < cached PROVE Written(j, q)
  <2>1. Written(v, q) /\ j \in Nat
    BY <1>3, <1>8, <1>11, <1>12, ConsumerFacts
  <2> QED BY <1>11, <2>1, KnownGrows
<1>13. copy = {} /\ word = 0 /\ pending \in 0 .. Now
  BY <1>4 DEF IInv, ConsumerInv, CopyIsHonest, ConsumerType
<1>14. here <= next_seq - unpublished /\ cached <= next_seq - unpublished
  BY <1>2, <1>3, ConsumerFacts
<1>15. /\ result.kind \in {"none", "item", "lagged", "skipped", "closed", "out"}
       /\ result.kind = "closed" => ppc = "closed" /\ here = next_seq
  BY <1>2 DEF IInv, ConsumerInv, ConsumerType, ClosedMeansDrained
<1>16. CASE log[t].val = 2 * here + 2
  <2>1. cpc' = "copy" /\ seen_seq' = 2 * here + 2 /\ pos' = here /\ tail_cache' = cached /\ view' = j
    BY <1>1, <1>2, <1>3, <1>4, <1>7, <1>10, <1>16
  <2>2. copy' = {} /\ word' = 0 /\ pending' = pending /\ result' = result
    BY <1>4, <1>13
  <2>3. /\ \A k, q : (Written(k, q)' <=> Written(k, q)) /\ (Overwriting(k, q)' <=> Overwriting(k, q))
        /\ Now' = Now
    BY <1>4, ReadOnly DEF IInv
  <2>4. UNCHANGED <<ppc, next_seq, unpublished>>
    BY <1>4 DEF producer
  <2>5. ConsumerType'
    <3>1. view' \in 0 .. Now' /\ pending' \in 0 .. Now'
      BY <1>13, <2>1, <2>2, <2>3
    <3>2. pos' <= next_seq' - unpublished' /\ tail_cache' <= next_seq' - unpublished'
      BY <1>14, <2>1, <2>4
    <3>3. copy' \subseteq {Uninit} \union 0 .. MaxSeq /\ word' \in 0 .. Words
      BY <2>2, Sizes
    <3>4. 2 * here + 2 \in Nat
      OBVIOUS
    <3> QED BY <1>15, <2>1, <2>2, <3>1, <3>2, <3>3, <3>4 DEF ConsumerType
  <2>6. TailIsKnown'
    <3>1. ASSUME NEW q \in Nat, q < tail_cache' PROVE Written(view, q)'
      <4>1. Written(j, q)'
        BY <1>12, <2>1, <2>3, <3>1
      <4> QED BY <2>1, <4>1 DEF Written
    <3> QED BY <3>1 DEF TailIsKnown
  <2>7. CopyIsHonest'
    BY <1>4, <2>1, <2>2 DEF CopyIsHonest
  <2>8. LapIsReal' /\ CloseIsKnown'
    BY <2>1 DEF LapIsReal, CloseIsKnown
  <2>9. ClosedMeansDrained'
    BY <1>15, <2>1, <2>2, <2>4 DEF ClosedMeansDrained
  <2> QED BY <2>5, <2>6, <2>7, <2>8, <2>9 DEF ConsumerInv
<1>17. CASE log[t].val # 2 * here + 2
  <2>1. cpc' = "lapped" /\ seen_seq' \in Nat /\ pos' = here /\ tail_cache' = cached /\ view' = j
    BY <1>1, <1>2, <1>3, <1>4, <1>6, <1>7, <1>10, <1>17
  <2>2. copy' = {} /\ word' = 0 /\ pending' \in 0 .. Now /\ result' = result /\ UNCHANGED producer
    BY <1>4, <1>13
  <2>3. begun > here + Capacity
    BY <1>6, <1>17
  <2> QED BY <1>12, <1>14, <1>15, <2>1, <2>2, <2>3, Settles
<1> QED BY <1>16, <1>17

\* read_valid, one word: the message's own, or one that betrays itself.
LEMMA CopyWordStep ==
  ASSUME BroadcastAssumption, IInv, CopyWord
  PROVE  ConsumerInv'
<1>1. PICK t \in Visible(Word(pos, word + 1)) :
        copy' = copy \union {Payload(t)} /\ pending' = With(pending, t)
  BY DEF CopyWord
<1>2. PICK here \in Nat : pos = here
  BY ConsumerFacts
<1>3. PICK v \in 0 .. Now : view = v
  BY ConsumerFacts
<1>4. PICK k \in 0 .. Now : pending = k
  BY ConsumerFacts
<1>5. PICK x \in 0 .. Words : word = x
  BY DEF IInv, ConsumerInv, ConsumerType
<1>6. /\ UNCHANGED <<producer, cpc, pos, tail_cache, seen_seq, view, result>>
      /\ cpc = "copy" /\ word' = x + 1 /\ x + 1 \in 1 .. Words
  BY <1>5, Sizes DEF CopyWord
<1>7. Written(view, here) /\ ProducerInv /\ view \in 0 .. Now /\ Now \in Nat
  <2>1. here < tail_cache
    BY <1>2, <1>6 DEF IInv, ConsumerInv, CopyIsHonest
  <2> QED BY <2>1, ConsumerFacts DEF IInv
<1>8. /\ t \in 1 .. Now /\ Payload(t) \in 0 .. MaxSeq
      /\ Payload(t) = here \/ Overwriting(With(k, t), here)
  BY <1>1, <1>2, <1>5, <1>6, <1>7, WordLoad
<1>9. PICK m \in 0 .. Now : With(k, t) = m /\ k <= m
  <2>1. t \in 0 .. Now
    BY <1>7, <1>8
  <2>2. With(k, t) \in k .. Now
    BY <1>7, <2>1, WithBounds
  <2> QED BY <1>7, <2>2
<1>10. known = k /\ pending' = m /\ known' = m
  BY <1>1, <1>4, <1>6, <1>9 DEF known
<1>11. ASSUME NEW y \in copy' PROVE y = here \/ Overwriting(m, here)
  <2>1. CASE y \in copy
    <3>1. y = here \/ Overwriting(known, pos)
      BY <1>2, <1>6, <2>1 DEF IInv, ConsumerInv, CopyIsHonest
    <3>2. Overwriting(known, pos) => Overwriting(k, here)
      BY <1>2, <1>10
    <3>3. k \in Nat /\ m \in Nat
      BY <1>7
    <3> QED BY <1>9, <3>1, <3>2, <3>3, KnownGrows
  <2>2. CASE y = Payload(t)
    BY <1>8, <1>9, <2>2
  <2> QED BY <1>1, <2>1, <2>2
<1>12. /\ \A a, q : (Written(a, q)' <=> Written(a, q)) /\ (Overwriting(a, q)' <=> Overwriting(a, q))
       /\ \A a : Closes(a)' <=> Closes(a)
       /\ Now' = Now /\ begun' = begun
  BY <1>6, ReadOnly DEF IInv
<1>13. UNCHANGED <<ppc, next_seq, unpublished>>
  BY <1>6 DEF producer
<1>14. ConsumerType'
  <2>1. pending' \in 0 .. Now' /\ view' \in 0 .. Now'
    BY <1>3, <1>6, <1>10, <1>12
  <2>2. copy' \subseteq {Uninit} \union 0 .. MaxSeq
    BY <1>1, <1>8 DEF IInv, ConsumerInv, ConsumerType
  <2>3. word' \in 0 .. Words
    BY <1>6, Sizes
  <2> QED BY <1>6, <1>13, <2>1, <2>2, <2>3 DEF IInv, ConsumerInv, ConsumerType
<1>15. TailIsKnown'
  <2>1. ASSUME NEW q \in Nat, q < tail_cache' PROVE Written(view, q)'
    <3>1. Written(v, q)
      BY <1>3, <1>6, <2>1, ConsumerFacts
    <3>2. Written(v, q)'
      BY <1>12, <3>1
    <3>3. view' = v
      BY <1>3, <1>6
    <3> QED BY <3>2, <3>3 DEF Written
  <2> QED BY <2>1 DEF TailIsKnown
<1>16. CopyIsHonest'
  <2>1. pos' = here /\ here < tail_cache' /\ seen_seq' = 2 * here + 2
    BY <1>2, <1>6 DEF IInv, ConsumerInv, CopyIsHonest
  <2>2. ASSUME NEW y \in copy' PROVE y = pos' \/ Overwriting(known, pos)'
    <3>1. y = here \/ Overwriting(m, here)'
      BY <1>11, <1>12
    <3>2. Overwriting(m, here)' => Overwriting(known, pos)'
      BY <1>10, <2>1 DEF Overwriting, Generation, slot
    <3> QED BY <2>1, <3>1, <3>2
  <2>3. copy' # {}
    BY <1>1
  <2> QED BY <1>6, <2>1, <2>2, <2>3 DEF CopyIsHonest
<1>17. LapIsReal' /\ CloseIsKnown'
  BY <1>6 DEF LapIsReal, CloseIsKnown
<1>18. ClosedMeansDrained'
  BY <1>6, <1>13 DEF IInv, ConsumerInv, ClosedMeansDrained
<1> QED BY <1>14, <1>15, <1>16, <1>17, <1>18 DEF ConsumerInv

\* Knowing more of the stores disturbs nothing the consumer holds.
LEMMA ViewGrows ==
  ASSUME BroadcastAssumption, IInv, UNCHANGED producer,
         NEW v \in Nat, view = v, NEW j \in 0 .. Now, view' = j, v <= j,
         UNCHANGED <<pos, tail_cache, seen_seq, copy, word, pending, result>>,
         \/ cpc' = cpc
         \/ cpc = "copy" /\ word = Words /\ cpc' = "revalidate" /\ pending <= j
  PROVE  ConsumerInv'
<1>1. /\ \A a, q : (Written(a, q)' <=> Written(a, q)) /\ (Overwriting(a, q)' <=> Overwriting(a, q))
      /\ \A a : Closes(a)' <=> Closes(a)
      /\ Now' = Now /\ begun' = begun
  BY ReadOnly DEF IInv
<1>2. UNCHANGED <<ppc, next_seq, unpublished>> /\ Now \in Nat
  BY ConsumerFacts DEF producer
<1>3. ConsumerType'
  <2>1. view' \in 0 .. Now'
    BY <1>1
  <2> QED BY <1>1, <1>2, <2>1 DEF IInv, ConsumerInv, ConsumerType
<1>4. TailIsKnown'
  <2>1. ASSUME NEW q \in Nat, q < tail_cache' PROVE Written(view, q)'
    <3>1. Written(v, q)
      BY <2>1, ConsumerFacts
    <3>2. j \in Nat
      BY <1>2
    <3>3. Written(j, q)
      BY <3>1, <3>2, KnownGrows
    <3>4. Written(j, q)'
      BY <1>1, <3>3
    <3> QED BY <3>4 DEF Written
  <2> QED BY <2>1 DEF TailIsKnown
<1>5. CopyIsHonest'
  <2>1. PICK here \in Nat : pos = here /\ pos' = here
    BY ConsumerFacts
  <2>2. PICK k \in Nat : pending = k /\ pending' = k
    BY <1>2, ConsumerFacts
  <2>3. Overwriting(known, pos) /\ cpc \in {"copy", "revalidate"} => Overwriting(known, pos)'
    <3> SUFFICES ASSUME Overwriting(known, pos), cpc \in {"copy", "revalidate"} PROVE Overwriting(known, pos)'
      OBVIOUS
    <3>1. PICK a \in Nat, b \in Nat : known = a /\ known' = b /\ a <= b
      <4>1. CASE cpc' = cpc
        <5>1. CASE cpc = "copy"
          BY <2>2, <4>1, <5>1 DEF known
        <5>2. CASE cpc = "revalidate"
          <6>1. j \in Nat
            BY <1>2
          <6> QED BY <4>1, <5>2, <6>1 DEF known
        <5> QED BY <5>1, <5>2
      <4>2. CASE cpc = "copy" /\ word = Words /\ cpc' = "revalidate" /\ pending <= j
        <5>1. j \in Nat
          BY <1>2
        <5> QED BY <2>2, <4>2, <5>1 DEF known
      <4> QED BY <4>1, <4>2
    <3>2. Overwriting(a, here)
      BY <2>1, <3>1
    <3>3. Overwriting(b, here)
      BY <3>1, <3>2, KnownGrows
    <3>4. Overwriting(b, here)'
      BY <1>1, <3>3
    <3> QED BY <2>1, <3>1, <3>4 DEF Overwriting, Generation, slot
  <2> QED BY <2>3 DEF IInv, ConsumerInv, CopyIsHonest
<1>6. LapIsReal'
  BY <1>1 DEF IInv, ConsumerInv, LapIsReal
<1>7. CloseIsKnown'
  <2> SUFFICES ASSUME cpc' = "recheck" PROVE \E t \in 1 .. view' : Closes(t)'
    BY DEF CloseIsKnown
  <2>1. PICK t \in 1 .. v : Closes(t)
    BY DEF IInv, ConsumerInv, CloseIsKnown
  <2>2. t \in 1 .. j
    BY <1>2
  <2> QED BY <1>1, <2>1, <2>2
<1>8. ClosedMeansDrained'
  BY <1>2 DEF IInv, ConsumerInv, ClosedMeansDrained
<1> QED BY <1>3, <1>4, <1>5, <1>6, <1>7, <1>8 DEF ConsumerInv

\* read_valid, the Acquire fence after the copy.
LEMMA CopyFenceStep ==
  ASSUME BroadcastAssumption, IInv, CopyFence
  PROVE  ConsumerInv'
<1>1. PICK v \in Nat : view = v /\ v <= Now
  BY ConsumerFacts
<1>2. PICK k \in Nat : pending = k /\ k <= Now
  BY ConsumerFacts
<1>3. PICK j \in 0 .. Now : j = (IF k > v THEN k ELSE v)
  BY <1>1, <1>2, ConsumerFacts
<1>4. view' = j /\ v <= j /\ pending <= j
  BY <1>1, <1>2, <1>3 DEF CopyFence, Fenced
<1>5. /\ UNCHANGED <<producer, pos, tail_cache, seen_seq, copy, word, pending, result>>
      /\ cpc = "copy" /\ word = Words /\ cpc' = "revalidate"
  BY DEF CopyFence
<1> QED BY <1>1, <1>4, <1>5, ViewGrows

\* Memory catches up.
LEMMA CatchUpStep ==
  ASSUME BroadcastAssumption, IInv, CatchUp
  PROVE  ConsumerInv'
<1>1. PICK v \in Nat : view = v /\ v <= Now
  BY ConsumerFacts
<1>2. PICK j \in 0 .. Now : j = Now
  BY ConsumerFacts
<1>3. view' = j /\ v <= j
  BY <1>1, <1>2 DEF CatchUp
<1>4. UNCHANGED <<producer, cpc, pos, tail_cache, seen_seq, copy, word, pending, result>>
  BY DEF CatchUp
<1> QED BY <1>1, <1>3, <1>4, ViewGrows

\* read_valid, the generation after the fence: unchanged, the copy is whole.
LEMMA RevalidateStep ==
  ASSUME BroadcastAssumption, IInv, Revalidate
  PROVE  ConsumerInv' /\ (Abstract!Receive \/ UNCHANGED <<pos, result>>)
<1>1. PICK t \in Visible(Generation(pos)) :
        IF Value(t) = seen_seq
        THEN cpc' = "idle" /\ pos' = pos + 1 /\ result' = Returned("item", copy)
        ELSE cpc' = "lapped" /\ UNCHANGED <<pos, result>>
  BY DEF Revalidate
<1>2. PICK here \in Nat : pos = here
  BY ConsumerFacts
<1>3. PICK cached \in Nat : tail_cache = cached
  BY ConsumerFacts
<1>4. PICK v \in 0 .. Now : view = v
  BY ConsumerFacts
<1>5. /\ UNCHANGED <<producer, tail_cache, view>> /\ cpc = "revalidate"
      /\ seen_seq' = 0 /\ copy' = {} /\ word' = 0 /\ pending' = 0
  BY DEF Revalidate
<1>6. /\ here < cached /\ seen_seq = 2 * here + 2 /\ word = Words
      /\ \A x \in copy : x = here \/ Overwriting(v, here)
      /\ copy # {}
  <2>1. known = view /\ word = Words /\ Words > 0
    BY <1>5, Sizes DEF known, IInv, ConsumerInv, CopyIsHonest
  <2> QED BY <1>2, <1>3, <1>4, <1>5, <2>1 DEF IInv, ConsumerInv, CopyIsHonest
<1>7. Written(view, here) /\ ProducerInv /\ view \in 0 .. Now /\ Now \in Nat
  BY <1>3, <1>6, ConsumerFacts DEF IInv
<1>8. /\ t \in 1 .. Now /\ log[t].val \in Nat
      /\ log[t].val # 2 * here + 2 => begun > here + Capacity
      /\ Overwriting(view, here) => log[t].val > 2 * here + 2
  BY <1>1, <1>2, <1>7, GenerationLoad
<1>9. Value(t) = log[t].val
  BY <1>8 DEF Value
<1>10. here <= next_seq - unpublished /\ cached <= next_seq - unpublished /\ (\A q \in Nat : q < cached => Written(v, q))
       /\ next_seq - unpublished \in Nat
  BY <1>2, <1>3, <1>4, ConsumerFacts
<1>11. view' = v /\ tail_cache' = cached /\ pending' \in 0 .. Now /\ seen_seq' \in Nat
  BY <1>3, <1>4, <1>5, <1>7
<1>12. CASE log[t].val = 2 * here + 2
  <2>1. cpc' = "idle" /\ pos' = here + 1 /\ result' = Returned("item", copy)
    BY <1>1, <1>2, <1>6, <1>9, <1>12
  <2>2. copy = {here}
    <3>1. ~Overwriting(v, here)
      BY <1>4, <1>8, <1>12
    <3> QED BY <1>6, <3>1
  <2>3. here + 1 \in Nat /\ here + 1 <= next_seq - unpublished /\ result'.kind = "item"
    BY <1>6, <1>10, <2>1 DEF Returned
  <2>4. ConsumerInv'
    BY <1>5, <1>10, <1>11, <2>1, <2>3, Settles
  <2>5. begun' = begun /\ published' = published
    BY <1>5, ReadOnly DEF IInv
  <2>6. pos < published
    BY <1>2, <1>6, <1>10, ConsumerFacts
  <2>7. Abstract!Receive
    BY <1>2, <2>1, <2>2, <2>5, <2>6 DEF Abstract!Receive, Abstract!Item, Returned, begun
  <2> QED BY <2>4, <2>7
<1>13. CASE log[t].val # 2 * here + 2
  <2>1. cpc' = "lapped" /\ pos' = here /\ result' = result /\ UNCHANGED <<pos, result>>
    BY <1>1, <1>2, <1>6, <1>9, <1>13
  <2>2. begun > here + Capacity
    BY <1>8, <1>13
  <2>3. /\ result'.kind \in {"none", "item", "lagged", "skipped", "closed", "out"}
        /\ result'.kind = "closed" => ppc = "closed" /\ here = next_seq
    BY <1>2, <2>1 DEF IInv, ConsumerInv, ConsumerType, ClosedMeansDrained
  <2>4. ConsumerInv'
    BY <1>5, <1>10, <1>11, <2>1, <2>2, <2>3, Settles
  <2> QED BY <2>1, <2>4
<1> QED BY <1>12, <1>13

-----------------------------------------------------------------------------
(* The producer's steps as steps of the log *)

\* TailIsPublished after a step.
LEMMA PublishedAfter ==
  ASSUME Now' \in Nat, NEW v, TailIs(v)'
  PROVE  published' = v
<1> DEFINE tails == {t \in 1 .. Now' : log'[t].loc = TailWord}
           newest == CHOOSE t \in tails : \A u \in tails : u <= t
<1>1. CASE tails = {}
  <2>1. v = 0
    BY <1>1 DEF TailIs, Tails
  <2> QED BY <1>1, <2>1 DEF published
<1>2. CASE tails # {}
  <2>1. PICK t \in 1 .. Now' : Tails(t, v)' /\ \A u \in t + 1 .. Now' : log'[u].loc # TailWord
    BY <1>2 DEF TailIs
  <2>2. t \in tails /\ \A u \in tails : u <= t
    BY <2>1 DEF Tails
  <2>3. newest \in tails /\ \A u \in tails : u <= newest
    BY <2>2, Zenon
  <2>4. newest = t
    BY <2>2, <2>3
  <2>5. published' = log'[newest].val
    BY <1>2 DEF published
  <2> QED BY <2>1, <2>4, <2>5 DEF Tails
<1> QED BY <1>1, <1>2

\* What every step of the producer shares: the debt is what the log shows.
LEMMA ProducerShares ==
  ASSUME BroadcastAssumption, IInv, ProducerInv', Grows, UNCHANGED consumer,
         NEW here \in Nat, here = next_seq - unpublished, NEW r \in Nat, next_seq' - unpublished' = r, here <= r,
         NEW b \in Nat, begun' = b, begun <= b, ppc # "closed"
  PROVE  IInv' /\ published = here /\ published' = r
<1>1. published = here
  BY ConsumerFacts
<1>2. published' = r
  <2>1. TailIs(r)'
    BY DEF ProducerInv
  <2>2. Now' \in Nat
    BY DEF Grows
  <2> QED BY <2>1, <2>2, PublishedAfter
<1>3. ConsumerInv'
  BY ConsumerKept DEF IInv
<1> QED BY <1>1, <1>2, <1>3 DEF IInv

\* What the producer's invariant gives each step.
LEMMA ProducerFacts ==
  ASSUME IInv
  PROVE  /\ begun \in Nat /\ next_seq \in Nat /\ unpublished \in 0 .. next_seq
         /\ tail_batch \in 1 .. MaxBatch
         /\ ppc # "frontier" => unpublished < tail_batch
         /\ ppc = "frontier" => unpublished > 0
         /\ ppc \in {"closing", "closed"} => unpublished = 0
  BY BegunIsNat DEF IInv, ProducerInv, ProducerType

\* push begins a message of the log.
LEMMA InvalidateBegins ==
  ASSUME BroadcastAssumption, IInv, Invalidate
  PROVE  IInv' /\ Abstract!Begin
<1>1. ProducerInv' /\ Grows
  BY InvalidateStep DEF IInv
<1>2. PICK n \in Nat : next_seq = n
  BY ProducerFacts
<1>0. PICK d \in 0 .. n : unpublished = d
  BY <1>2, ProducerFacts
<1>3. begun = n /\ begun' = n + 1 /\ next_seq' = n /\ unpublished' = d /\ ppc # "closed" /\ UNCHANGED consumer
  BY <1>0, <1>2 DEF Invalidate, begun
<1>4. PICK here \in Nat : here = n - d
  OBVIOUS
<1>5. next_seq - unpublished = here /\ next_seq' - unpublished' = here /\ here <= here /\ n + 1 \in Nat /\ n <= n + 1
  BY <1>0, <1>2, <1>3, <1>4
<1>6. IInv' /\ published = here /\ published' = here
  BY <1>1, <1>3, <1>5, ProducerShares
<1>7. Abstract!Begin
  BY <1>3, <1>6 DEF Abstract!Begin, begun, consumer
<1> QED BY <1>6, <1>7

\* Steps that change neither what is begun nor what is published.
LEMMA ProducerStutters ==
  ASSUME BroadcastAssumption, IInv, ProducerInv', Grows, begun' = begun, UNCHANGED consumer,
         NEW n \in Nat, NEW d \in 0 .. n, next_seq = n, unpublished = d,
         NEW m \in Nat, NEW e \in 0 .. m, next_seq' = m, unpublished' = e, m - e = n - d,
         ppc # "closed"
  PROVE  IInv' /\ UNCHANGED <<begun, published, pos, result>>
<1>1. PICK here \in Nat : here = n - d
  OBVIOUS
<1>2. next_seq - unpublished = here /\ next_seq' - unpublished' = here /\ here <= here
  BY <1>1
<1>3. PICK b \in Nat : begun = b /\ begun' = b /\ b <= b
  BY ProducerFacts
<1>4. IInv' /\ published = here /\ published' = here
  BY <1>2, <1>3, ProducerShares
<1> QED BY <1>4 DEF consumer

\* A store to the tail publishes what was owed.
LEMMA TailPublishes ==
  ASSUME BroadcastAssumption, IInv, publish_tail, UNCHANGED <<fenced, next_seq>>, UNCHANGED consumer,
         ppc \in {"idle", "frontier"}, ppc' \in {"idle", "closing"}, tail_batch' \in 1 .. MaxBatch,
         unpublished > 0
  PROVE  IInv' /\ Abstract!Publish
<1>1. ProducerInv' /\ Grows /\ begun' = begun
  BY TailStep DEF IInv
<1>2. PICK n \in Nat : next_seq = n
  BY ProducerFacts
<1>0. PICK d \in 0 .. n : unpublished = d
  BY <1>2, ProducerFacts
<1>3. next_seq' = n /\ unpublished' = 0 /\ begun = n /\ d > 0
  BY <1>0, <1>2 DEF publish_tail, begun
<1>4. PICK here \in Nat : here = n - d
  OBVIOUS
<1>5. next_seq - unpublished = here /\ next_seq' - unpublished' = n /\ here <= n /\ n <= n
  BY <1>0, <1>2, <1>3, <1>4
<1>6. begun' = n /\ ppc # "closed"
  BY <1>1, <1>3
<1>7. IInv' /\ published = here /\ published' = n
  BY <1>1, <1>3, <1>5, <1>6, ProducerShares
<1>8. n \in here + 1 .. n
  BY <1>3, <1>4
<1>9. Abstract!Publish
  BY <1>1, <1>3, <1>7, <1>8 DEF Abstract!Publish, begun, consumer
<1> QED BY <1>7, <1>9

\* Every step of the producer keeps the invariant and maps to the log.
LEMMA ProducerSteps ==
  ASSUME BroadcastAssumption, IInv, ProducerNext
  PROVE  IInv' /\ (Abstract!Next \/ UNCHANGED <<begun, published, pos, result>>)
<1>0. PICK n \in Nat : next_seq = n
  BY ProducerFacts
<1>1. PICK d \in 0 .. n : next_seq = n /\ unpublished = d
  BY <1>0, ProducerFacts
<1>2. CASE Invalidate
  BY <1>2, InvalidateBegins DEF Abstract!Next
<1>3. CASE WritePayload
  <2>1. ProducerInv' /\ Grows
    BY <1>3, WritePayloadStep DEF IInv
  <2>2. begun' = begun /\ next_seq' = n /\ unpublished' = d /\ ppc # "closed" /\ UNCHANGED consumer
    BY <1>1, <1>3 DEF WritePayload, begun
  <2> QED BY <1>1, <2>1, <2>2, ProducerStutters
<1>4. CASE PublishSlot
  <2>1. ProducerInv' /\ Grows /\ begun' = begun
    BY <1>4, PublishSlotStep DEF IInv
  <2>2. next_seq' = n + 1 /\ unpublished' = d + 1 /\ ppc # "closed" /\ UNCHANGED consumer
    BY <1>1, <1>4 DEF PublishSlot
  <2>3. n + 1 \in Nat /\ d + 1 \in 0 .. n + 1 /\ (n + 1) - (d + 1) = n - d
    OBVIOUS
  <2> QED BY <1>1, <2>1, <2>2, <2>3, ProducerStutters
<1>5. CASE PublishTail
  <2>1. publish_tail /\ UNCHANGED <<fenced, next_seq>> /\ UNCHANGED consumer /\ ppc = "frontier" /\ ppc' = "idle"
        /\ tail_batch' = tail_batch
    BY <1>5 DEF PublishTail
  <2>2. unpublished > 0 /\ tail_batch \in 1 .. MaxBatch
    BY <2>1, ProducerFacts
  <2> QED BY <2>1, <2>2, TailPublishes DEF Abstract!Next
<1>6. CASE Flush
  <2>1. publish_tail /\ unpublished > 0 /\ UNCHANGED <<fenced, next_seq>> /\ UNCHANGED consumer
        /\ ppc = "idle" /\ ppc' = "idle" /\ tail_batch' = tail_batch
    BY <1>6 DEF Flush, flush
  <2>2. tail_batch \in 1 .. MaxBatch
    BY ProducerFacts
  <2> QED BY <2>1, <2>2, TailPublishes DEF Abstract!Next
<1>7. ASSUME NEW r \in 1 .. Capacity, SetTailBatch(r)
      PROVE  IInv' /\ (Abstract!Next \/ UNCHANGED <<begun, published, pos, result>>)
  <2>1. PICK b \in 1 .. MaxBatch : tail_batch' = b
    <3>1. Clamp(r, 1, MaxBatch) \in 1 .. MaxBatch
      BY Sizes DEF Clamp
    <3> QED BY <1>7, <3>1 DEF SetTailBatch
  <2>2. ppc = "idle" /\ ppc' = "idle" /\ UNCHANGED <<fenced, next_seq>> /\ UNCHANGED consumer
    BY <1>7 DEF SetTailBatch
  <2>3. CASE d >= b
    <3>1. publish_tail /\ unpublished > 0
      <4>1. d > 0
        BY <2>3, Sizes
      <4> QED BY <1>1, <1>7, <2>1, <2>3, <4>1 DEF SetTailBatch
    <3> QED BY <2>1, <2>2, <3>1, TailPublishes DEF Abstract!Next
  <2>4. CASE d < b
    <3>1. UNCHANGED <<log, unpublished>>
      <4>1. ~(d >= b)
        BY <2>4, Sizes
      <4> QED BY <1>1, <1>7, <2>1, <4>1 DEF SetTailBatch
    <3>2. ProducerInv' /\ Grows /\ begun' = begun
      BY <1>1, <2>1, <2>2, <2>4, <3>1, StorelessStep DEF IInv
    <3>3. next_seq' = n /\ unpublished' = d /\ n - d = n - d
      BY <1>1, <2>2, <3>1
    <3> QED BY <1>1, <2>2, <3>2, <3>3, ProducerStutters
  <2> QED BY <2>3, <2>4, Sizes
<1>8. CASE DropProducer
  <2>1. ppc = "idle" /\ ppc' = "closing" /\ UNCHANGED <<fenced, next_seq>> /\ UNCHANGED consumer
        /\ tail_batch' = tail_batch /\ flush
    BY <1>8 DEF DropProducer
  <2>2. tail_batch \in 1 .. MaxBatch /\ unpublished < tail_batch
    BY <2>1, ProducerFacts
  <2>3. CASE d > 0
    <3>1. publish_tail
      BY <1>1, <2>1, <2>3 DEF flush
    <3> QED BY <1>1, <2>1, <2>2, <2>3, <3>1, TailPublishes DEF Abstract!Next
  <2>4. CASE ~(d > 0)
    <3>1. UNCHANGED <<log, unpublished>> /\ unpublished = 0
      BY <1>1, <2>1, <2>4 DEF flush
    <3>2. ProducerInv' /\ Grows /\ begun' = begun
      BY <2>1, <2>2, <3>1, StorelessStep DEF IInv
    <3>3. next_seq' = n /\ unpublished' = d /\ n - d = n - d
      BY <1>1, <2>1, <3>1
    <3> QED BY <1>1, <2>1, <3>2, <3>3, ProducerStutters
  <2> QED BY <2>3, <2>4
<1>9. CASE StoreClosed
  <2>1. ProducerInv' /\ Grows /\ begun' = begun
    BY <1>9, StoreClosedStep DEF IInv
  <2>2. next_seq' = n /\ unpublished' = d /\ ppc # "closed" /\ UNCHANGED consumer /\ n - d = n - d
    BY <1>1, <1>9 DEF StoreClosed
  <2> QED BY <1>1, <2>1, <2>2, ProducerStutters
<1> QED BY <1>2, <1>3, <1>4, <1>5, <1>6, <1>7, <1>8, <1>9 DEF ProducerNext, Pushing

\* So does every step of the consumer, and of the memory.
LEMMA ConsumerSteps ==
  ASSUME BroadcastAssumption, IInv, CatchUp \/ Subscribe \/ Pop \/ SkipToLatest
  PROVE  IInv' /\ (Abstract!Next \/ UNCHANGED <<begun, published, pos, result>>)
<1>1. UNCHANGED producer
  BY DEF CatchUp, Subscribe, Pop, SkipToLatest, Refresh, CheckClosed, Recheck, LoadSeq, CopyWord,
         CopyFence, Revalidate, Reposition
<1>2. ProducerInv' /\ begun' = begun /\ published' = published
  BY <1>1, ReadOnly DEF IInv
<1>3. CASE CatchUp
  <2>1. UNCHANGED <<pos, result>>
    BY <1>3 DEF CatchUp
  <2> QED BY <1>2, <1>3, <2>1, CatchUpStep DEF IInv
<1>4. CASE Subscribe
  BY <1>2, <1>4, SubscribeStep DEF IInv, Abstract!Next
<1>5. CASE SkipToLatest
  BY <1>2, <1>5, SkipToLatestStep DEF IInv, Abstract!Next
<1>6. CASE Refresh
  <2>1. UNCHANGED <<pos, result>>
    BY <1>6 DEF Refresh
  <2> QED BY <1>2, <1>6, <2>1, RefreshStep DEF IInv
<1>7. CASE CheckClosed
  <2>1. UNCHANGED <<pos, result>>
    BY <1>7 DEF CheckClosed
  <2> QED BY <1>2, <1>7, <2>1, CheckClosedStep DEF IInv
<1>8. CASE Recheck
  BY <1>2, <1>8, RecheckStep DEF IInv, Abstract!Next
<1>9. CASE LoadSeq
  <2>1. UNCHANGED <<pos, result>>
    BY <1>9 DEF LoadSeq
  <2> QED BY <1>2, <1>9, <2>1, LoadSeqStep DEF IInv
<1>10. CASE CopyWord
  <2>1. UNCHANGED <<pos, result>>
    BY <1>10 DEF CopyWord
  <2> QED BY <1>2, <1>10, <2>1, CopyWordStep DEF IInv
<1>11. CASE CopyFence
  <2>1. UNCHANGED <<pos, result>>
    BY <1>11 DEF CopyFence
  <2> QED BY <1>2, <1>11, <2>1, CopyFenceStep DEF IInv
<1>12. CASE Revalidate
  BY <1>2, <1>12, RevalidateStep DEF IInv, Abstract!Next
<1>13. CASE Reposition
  BY <1>2, <1>13, RepositionStep DEF IInv, Abstract!Next
<1> QED BY <1>3, <1>4, <1>5, <1>6, <1>7, <1>8, <1>9, <1>10, <1>11, <1>12, <1>13 DEF Pop

\* Every step keeps the invariant and maps to the log.
LEMMA StepOfLog ==
  ASSUME BroadcastAssumption, IInv, [Next]_vars
  PROVE  IInv' /\ (Abstract!Next \/ UNCHANGED <<begun, published, pos, result>>)
<1>1. CASE ProducerNext
  BY <1>1, ProducerSteps
<1>2. CASE CatchUp \/ Subscribe \/ Pop \/ SkipToLatest
  BY <1>2, ConsumerSteps
<1>3. CASE UNCHANGED vars
  <2>1. UNCHANGED producer /\ UNCHANGED consumer
    BY <1>3 DEF vars
  <2>2. ProducerInv' /\ begun' = begun /\ published' = published
    BY <2>1, ReadOnly DEF IInv
  <2>3. PICK v \in Nat : view = v /\ v <= Now
    BY ConsumerFacts
  <2>4. PICK j \in 0 .. Now : j = v
    BY <2>3, ConsumerFacts
  <2>5. view' = j /\ v <= j /\ cpc' = cpc /\ UNCHANGED <<pos, tail_cache, seen_seq, copy, word, pending, result>>
    BY <2>1, <2>3, <2>4 DEF consumer
  <2>6. ConsumerInv'
    BY <2>1, <2>3, <2>5, ViewGrows
  <2> QED BY <2>2, <2>5, <2>6 DEF IInv
<1> QED BY <1>1, <1>2, <1>3 DEF Next

\* The invariant holds at the start.
LEMMA Initially ==
  ASSUME BroadcastAssumption, Init
  PROVE  IInv /\ begun = 0 /\ published = 0
<1>1. log = << >> /\ Now = 0 /\ log \in Seq(Store) /\ 1 .. 0 = {}
  BY DEF Init, Now
<1>2. begun = 0 /\ next_seq = 0 /\ unpublished = 0 /\ ppc = "idle" /\ next_seq - unpublished = 0
  BY DEF Init, begun
<1>3. ProducerType
  BY <1>1, <1>2, Sizes DEF Init, ProducerType
<1>4. Stores /\ Rising
  BY <1>1 DEF Stores, Rising
<1>5. InHand
  BY <1>2 DEF InHand
<1>6. TailIs(0)
  BY <1>1 DEF TailIs
<1>7. published = 0
  BY <1>1, <1>6, TailIsPublished
<1>8. ProducerInv
  BY <1>2, <1>3, <1>4, <1>5, <1>6 DEF ProducerInv
<1>9. ConsumerType
  BY <1>1, <1>2, Sizes DEF ConsumerType, Init, Returned
<1>10. TailIsKnown /\ CopyIsHonest /\ LapIsReal /\ CloseIsKnown /\ ClosedMeansDrained
  BY DEF Init, TailIsKnown, CopyIsHonest, LapIsReal, CloseIsKnown, ClosedMeansDrained, Returned
<1> QED BY <1>2, <1>7, <1>8, <1>9, <1>10 DEF IInv, ConsumerInv

-----------------------------------------------------------------------------
(* Theorems *)

\* The inductive invariant.
LEMMA Invariance ==
  ASSUME BroadcastAssumption
  PROVE  Spec => []IInv
<1>1. Init => IInv
  BY Initially
<1>2. IInv /\ [Next]_vars => IInv'
  BY StepOfLog
<1> QED BY <1>1, <1>2, PTL DEF Spec

\* Every variable stays in its domain, however long the ring runs.
THEOREM TypeCorrect ==
  ASSUME BroadcastAssumption
  PROVE  Spec => []TypeOK
<1>1. IInv => TypeOK
  <2> SUFFICES ASSUME IInv PROVE TypeOK
    OBVIOUS
  <2>1. ProducerType /\ ConsumerType /\ ProducerInv
    BY DEF IInv, ProducerInv, ConsumerInv
  <2>2. begun \in Nat /\ next_seq \in Nat /\ next_seq <= begun /\ begun <= MaxSeq
        /\ next_seq - unpublished \in Nat /\ next_seq - unpublished <= next_seq /\ Now \in Nat /\ MaxSeq \in Nat
    BY <2>1, BegunIsNat, Sizes
  <2>3. ASSUME NEW t \in 1 .. Now PROVE log[t].val \in Nat /\ log[t].rel \in 0 .. t
    <3>1. log[t] \in Store
      BY <2>1 DEF ProducerType, Now
    <3> QED BY <2>1, <3>1, RelIsPast DEF Store
  <2>4. next_seq \in 0 .. MaxSeq /\ pos \in 0 .. MaxSeq /\ tail_cache \in 0 .. MaxSeq
    BY <2>1, <2>2 DEF ConsumerType
  <2>5. ppc # "frontier" => unpublished \in 0 .. tail_batch - 1
    BY <2>1, Sizes DEF ProducerType
  <2> QED BY <2>1, <2>3, <2>4, <2>5 DEF TypeOK, ProducerType, ConsumerType
<1> QED BY <1>1, Invariance, PTL

\* A consumer that knows of a tail never finds the slot of a message below it
\* unwritten or behind, under the weak order of its loads.
THEOREM NeverBehind ==
  ASSUME BroadcastAssumption
  PROVE  Spec => []SlotNotBehind
<1>1. IInv => SlotNotBehind
  <2> SUFFICES ASSUME IInv, cpc = "idle" /\ tail_cache > pos, NEW t \in Visible(Generation(pos))
               PROVE  Value(t) >= 2 * pos + 2
    BY DEF SlotNotBehind
  <2>1. PICK here \in Nat : pos = here
    BY ConsumerFacts
  <2>2. Written(view, here) /\ view \in 0 .. Now /\ ProducerInv
    BY <2>1, ConsumerFacts DEF IInv
  <2>3. t \in 1 .. Now /\ log[t].val >= 2 * here + 2
    BY <2>1, <2>2, GenerationLoad
  <2>4. Value(t) = log[t].val
    BY <2>3 DEF Value
  <2> QED BY <2>1, <2>3, <2>4
<1> QED BY <1>1, Invariance, PTL

\* Closed is told only at the end: the producer gone, every message behind.
THEOREM ClosedIsDrained ==
  ASSUME BroadcastAssumption
  PROVE  Spec => []ClosedMeansDrained
<1>1. IInv => ClosedMeansDrained
  BY DEF IInv, ConsumerInv
<1> QED BY <1>1, Invariance, PTL

\* The ring implements the lossy log: no message is torn, repeated or handed
\* out of order, and a lag is reported only when the ring was really lapped,
\* whatever stores the weak memory lets the loads return.
THEOREM ImplementsLog ==
  ASSUME BroadcastAssumption
  PROVE  Spec => ImplementsLossyLog
<1>1. Init => Abstract!Init
  <2> SUFFICES ASSUME Init PROVE Abstract!Init
    OBVIOUS
  <2>1. begun = 0 /\ published = 0
    BY Initially
  <2> QED BY <2>1 DEF Init, Abstract!Init, Abstract!Nothing, Abstract!Out, Returned, begun
<1>2. IInv /\ [Next]_vars => [Abstract!Next]_(Abstract!vars)
  <2> SUFFICES ASSUME IInv, [Next]_vars PROVE [Abstract!Next]_(Abstract!vars)
    OBVIOUS
  <2>1. Abstract!Next \/ UNCHANGED <<begun, published, pos, result>>
    BY StepOfLog
  <2>2. CASE UNCHANGED <<begun, published, pos, result>>
    BY <2>2 DEF Abstract!vars, begun
  <2> QED BY <2>1, <2>2
<1> QED BY <1>1, <1>2, Invariance, PTL DEF Spec, ImplementsLossyLog, Abstract!Spec

-----------------------------------------------------------------------------
(* The byte ring: its log of stores *)

BytesLocations ==
  {<<"lane", q>> : q \in 0 .. capacity - 1} \union {TailIntent, Latest, TailCounter, CloseFlag}
BytesStore == [loc : BytesLocations, val : Int, rel : Nat]

Intent == Newest(TailIntent)

\* The first k stores declared to write past what a frame at x may keep; they
\* declared to write as far as x.
Passed(k, x) == \E t \in 1 .. k : log[t].loc = TailIntent /\ log[t].val > x + capacity
Announced(k, x) == x = 0 \/ \E t \in 1 .. k : log[t].loc = TailIntent /\ log[t].val >= x

\* Of the first k stores one wrote v at x, and whoever reads one that came after it
\* knows that x was passed.
Holds(x, v, k) ==
  \E t \in 1 .. k :
    /\ log[t].loc = Lane(x) /\ log[t].val = v
    /\ \A u \in t + 1 .. Now : log[u].loc = Lane(x) => Passed(log[u].rel, x)

HoldsHeaders(f, k) ==
  /\ f.at # f.start => Holds(f.start, PADDING, k)
  /\ Holds(f.at, f.record[1], k)
HoldsPayload(f, k) == \A at \in PayloadLanes(f.at, f.record[1]) : Holds(at, f.record[2], k)
HoldsFrame(f, k) == HoldsHeaders(f, k) /\ HoldsPayload(f, k)

-----------------------------------------------------------------------------
(* The byte ring: its frames *)

ByteFrames == [start : Nat, at : Nat, end : Nat, record : Lengths \X (1 .. MaxPushes)]

\* A frame as push lays one out: the record in one piece, after padding to the end of
\* the buffer where it would not fit.
LaidOut(f) ==
  /\ f \in ByteFrames
  /\ f.record[1] <= max_message_len
  /\ f.at = f.start \/ (f.at = f.start + ToEnd(f.start) /\ Position(f.at) = 0)
  /\ f.end = f.at + record_len(f.record[1])
  /\ Position(f.at) + record_len(f.record[1]) <= capacity

FrameEnd(n) == IF n = 0 THEN 0 ELSE frames[n].end
FrameEnds == {FrameEnd(n) : n \in 0 .. Len(frames)}
Committed == FrameEnd(Len(frames))

FramesOk ==
  /\ frames \in Seq(ByteFrames)
  /\ \A n \in DOMAIN frames : LaidOut(frames[n]) /\ frames[n].start = FrameEnd(n - 1)
  /\ \A m, n \in 0 .. Len(frames) : m < n => FrameEnd(m) < FrameEnd(n)

\* Places from which a frame can be read, now or once it is written: every lap of
\* the buffer begins with a record.
Place == FrameEnds \union {frames[n].at : n \in DOMAIN frames}
                   \union {x \in Committed .. Intent : Position(x) = 0}

-----------------------------------------------------------------------------
(* The byte ring: its stores, location by location *)

LogOk ==
  /\ log \in Seq(BytesStore)
  /\ \A t \in 1 .. Now : log[t].rel <= t

IntentOk ==
  /\ \A t \in 1 .. Now : log[t].loc = TailIntent => log[t].rel = t /\ log[t].val \in Nat
  /\ \A u \in 1 .. Now : \A t \in 1 .. u :
       log[t].loc = TailIntent /\ log[u].loc = TailIntent => log[t].val <= log[u].val
  /\ Committed <= Intent

\* A tail that was published, with what it publishes: n frames, all of them in the log.
Publishes(t, n) ==
  /\ log[t].rel = t /\ log[t].val = FrameEnd(n)
  /\ Announced(t, FrameEnd(n)) /\ \A m \in 1 .. n : HoldsFrame(frames[m], t)

TailsOk ==
  /\ \A t \in 1 .. Now : log[t].loc = TailCounter => \E n \in 0 .. Len(frames) : Publishes(t, n)
  /\ \A u \in 1 .. Now : \A t \in 1 .. u :
       log[t].loc = TailCounter /\ log[u].loc = TailCounter => log[t].val <= log[u].val
  /\ Newest(TailCounter) = Committed

LatestOk == \A t \in 1 .. Now : log[t].loc = Latest => log[t].rel = t /\ log[t].val \in Place

\* The first k stores published all that a session had committed when it closed.
KnowsClose(k) ==
  \E tail \in closes : tail = 0 \/ \E t \in 1 .. k : log[t].loc = TailCounter /\ log[t].val >= tail
ClosesOk ==
  /\ closes \subseteq Nat
  /\ \A t \in 1 .. Now : log[t].loc = CloseFlag => log[t].rel = t /\ (log[t].val # 0 => KnowsClose(t))

-----------------------------------------------------------------------------
(* The byte ring: its producer *)

Writing == {"declared", "headed", "filled", "pointed"}
Pushers == [pc : {"idle", "gone", "healing"} \union Writing, next : Nat, intent_floor : Nat, len : Nat]

Pending == [start |-> p.next, at |-> RecordAt, end |-> NewTail(p.len), record |-> <<p.len, pushes>>]

PusherOk ==
  /\ p \in Pushers /\ pushes \in 0 .. MaxPushes /\ fenced \in 0 .. Now
  /\ p.pc \in {"idle"} \union Writing => p.next = Committed
  /\ p.pc = "idle" => Intent \in {Committed, p.intent_floor}
  /\ p.pc \in Writing =>
       /\ pushes > 0 /\ p.len \in Lengths /\ p.len <= max_message_len
       /\ fenced > 0 /\ log[fenced].loc = TailIntent /\ log[fenced].val >= NewTail(p.len)
       /\ Intent \in {NewTail(p.len), p.intent_floor}
  /\ p.pc \in {"headed", "filled", "pointed"} => HoldsHeaders(Pending, Now)
  /\ p.pc \in {"filled", "pointed"} => HoldsPayload(Pending, Now)

-----------------------------------------------------------------------------
(* The byte ring: its consumer *)

ReadingPcs == {"window", "padding", "skipped", "copy"}
Readers ==
  [pc : {"out", "idle", "empty", "recheck", "lapped", "jump"} \union ReadingPcs, pos : Nat,
   tail_cache : Nat, cursor : Nat, len : Int, copied : SUBSET (Int \X Int)]

\* The frame it is reading.  What it has of it is the frame's, unless a fence would
\* tell it that the frame was passed.
Reading(f) ==
  /\ HoldsFrame(f, view) /\ Announced(view, f.end)
  /\ c.pos \in {f.start, f.at} /\ c.cursor \in {f.start, f.at}
  /\ ~Passed(Fenced, c.pos) =>
       /\ c.pc = "window" => c.cursor \in {c.pos, f.at}
       /\ c.pc = "padding" => c.cursor = f.start /\ c.cursor # f.at
       /\ c.pc \in {"skipped", "copy"} => c.cursor = f.at
       /\ c.pc = "copy" =>
            /\ c.len = f.record[1]
            /\ \A x \in c.copied : x[1] \in PayloadLanes(f.at, f.record[1]) /\ x[2] = f.record[2]

ReaderOk ==
  /\ c \in Readers /\ view \in 0 .. Now /\ pending \in 0 .. Now
  /\ c.pos \in Place
  /\ c.pc = "out" <=> outcome = Outcome("out", 0)
  /\ c.tail_cache = 0 \/ \E t \in 1 .. view : log[t].loc = TailCounter /\ log[t].val = c.tail_cache
  /\ c.pc \in {"lapped", "jump"} => Intent > c.pos + capacity
  /\ c.pc = "recheck" => KnowsClose(view)
  /\ c.pc = "copy" \/ c.copied = {}
  /\ c.pc \in ReadingPcs => \E n \in DOMAIN frames : Reading(frames[n])

BytesInv ==
  /\ LogOk /\ FramesOk /\ IntentOk /\ TailsOk /\ LatestOk /\ ClosesOk /\ PusherOk
  /\ (\A n \in DOMAIN frames : HoldsFrame(frames[n], Now)) /\ ReaderOk

-----------------------------------------------------------------------------
(* The byte ring: arithmetic *)

\* The capacity, as a number.
LEMMA CapacityType == capacity \in Nat \ {0} /\ capacity \in Int /\ capacity >= 8
BY BroadcastBytesAssumption DEF ALIGN, MIN_CAPACITY

\* The constants, and the longest message made of them.
LEMMA MessageType ==
  /\ max_message_len \in Nat /\ 2 * max_message_len <= capacity
  /\ Lengths \subseteq Nat /\ MaxPushes \in Nat
  /\ \E k \in Nat : capacity = 8 * k
<1>1. capacity \in Nat /\ capacity >= 8 /\ capacity % 8 = 0 /\ LengthDivisor \in Nat /\ LengthDivisor >= 2
      /\ Lengths \subseteq Nat /\ MaxPushes \in Nat
  BY BroadcastBytesAssumption DEF ALIGN, MIN_CAPACITY
<1>2. capacity = 8 * (capacity \div 8) /\ capacity \div 8 \in Nat
  BY <1>1
<1>3. max_message_len \in Nat /\ 2 * max_message_len <= capacity
  <2>1. PICK q \in Nat : q = capacity \div LengthDivisor
    BY <1>1
  <2>2. LengthDivisor * q <= capacity
    BY <1>1, <2>1
  <2>3. 2 * q <= LengthDivisor * q
    BY <1>1, <2>1
  <2>4. LengthDivisor * q \in Nat
    BY <1>1, <2>1
  <2> QED BY <1>1, <2>1, <2>2, <2>3, <2>4 DEF max_message_len
<1> QED BY <1>1, <1>2, <1>3

\* A record takes room for its header and its payload; one that may be pushed fits
\* the buffer.
LEMMA RecordLen ==
  ASSUME NEW len \in Nat
  PROVE  /\ record_len(len) \in Nat /\ record_len(len) >= 8 /\ record_len(len) >= 4 + len
         /\ record_len(len) >= 4 + 4 * lanes_of(len)
         /\ lanes_of(len) \in Nat /\ (lanes_of(len) = 0 <=> len = 0)
         /\ len <= max_message_len => record_len(len) <= capacity
<1>1. record_len(len) = ((len + 11) \div 8) * 8
  BY DEF record_len, align_up, HEADER, ALIGN
<1>2. PICK q \in Nat : q = (len + 11) \div 8 /\ 8 * q <= len + 11 /\ len + 11 < 8 * q + 8
  <2>1. (len + 11) \div 8 \in Nat /\ 8 * ((len + 11) \div 8) <= len + 11 /\ len + 11 < 8 * ((len + 11) \div 8) + 8
    OBVIOUS
  <2> QED BY <2>1
<1>3. PICK r \in Nat : r = (len + 3) \div 4 /\ 4 * r <= len + 3 /\ len + 3 < 4 * r + 4
  <2>1. (len + 3) \div 4 \in Nat /\ 4 * ((len + 3) \div 4) <= len + 3 /\ len + 3 < 4 * ((len + 3) \div 4) + 4
    OBVIOUS
  <2> QED BY <2>1
<1>4. record_len(len) = 8 * q /\ lanes_of(len) = r
  BY <1>1, <1>2, <1>3 DEF lanes_of, LANE
<1>5. 8 * q >= 8 /\ 8 * q >= 4 + len /\ 8 * q >= 4 + 4 * r /\ (r = 0 <=> len = 0)
  BY <1>2, <1>3
<1>6. ASSUME len <= max_message_len PROVE 8 * q <= capacity
  <2>1. PICK k \in Nat : capacity = 8 * k
    BY MessageType
  <2>2. 2 * len <= capacity /\ capacity >= 8
    BY <1>6, CapacityType, MessageType
  <2>3. len + 3 < 8 * k
    BY <2>1, <2>2
  <2>4. q <= k
    BY <1>2, <2>1, <2>3
  <2> QED BY <2>1, <2>4
<1> QED BY <1>4, <1>5, <1>6

\* Where a cursor is in the buffer, and what is left of the buffer from there.
LEMMA PositionType ==
  ASSUME NEW x \in Nat
  PROVE  /\ Position(x) \in Nat /\ Position(x) < capacity
         /\ ToEnd(x) \in Nat /\ 0 < ToEnd(x) /\ ToEnd(x) <= capacity
         /\ Position(x) + ToEnd(x) = capacity
<1>1. x \in Int
  OBVIOUS
<1>2. x % capacity \in 0 .. capacity - 1
  BY <1>1, CapacityType, ModInterval
<1> QED BY <1>2, CapacityType DEF Position, ToEnd

\* A cursor further on, as long as it stays in its lap, is further on in the buffer.
LEMMA PositionPlus ==
  ASSUME NEW x \in Nat, NEW k \in Nat, Position(x) + k < capacity
  PROVE  Position(x + k) = Position(x) + k
<1>1. x \in Int /\ x + k \in Int
  OBVIOUS
<1>2. PICK q \in Int : x = capacity * q + (x % capacity)
  BY <1>1, CapacityType, ModInterval, Zenon
<1>3. x % capacity \in Nat /\ (x % capacity) + k \in 0 .. capacity - 1
  <2>1. Position(x) \in Nat /\ Position(x) + k \in 0 .. capacity - 1
    BY PositionType, CapacityType
  <2> QED BY <2>1 DEF Position
<1>4. capacity * q \in Int
  BY CapacityType
<1>5. x + k = capacity * q + ((x % capacity) + k)
  BY <1>2, <1>3, <1>4
<1> QED BY <1>1, <1>3, <1>5, CapacityType, ModUnique DEF Position

\* The end of the buffer is the beginning of the next lap.
LEMMA PositionWrap ==
  ASSUME NEW x \in Nat
  PROVE  Position(x + ToEnd(x)) = 0
<1>1. x \in Int /\ x + ToEnd(x) \in Int
  BY PositionType
<1>2. PICK q \in Int : x = capacity * q + (x % capacity)
  BY <1>1, CapacityType, ModInterval, Zenon
<1>3. capacity * q \in Int /\ x % capacity \in Nat
  BY CapacityType, PositionType DEF Position
<1>4. x + ToEnd(x) = capacity * q + capacity
  BY <1>2, <1>3, CapacityType DEF ToEnd, Position
<1>5. capacity * q + capacity = capacity * (q + 1) + 0
  BY CapacityType
<1>6. x + ToEnd(x) = capacity * (q + 1) + 0
  BY <1>4, <1>5
<1>7. 0 \in 0 .. capacity - 1 /\ q + 1 \in Int /\ capacity \in Nat \ {0}
  BY CapacityType
<1>8. (x + ToEnd(x)) % capacity = 0
  BY <1>1, <1>6, <1>7, ModUnique
<1> QED BY <1>8 DEF Position

\* Distinct cursors of one position are a ring apart.
LEMMA Apart ==
  ASSUME NEW x \in Nat, NEW y \in Nat, x < y, Position(x) = Position(y)
  PROVE  y >= x + capacity
<1>1. capacity \in Nat \ {0}
  BY CapacityType
<1>2. x % capacity = y % capacity
  BY DEF Position
<1>3. ~(y - x < capacity)
  BY <1>1, <1>2, ModDistinct
<1> QED BY <1>1, <1>3

\* The larger of two.
LEMMA MaxOf ==
  ASSUME NEW x \in Int, NEW y \in Int
  PROVE  Max({x, y}) = IF x >= y THEN x ELSE y
<1>1. \E z \in {x, y} : \A w \in {x, y} : z >= w
  OBVIOUS
<1> QED BY <1>1 DEF Max

\* A set of naturals has a least element.
LEMMA Least ==
  ASSUME NEW S \in SUBSET Nat, S # {}
  PROVE  \E x \in S : \A y \in S : x <= y
<1> DEFINE R == {ss \in Nat \X Nat : ss[1] < ss[2]}
<1>1. IsWellFoundedOn(R, Nat)
  BY NatLessThanWellFounded, Zenon DEF OpToRel
<1>2. PICK x \in S : \A y \in S : ~(<<y, x>> \in R)
  <2> HIDE DEF R
  <2> QED BY <1>1, WFMin, Zenon
<1>3. ASSUME NEW y \in S PROVE x <= y
  <2>1. x \in Nat /\ y \in Nat /\ ~(<<y, x>> \in R)
    BY <1>2
  <2>2. ~(y < x)
    BY <2>1
  <2> QED BY <2>1, <2>2
<1> QED BY <1>3

\* The lanes of a record are the positions of cursors within it.
LEMMA LaneCursor ==
  ASSUME NEW at \in Nat, NEW len \in Nat, NEW x \in PayloadLanes(at, len)
  PROVE  /\ x \in Nat /\ at < x /\ x < at + record_len(len)
         /\ \E i \in 1 .. lanes_of(len) : x = at + HEADER + LANE * (i - 1)
<1>1. lanes_of(len) \in Nat /\ record_len(len) >= 4 + 4 * lanes_of(len) /\ record_len(len) \in Nat
  BY RecordLen
<1>2. PICK j \in 0 .. lanes_of(len) - 1 : x = at + 4 + 4 * j
  BY DEF PayloadLanes, HEADER, LANE
<1>3. j + 1 \in 1 .. lanes_of(len) /\ x = at + 4 + 4 * ((j + 1) - 1)
  BY <1>1, <1>2
<1> QED BY <1>1, <1>2, <1>3 DEF HEADER, LANE

\* And the other way round.
LEMMA CursorLane ==
  ASSUME NEW at \in Nat, NEW len \in Nat, NEW i \in 1 .. lanes_of(len)
  PROVE  at + HEADER + LANE * (i - 1) \in PayloadLanes(at, len)
<1>1. lanes_of(len) \in Nat
  BY RecordLen
<1>2. i - 1 \in 0 .. lanes_of(len) - 1
  BY <1>1
<1> QED BY <1>2 DEF PayloadLanes

-----------------------------------------------------------------------------
(* The byte ring: loads and stores *)

\* What a store is made of.
LEMMA StoreType ==
  ASSUME LogOk
  PROVE  /\ Now \in Nat /\ DOMAIN log = 1 .. Now /\ log \in Seq(BytesStore)
         /\ \A t \in 1 .. Now : /\ log[t] \in BytesStore /\ log[t].loc \in BytesLocations
                                /\ log[t].val \in Int /\ log[t].rel \in 0 .. t
<1>1. log \in Seq(BytesStore) /\ \A t \in 1 .. Now : log[t].rel <= t
  BY DEF LogOk
<1>2. Now \in Nat /\ DOMAIN log = 1 .. Now
  BY <1>1, LenProperties DEF Now
<1>3. \A t \in 1 .. Now : log[t] \in BytesStore
  BY <1>1, <1>2, ElementOfSeq DEF Now
<1> QED BY <1>1, <1>2, <1>3 DEF BytesStore

\* A lane is no counter, and the lane of every cursor at its position.
LEMMA LaneLocation ==
  ASSUME NEW x \in Nat
  PROVE  /\ Lane(x) \in BytesLocations /\ Lane(x) # TailIntent /\ Lane(x) # Latest
         /\ Lane(x) # TailCounter /\ Lane(x) # CloseFlag
         /\ \A y : Lane(x) = Lane(y) <=> Position(x) = Position(y)
<1>1. Position(x) \in 0 .. capacity - 1
  BY PositionType, CapacityType
<1> QED BY <1>1 DEF BytesLocations, Lane, TailIntent, Latest, TailCounter, CloseFlag

\* The four counters are four words.
LEMMA CounterLocation ==
  /\ TailIntent \in BytesLocations /\ Latest \in BytesLocations
  /\ TailCounter \in BytesLocations /\ CloseFlag \in BytesLocations
  /\ TailIntent # Latest /\ TailIntent # TailCounter /\ TailIntent # CloseFlag
  /\ Latest # TailCounter /\ Latest # CloseFlag /\ TailCounter # CloseFlag
BY DEF BytesLocations, TailIntent, Latest, TailCounter, CloseFlag

\* The last store to a location, or 0: Newest is its value.
LastStore(l, loc) ==
  CHOOSE t \in 0 .. Len(l) : (t = 0 \/ l[t].loc = loc) /\ \A u \in t + 1 .. Len(l) : l[u].loc # loc
IsLast(l, loc, t) ==
  t \in 0 .. Len(l) /\ (t = 0 \/ l[t].loc = loc) /\ \A u \in t + 1 .. Len(l) : l[u].loc # loc

\* A location has a last store, or none: then 0 stands for it.
LEMMA LastExists ==
  ASSUME NEW l, Len(l) \in Nat, NEW loc
  PROVE  IsLast(l, loc, LastStore(l, loc))
<1> PICK n \in Nat : n = Len(l)
  OBVIOUS
<1> DEFINE S == {d \in 0 .. n : n - d = 0 \/ l[n - d].loc = loc}
<1>1. S \in SUBSET Nat /\ n \in S
  OBVIOUS
<1>2. PICK d \in S : \A e \in S : d <= e
  <2> HIDE DEF S
  <2> QED BY <1>1, Least
<1>3. n - d \in 0 .. n /\ (n - d = 0 \/ l[n - d].loc = loc)
  OBVIOUS
<1>4. ASSUME NEW u \in (n - d) + 1 .. n, l[u].loc = loc PROVE FALSE
  <2>1. u \in Nat /\ n - u \in 0 .. n /\ n - (n - u) = u /\ n - u < d
    OBVIOUS
  <2>2. n - u \in S
    BY <1>4, <2>1
  <2>3. d <= n - u
    <3> HIDE DEF S
    <3> QED BY <1>2, <2>2
  <2> QED BY <2>1, <2>3
<1>5. \E t \in 0 .. n : (t = 0 \/ l[t].loc = loc) /\ \A u \in t + 1 .. n : l[u].loc # loc
  BY <1>3, <1>4
<1> QED BY <1>5 DEF LastStore, IsLast

\* It has only one.
LEMMA LastIs ==
  ASSUME NEW l, Len(l) \in Nat, NEW loc, NEW t, IsLast(l, loc, t)
  PROVE  LastStore(l, loc) = t
<1>1. PICK s : s = LastStore(l, loc)
  OBVIOUS
<1>2. IsLast(l, loc, s)
  BY <1>1, LastExists
<1>3. s \in Int /\ t \in Int
  BY <1>2 DEF IsLast
<1>4. CASE s < t
  <2>1. t \in s + 1 .. Len(l) /\ t # 0
    BY <1>2, <1>4 DEF IsLast
  <2> QED BY <1>2, <2>1 DEF IsLast
<1>5. CASE t < s
  <2>1. s \in t + 1 .. Len(l) /\ s # 0
    BY <1>2, <1>5 DEF IsLast
  <2> QED BY <1>2, <2>1 DEF IsLast
<1> QED BY <1>1, <1>3, <1>4, <1>5

\* The newest value of a location is that of its last store.
LEMMA NewestStore ==
  ASSUME Now \in Nat, NEW loc
  PROVE  \E t \in 0 .. Now : /\ IsStore(t, loc) /\ \A u \in t + 1 .. Now : log[u].loc # loc
                             /\ Newest(loc) = Value(t)
<1>1. IsLast(log, loc, LastStore(log, loc))
  BY LastExists DEF Now
<1>2. Newest(loc) = Value(LastStore(log, loc))
  BY DEF Newest, LastStore, IsStore, Now
<1> QED BY <1>1, <1>2 DEF IsLast, IsStore, Now

\* It stays what it is while nothing is stored there, and is then what was stored.
LEMMA NewestKept ==
  ASSUME Grows, NEW loc, \A u \in Now + 1 .. Now' : log'[u].loc # loc
  PROVE  Newest(loc)' = Newest(loc)
<1>0. Now \in Nat /\ Now' \in Nat /\ Now <= Now'
  BY DEF Grows
<1>1. PICK l, m : l = log /\ m = log'
  OBVIOUS
<1>2. Len(l) = Now /\ Len(m) = Now'
  BY <1>1 DEF Now
<1>3. PICK t : t = LastStore(l, loc)
  OBVIOUS
<1>4. IsLast(l, loc, t)
  BY <1>0, <1>2, <1>3, LastExists
<1>5. t \in 0 .. Len(m) /\ (t = 0 \/ m[t].loc = loc)
  BY <1>0, <1>1, <1>2, <1>4 DEF IsLast, Grows
<1>6. ASSUME NEW u \in t + 1 .. Len(m) PROVE m[u].loc # loc
  <2>1. CASE u <= Now
    <3>1. u \in t + 1 .. Now /\ m[u] = l[u]
      BY <1>0, <1>1, <1>2, <1>5, <2>1 DEF Grows
    <3> QED BY <1>2, <1>4, <3>1 DEF IsLast
  <2>2. CASE u > Now
    BY <1>0, <1>1, <1>2, <2>2
  <2> QED BY <1>0, <1>2, <1>5, <2>1, <2>2
<1>7. IsLast(m, loc, t)
  BY <1>5, <1>6 DEF IsLast
<1>8. LastStore(m, loc) = t
  BY <1>0, <1>2, <1>7, LastIs
<1>9. Newest(loc) = IF LastStore(l, loc) = 0 THEN 0 ELSE l[LastStore(l, loc)].val
  BY <1>1 DEF Newest, LastStore, IsStore, Now, Value
<1>10. Newest(loc)' = IF LastStore(m, loc) = 0 THEN 0 ELSE m[LastStore(m, loc)].val
  BY <1>1 DEF Newest, LastStore, IsStore, Now, Value
<1>11. t # 0 => m[t] = l[t]
  BY <1>0, <1>1, <1>2, <1>4 DEF IsLast, Grows
<1> QED BY <1>3, <1>8, <1>9, <1>10, <1>11

\* What was stored last is the newest.
LEMMA NewestStored ==
  ASSUME NEW n \in Nat, Now' = n, NEW loc, n > 0, log'[n].loc = loc
  PROVE  Newest(loc)' = log'[n].val
<1>1. PICK m : m = log'
  OBVIOUS
<1>2. Len(m) = n
  BY <1>1 DEF Now
<1>3. IsLast(m, loc, n)
  BY <1>1, <1>2 DEF IsLast
<1>4. LastStore(m, loc) = n
  BY <1>2, <1>3, LastIs
<1>5. Newest(loc)' = IF LastStore(m, loc) = 0 THEN 0 ELSE m[LastStore(m, loc)].val
  BY <1>1 DEF Newest, LastStore, IsStore, Now, Value
<1> QED BY <1>1, <1>4, <1>5

\* A step that appends one store.
LEMMA StoreAppended ==
  ASSUME LogOk, NEW r \in BytesStore, r.rel <= Now + 1, log' = Append(log, r)
  PROVE  /\ LogOk' /\ Grows /\ Now' = Now + 1 /\ log'[Now'] = r /\ Now' \in Nat /\ Now' > 0
         /\ \A u \in Now + 1 .. Now' : u = Now' /\ log'[u] = r
<1>1. log \in Seq(BytesStore) /\ \A t \in 1 .. Now : log[t].rel <= t
  BY DEF LogOk
<1>2. log' \in Seq(BytesStore)
  BY <1>1, AppendProperties
<1>3. Now' = Now + 1 /\ log'[Now + 1] = r /\ \A t \in 1 .. Now : log'[t] = log[t]
  BY <1>1, AppendProperties DEF Now
<1>4. Now \in Nat
  BY StoreType
<1>5. \A t \in 1 .. Now + 1 : t \in 1 .. Now \/ t = Now + 1
  BY <1>4
<1>6. \A t \in 1 .. Now' : log'[t].rel <= t
  BY <1>1, <1>3, <1>5
<1>7. Now' \in Nat /\ Now' > 0 /\ Now <= Now' /\ \A u \in Now + 1 .. Now' : u = Now'
  BY <1>3, <1>4
<1>8. LogOk'
  BY <1>2, <1>6 DEF LogOk
<1> QED BY <1>3, <1>4, <1>7, <1>8 DEF Grows

\* A step that appends a few.
LEMMA StoresAppended ==
  ASSUME LogOk, NEW s \in Seq(BytesStore), \A i \in 1 .. Len(s) : s[i].rel <= Now + i, log' = log \o s
  PROVE  /\ LogOk' /\ Grows /\ Now' = Now + Len(s) /\ Len(s) \in Nat
         /\ \A i \in 1 .. Len(s) : Now + i \in Now + 1 .. Now' /\ log'[Now + i] = s[i]
         /\ \A u \in Now + 1 .. Now' : \E i \in 1 .. Len(s) : u = Now + i
<1>1. log \in Seq(BytesStore) /\ \A t \in 1 .. Now : log[t].rel <= t
  BY DEF LogOk
<1>2. Now \in Nat /\ Len(s) \in Nat
  BY StoreType, LenProperties
<1>3. log' \in Seq(BytesStore)
  BY <1>1, ConcatProperties
<1>4. /\ Now' = Now + Len(s)
      /\ \A t \in 1 .. Now + Len(s) : log'[t] = IF t <= Now THEN log[t] ELSE s[t - Now]
  BY <1>1, ConcatProperties DEF Now
<1>5. ASSUME NEW t \in 1 .. Now PROVE log'[t] = log[t]
  <2>1. t \in 1 .. Now + Len(s) /\ t <= Now
    BY <1>2
  <2> QED BY <1>4, <2>1
<1>6. ASSUME NEW i \in 1 .. Len(s) PROVE Now + i \in Now + 1 .. Now' /\ log'[Now + i] = s[i]
  <2>1. Now + i \in 1 .. Now + Len(s) /\ ~(Now + i <= Now) /\ (Now + i) - Now = i
    BY <1>2
  <2>2. log'[Now + i] = s[(Now + i) - Now]
    BY <1>4, <2>1
  <2> QED BY <1>2, <1>4, <2>1, <2>2
<1>7. ASSUME NEW u \in Now + 1 .. Now' PROVE \E i \in 1 .. Len(s) : u = Now + i
  <2>1. u - Now \in 1 .. Len(s) /\ u = Now + (u - Now)
    BY <1>2, <1>4
  <2> QED BY <2>1
<1>8. ASSUME NEW t \in 1 .. Now' PROVE log'[t].rel <= t
  <2>1. CASE t \in 1 .. Now
    BY <1>1, <1>5, <2>1
  <2>2. CASE t \notin 1 .. Now
    <3>1. t \in Now + 1 .. Now'
      BY <1>2, <1>4, <2>2
    <3>2. PICK i \in 1 .. Len(s) : t = Now + i
      BY <1>7, <3>1
    <3> QED BY <1>6, <3>2
  <2> QED BY <2>1, <2>2
<1>9. LogOk'
  BY <1>3, <1>8 DEF LogOk
<1>10. Now' \in Nat /\ Now <= Now'
  BY <1>2, <1>4
<1> QED BY <1>2, <1>4, <1>5, <1>6, <1>7, <1>9, <1>10 DEF Grows

\* A step that stores nothing.
LEMMA NothingStored ==
  ASSUME LogOk, UNCHANGED log
  PROVE  LogOk' /\ Grows /\ Now' = Now /\ \A u \in Now + 1 .. Now' : FALSE
<1>1. Now \in Nat /\ Now' = Now
  BY StoreType DEF Now
<1>2. LogOk'
  BY <1>1 DEF LogOk
<1> QED BY <1>1, <1>2 DEF Grows

-----------------------------------------------------------------------------
(* The byte ring: what the log holds stays there *)

\* What was passed, or announced, stays so as the log grows.
LEMMA PassedKept ==
  ASSUME Grows, NEW k \in 0 .. Now, NEW x
  PROVE  (Passed(k, x) => Passed(k, x)') /\ (Announced(k, x) => Announced(k, x)')
<1>1. \A t \in 1 .. k : log'[t] = log[t]
  BY DEF Grows
<1> QED BY <1>1 DEF Passed, Announced

\* More stores pass, and announce, as much; and less far is no harder.
LEMMA PassedMore ==
  ASSUME LogOk, NEW k \in 0 .. Now, NEW j \in 0 .. Now, k <= j, NEW x \in Nat, NEW y \in Nat, y <= x
  PROVE  (Passed(k, x) => Passed(j, y)) /\ (Announced(k, x) => Announced(j, y))
<1>1. /\ \A t \in 1 .. k : t \in 1 .. j /\ log[t].val \in Int
      /\ capacity \in Nat
  BY StoreType, CapacityType
<1>2. Passed(k, x) => Passed(j, y)
  BY <1>1 DEF Passed
<1>3. ASSUME Announced(k, x) PROVE Announced(j, y)
  <2>1. CASE x = 0
    <3>1. y = 0
      BY <2>1
    <3> QED BY <3>1 DEF Announced
  <2>2. CASE x # 0
    <3>1. PICK t \in 1 .. k : log[t].loc = TailIntent /\ log[t].val >= x
      BY <1>3, <2>2 DEF Announced
    <3>2. t \in 1 .. j /\ log[t].val >= y
      BY <1>1, <3>1
    <3> QED BY <3>1, <3>2 DEF Announced
  <2> QED BY <2>1, <2>2
<1> QED BY <1>2, <1>3

\* What the first stores hold, more of them hold.
LEMMA HoldsMore ==
  ASSUME LogOk, NEW k \in 0 .. Now, NEW j \in 0 .. Now, k <= j
  PROVE  /\ \A x, v : Holds(x, v, k) => Holds(x, v, j)
         /\ \A f : HoldsFrame(f, k) => HoldsFrame(f, j)
<1>1. \A t \in 1 .. k : t \in 1 .. j
  BY StoreType
<1>2. \A x, v : Holds(x, v, k) => Holds(x, v, j)
  BY <1>1, Zenon DEF Holds
<1>3. ASSUME NEW f, HoldsFrame(f, k) PROVE HoldsFrame(f, j)
  <2>1. HoldsHeaders(f, j)
    BY <1>2, <1>3, Zenon DEF HoldsFrame, HoldsHeaders
  <2>2. HoldsPayload(f, j)
    BY <1>2, <1>3, Zenon DEF HoldsFrame, HoldsPayload
  <2> QED BY <2>1, <2>2 DEF HoldsFrame
<1> QED BY <1>2, <1>3

\* No new store is to the lane at x, but by a producer that declared to pass it.
Spares(x) == \A u \in Now + 1 .. Now' : log'[u].loc = Lane(x) => Passed(log[u].rel, x)'

\* What is held stays held while no store to its lane is hidden from whoever reads it.
LEMMA HoldsKept ==
  ASSUME LogOk, Grows, NEW x, NEW v, NEW k \in 0 .. Now, Holds(x, v, k), Spares(x)
  PROVE  Holds(x, v, k)'
<1>1. PICK t \in 1 .. k : /\ log[t].loc = Lane(x) /\ log[t].val = v
                          /\ \A u \in t + 1 .. Now : log[u].loc = Lane(x) => Passed(log[u].rel, x)
  BY DEF Holds
<1>2. Now \in Nat /\ Now' \in Nat /\ Now <= Now' /\ \A u \in 1 .. Now : log'[u] = log[u]
  BY DEF Grows
<1>3. log'[t] = log[t] /\ Lane(x)' = Lane(x)
  BY <1>2 DEF Lane, Position
<1>4. ASSUME NEW u \in t + 1 .. Now', log'[u].loc = Lane(x) PROVE Passed(log[u].rel, x)'
  <2>1. CASE u <= Now
    <3>1. u \in t + 1 .. Now /\ u \in 1 .. Now /\ log'[u] = log[u]
      BY <1>2, <2>1
    <3>2. PICK r : r = log[u].rel
      OBVIOUS
    <3>3. r \in 0 .. Now /\ Passed(r, x)
      BY <1>1, <1>4, <3>1, <3>2, StoreType
    <3>4. Passed(r, x)'
      BY <3>3, PassedKept
    <3> QED BY <3>1, <3>2, <3>4 DEF Passed
  <2>2. CASE u > Now
    <3>1. u \in Now + 1 .. Now'
      BY <1>2, <2>2
    <3> QED BY <1>4, <3>1 DEF Spares
  <2> QED BY <1>2, <2>1, <2>2
<1> QED BY <1>1, <1>3, <1>4 DEF Holds

-----------------------------------------------------------------------------
(* The byte ring: frames *)

\* The parts of a frame, and the room they take.
LEMMA Framed ==
  ASSUME NEW f, LaidOut(f)
  PROVE  /\ f.start \in Nat /\ f.at \in Nat /\ f.end \in Nat
         /\ f.record = <<f.record[1], f.record[2]>>
         /\ f.record[1] \in Nat /\ f.record[1] \in Lengths /\ f.record[2] \in 1 .. MaxPushes
         /\ f.start <= f.at /\ f.at + 8 <= f.end
         /\ f.end = f.at + record_len(f.record[1]) /\ record_len(f.record[1]) \in Nat
         /\ f.record[1] <= max_message_len /\ record_len(f.record[1]) <= ToEnd(f.at)
<1>1. f \in ByteFrames /\ f.end = f.at + record_len(f.record[1]) /\ f.record[1] <= max_message_len
  BY DEF LaidOut
<1>2. /\ f.start \in Nat /\ f.at \in Nat /\ f.end \in Nat /\ f.record = <<f.record[1], f.record[2]>>
      /\ f.record[1] \in Lengths /\ f.record[2] \in 1 .. MaxPushes
  BY <1>1 DEF ByteFrames
<1>3. f.record[1] \in Nat
  BY <1>2, MessageType
<1>4. record_len(f.record[1]) \in Nat /\ record_len(f.record[1]) >= 8
  BY <1>3, RecordLen
<1>5. ToEnd(f.start) \in Nat
  BY <1>2, PositionType
<1>6. f.at = f.start \/ f.at = f.start + ToEnd(f.start)
  BY DEF LaidOut
<1>7. f.start <= f.at /\ f.at + 8 <= f.end
  BY <1>1, <1>2, <1>4, <1>5, <1>6
<1>8. record_len(f.record[1]) <= ToEnd(f.at)
  <2>1. Position(f.at) + record_len(f.record[1]) <= capacity
    BY DEF LaidOut
  <2>2. Position(f.at) \in Nat /\ ToEnd(f.at) \in Nat /\ Position(f.at) + ToEnd(f.at) = capacity
    BY <1>2, PositionType
  <2> QED BY <1>4, <2>1, <2>2, CapacityType
<1> QED BY <1>1, <1>2, <1>3, <1>4, <1>7, <1>8

\* What a frame holds, it keeps, as long as its lanes are spared.
LEMMA HeadersKept ==
  ASSUME LogOk, Grows, NEW f, LaidOut(f), NEW k \in 0 .. Now, HoldsHeaders(f, k),
         \A x \in Nat : f.start <= x /\ x <= f.at => Spares(x)
  PROVE  HoldsHeaders(f, k)'
<1>1. f.start \in Nat /\ f.at \in Nat /\ f.start <= f.at
  BY Framed
<1>2. Spares(f.start) /\ Spares(f.at)
  BY <1>1
<1>3. f.at # f.start => Holds(f.start, PADDING, k)'
  BY <1>2, HoldsKept DEF HoldsHeaders
<1>4. Holds(f.at, f.record[1], k)'
  BY <1>2, HoldsKept DEF HoldsHeaders
<1> QED BY <1>3, <1>4 DEF HoldsHeaders, PADDING

\* The same of its payload.
LEMMA PayloadKept ==
  ASSUME LogOk, Grows, NEW f, LaidOut(f), NEW k \in 0 .. Now, HoldsPayload(f, k),
         \A x \in Nat : f.start <= x /\ x < f.end => Spares(x)
  PROVE  HoldsPayload(f, k)'
<1>1. /\ f.start \in Nat /\ f.at \in Nat /\ f.start <= f.at /\ f.end \in Nat /\ f.record[1] \in Nat
      /\ f.end = f.at + record_len(f.record[1])
  BY Framed
<1>2. ASSUME NEW x \in PayloadLanes(f.at, f.record[1]) PROVE Holds(x, f.record[2], k)'
  <2>1. x \in Nat /\ f.at < x /\ x < f.end
    BY <1>1, LaneCursor
  <2>2. Spares(x)
    BY <1>1, <2>1
  <2>3. Holds(x, f.record[2], k)
    BY DEF HoldsPayload
  <2> QED BY <2>2, <2>3, HoldsKept
<1> QED BY <1>2 DEF HoldsPayload, PayloadLanes, lanes_of, HEADER, LANE

\* And of the whole frame.
LEMMA FrameKept ==
  ASSUME LogOk, Grows, NEW f, LaidOut(f), NEW k \in 0 .. Now, HoldsFrame(f, k),
         \A x \in Nat : f.start <= x /\ x < f.end => Spares(x)
  PROVE  HoldsFrame(f, k)'
<1>1. f.at \in Nat /\ f.end \in Nat /\ f.at + 8 <= f.end
  BY Framed
<1>2. \A x \in Nat : f.start <= x /\ x <= f.at => Spares(x)
  BY <1>1
<1>3. HoldsHeaders(f, k) /\ HoldsPayload(f, k)
  BY DEF HoldsFrame
<1>4. HoldsHeaders(f, k)'
  BY <1>2, <1>3, HeadersKept
<1>5. HoldsPayload(f, k)'
  BY <1>3, PayloadKept
<1> QED BY <1>4, <1>5 DEF HoldsFrame

\* The frames, one after the other.
LEMMA FrameIndex ==
  ASSUME FramesOk
  PROVE  /\ Len(frames) \in Nat /\ DOMAIN frames = 1 .. Len(frames)
         /\ frames \in Seq(ByteFrames)
         /\ \A n \in DOMAIN frames : /\ n \in Nat /\ n > 0 /\ n <= Len(frames)
                                     /\ n - 1 \in 0 .. Len(frames) /\ n \in 0 .. Len(frames)
                                     /\ frames[n].start = FrameEnd(n - 1) /\ frames[n].end = FrameEnd(n)
                                     /\ LaidOut(frames[n])
<1>1. frames \in Seq(ByteFrames)
  BY DEF FramesOk
<1>2. Len(frames) \in Nat /\ DOMAIN frames = 1 .. Len(frames)
  BY <1>1, LenProperties
<1> QED BY <1>1, <1>2 DEF FramesOk, FrameEnd

\* Where a frame ends.
LEMMA EndType ==
  ASSUME FramesOk, NEW n \in 0 .. Len(frames)
  PROVE  FrameEnd(n) \in Nat /\ FrameEnd(n) <= Committed /\ FrameEnd(n) \in FrameEnds
<1>0. Len(frames) \in Nat /\ DOMAIN frames = 1 .. Len(frames)
  BY FrameIndex
<1>1. ASSUME NEW m \in 0 .. Len(frames) PROVE FrameEnd(m) \in Nat
  <2>1. CASE m = 0
    BY <2>1 DEF FrameEnd
  <2>2. CASE m # 0
    <3>1. m \in DOMAIN frames
      BY <2>2, <1>0
    <3>2. LaidOut(frames[m])
      BY <3>1, FrameIndex
    <3> QED BY <2>2, <3>2, Framed DEF FrameEnd
  <2> QED BY <2>1, <2>2
<1>2. Len(frames) \in 0 .. Len(frames)
  BY <1>0
<1>3. FrameEnd(n) <= FrameEnd(Len(frames))
  <2>1. CASE n = Len(frames)
    BY <1>1, <2>1
  <2>2. CASE n # Len(frames)
    <3>1. n < Len(frames)
      <4>1. PICK l \in Nat : l = Len(frames)
        BY <1>0
      <4>2. n \in 0 .. l /\ n # l
        BY <2>2, <4>1
      <4> QED BY <4>1, <4>2
    <3>2. FrameEnd(n) < FrameEnd(Len(frames))
      BY <1>2, <3>1 DEF FramesOk
    <3> QED BY <1>1, <1>2, <3>2
  <2> QED BY <2>1, <2>2
<1> QED BY <1>1, <1>3 DEF Committed, FrameEnds

\* Where the frames end: none past what was committed.
LEMMA EndsType ==
  ASSUME FramesOk
  PROVE  /\ \A e \in FrameEnds : e \in Nat /\ e <= Committed
         /\ Committed \in FrameEnds /\ Committed \in Nat /\ 0 \in FrameEnds
<1>1. \A e \in FrameEnds : e \in Nat /\ e <= Committed
  <2> TAKE e \in FrameEnds
  <2>1. PICK n \in 0 .. Len(frames) : e = FrameEnd(n)
    BY DEF FrameEnds
  <2> QED BY <2>1, EndType
<1>2. Len(frames) \in 0 .. Len(frames) /\ 0 \in 0 .. Len(frames) /\ 0 = FrameEnd(0)
  BY FrameIndex DEF FrameEnd
<1>3. Committed \in FrameEnds /\ 0 \in FrameEnds
  BY <1>2 DEF FrameEnds, Committed
<1> QED BY <1>1, <1>3

\* The parts of a committed frame.
LEMMA FrameTail ==
  ASSUME FramesOk, NEW n \in DOMAIN frames
  PROVE  /\ LaidOut(frames[n]) /\ frames[n].end <= Committed
         /\ frames[n].start \in FrameEnds /\ frames[n].end \in FrameEnds
         /\ frames[n].start \in Nat /\ frames[n].at \in Nat /\ frames[n].end \in Nat
         /\ frames[n].start <= frames[n].at /\ frames[n].at + 8 <= frames[n].end
<1>1. /\ n - 1 \in 0 .. Len(frames) /\ n \in 0 .. Len(frames)
      /\ frames[n].start = FrameEnd(n - 1) /\ frames[n].end = FrameEnd(n)
      /\ LaidOut(frames[n])
  BY FrameIndex
<1> QED BY <1>1, EndType, Framed

\* A place that a published tail is past is in a frame that it publishes.
LEMMA NextFrame ==
  ASSUME FramesOk, NEW m \in 0 .. Len(frames), NEW x \in Place, x < FrameEnd(m)
  PROVE  \E n \in 1 .. m : n \in DOMAIN frames /\ x \in {frames[n].start, frames[n].at}
                           /\ frames[n].end <= FrameEnd(m)
<1>0. Len(frames) \in Nat /\ DOMAIN frames = 1 .. Len(frames)
  BY FrameIndex
<1>1. FrameEnd(m) \in Nat /\ FrameEnd(m) <= Committed /\ Committed \in Nat
  BY EndType, EndsType
<1>2. ASSUME NEW n \in DOMAIN frames, frames[n].start <= x, x \in Nat
      PROVE  n \in 1 .. m /\ frames[n].end <= FrameEnd(m)
  <2>1. /\ n \in Nat /\ n > 0 /\ n - 1 \in 0 .. Len(frames) /\ n \in 0 .. Len(frames)
        /\ frames[n].start = FrameEnd(n - 1) /\ frames[n].end = FrameEnd(n)
    BY <1>2, FrameIndex
  <2>2. FrameEnd(n - 1) \in Nat /\ FrameEnd(n) \in Nat
    BY <2>1, EndType
  <2>3. FrameEnd(n - 1) < FrameEnd(m)
    BY <1>1, <1>2, <2>1, <2>2
  <2>4. ~(m <= n - 1)
    <3>1. CASE m = n - 1
      <4>1. FrameEnd(m) = FrameEnd(n - 1)
        BY <3>1
      <4> QED BY <1>1, <2>2, <2>3, <4>1
    <3>2. CASE m < n - 1
      <4>1. FrameEnd(m) < FrameEnd(n - 1)
        BY <2>1, <3>2 DEF FramesOk
      <4> QED BY <1>1, <2>2, <2>3, <4>1
    <3> QED BY <2>1, <3>1, <3>2
  <2>5. n <= m
    BY <2>1, <2>4
  <2>6. FrameEnd(n) <= FrameEnd(m)
    <3>1. CASE n = m
      BY <2>2, <3>1
    <3>2. CASE n # m
      <4>1. n < m
        BY <2>1, <2>5, <3>2
      <4>2. FrameEnd(n) < FrameEnd(m)
        BY <2>1, <4>1 DEF FramesOk
      <4> QED BY <1>1, <2>2, <4>2
    <3> QED BY <3>1, <3>2
  <2> QED BY <2>1, <2>5, <2>6
<1>3. CASE x \in FrameEnds
  <2>1. PICK k \in 0 .. Len(frames) : x = FrameEnd(k)
    BY <1>3 DEF FrameEnds
  <2>2. k # Len(frames) /\ x \in Nat
    <3>1. x \in Nat
      BY <2>1, EndType
    <3>2. k # Len(frames)
      BY <1>1, <2>1, <3>1 DEF Committed
    <3> QED BY <3>1, <3>2
  <2>3. k + 1 \in DOMAIN frames /\ (k + 1) - 1 = k
    <3>1. PICK l \in Nat : l = Len(frames)
      BY <1>0
    <3>2. k \in 0 .. l /\ k # l
      BY <2>2, <3>1
    <3>3. k + 1 \in 1 .. l /\ (k + 1) - 1 = k
      BY <3>1, <3>2
    <3>4. DOMAIN frames = 1 .. l
      BY <1>0, <3>1, Zenon
    <3> QED BY <3>3, <3>4
  <2>4. frames[k + 1].start = x
    BY <2>1, <2>3, FrameIndex
  <2> QED BY <1>2, <2>2, <2>3, <2>4
<1>4. CASE x \in {frames[n].at : n \in DOMAIN frames}
  <2>1. PICK n \in DOMAIN frames : x = frames[n].at
    BY <1>4
  <2>2. x \in Nat /\ frames[n].start <= x
    BY <2>1, FrameTail
  <2> QED BY <1>2, <2>1, <2>2
<1>5. CASE x \in {y \in Committed .. Intent : Position(y) = 0}
  BY <1>1, <1>5
<1> QED BY <1>3, <1>4, <1>5 DEF Place

\* No intent is larger than the last.
LEMMA IntentType ==
  ASSUME LogOk, FramesOk, IntentOk
  PROVE  /\ Intent \in Nat /\ Committed \in Nat /\ Committed <= Intent
         /\ \A t \in 1 .. Now : log[t].loc = TailIntent => log[t].val \in Nat /\ log[t].val <= Intent
<1>1. Now \in Nat
  BY StoreType
<1>2. PICK s \in 0 .. Now : /\ IsStore(s, TailIntent) /\ \A u \in s + 1 .. Now : log[u].loc # TailIntent
                            /\ Intent = Value(s)
  BY <1>1, NewestStore DEF Intent
<1>3. Intent \in Nat
  BY <1>1, <1>2 DEF IsStore, Value, IntentOk
<1>4. ASSUME NEW t \in 1 .. Now, log[t].loc = TailIntent PROVE log[t].val \in Nat /\ log[t].val <= Intent
  <2>1. ~(t \in s + 1 .. Now)
    BY <1>2, <1>4
  <2>2. t <= s
    BY <1>1, <1>2, <2>1
  <2>3. s \in 1 .. Now /\ t \in 1 .. s
    BY <1>1, <1>2, <2>2
  <2>4. log[s].loc = TailIntent /\ Intent = log[s].val
    BY <1>2, <2>3 DEF IsStore, Value
  <2> QED BY <1>4, <2>3, <2>4 DEF IntentOk
<1> QED BY <1>3, <1>4, EndsType DEF IntentOk

\* Passed is what the window check finds.
LEMMA PassedIntent ==
  ASSUME LogOk, FramesOk, IntentOk, NEW k \in 0 .. Now, NEW x \in Nat, Passed(k, x)
  PROVE  Intent > x + capacity
<1>1. PICK t \in 1 .. k : log[t].loc = TailIntent /\ log[t].val > x + capacity
  BY DEF Passed
<1>2. t \in 1 .. Now
  BY StoreType
<1> QED BY <1>1, <1>2, IntentType, CapacityType

\* Nobody reads from past the intent.
LEMMA PlaceType ==
  ASSUME LogOk, FramesOk, IntentOk, NEW x \in Place
  PROVE  x \in Nat /\ x <= Intent
<1>1. Committed \in Nat /\ Intent \in Nat /\ Committed <= Intent
  BY IntentType
<1>2. CASE x \in FrameEnds
  BY <1>1, <1>2, EndsType
<1>3. CASE x \in {frames[n].at : n \in DOMAIN frames}
  <2>1. PICK n \in DOMAIN frames : x = frames[n].at
    BY <1>3
  <2> QED BY <1>1, <2>1, FrameTail
<1>4. CASE x \in {y \in Committed .. Intent : Position(y) = 0}
  BY <1>1, <1>4
<1> QED BY <1>2, <1>3, <1>4 DEF Place

-----------------------------------------------------------------------------
(* The byte ring: what a producer's step keeps *)

KeepsFrames == \A n \in DOMAIN frames : n \in DOMAIN frames' /\ frames'[n] = frames[n]
SparesFrames == \A x \in Nat : x < Committed => Spares(x)

\* The frames end where they did.
LEMMA EndKept ==
  ASSUME FramesOk, KeepsFrames, NEW n \in 0 .. Len(frames)
  PROVE  FrameEnd(n)' = FrameEnd(n)
<1>1. CASE n = 0
  BY <1>1 DEF FrameEnd
<1>2. CASE n # 0
  <2>1. n \in DOMAIN frames
    BY <1>2, FrameIndex
  <2> QED BY <1>2, <2>1 DEF FrameEnd, KeepsFrames
<1> QED BY <1>1, <1>2

\* And hold what they held.
LEMMA HeldKept ==
  ASSUME LogOk, Grows, FramesOk, KeepsFrames, SparesFrames,
         NEW n \in DOMAIN frames, NEW k \in 0 .. Now, HoldsFrame(frames[n], k)
  PROVE  HoldsFrame(frames[n], k)'
<1>1. PICK f : f = frames[n]
  OBVIOUS
<1>2. LaidOut(f) /\ f.end <= Committed /\ f.start \in Nat /\ f.end \in Nat
  BY <1>1, FrameTail
<1>3. \A x \in Nat : f.start <= x /\ x < f.end => Spares(x)
  BY <1>2, EndsType DEF SparesFrames
<1>4. HoldsFrame(f, k)'
  BY <1>1, <1>2, <1>3, FrameKept
<1>5. frames'[n] = f
  BY <1>1 DEF KeepsFrames
<1> QED BY <1>4, <1>5

\* A tail goes on publishing what it did.
LEMMA PublishesKept ==
  ASSUME LogOk, Grows, FramesOk, KeepsFrames, SparesFrames,
         NEW t \in 1 .. Now, NEW n \in 0 .. Len(frames), Publishes(t, n)
  PROVE  Publishes(t, n)'
<1>1. PICK e : e = FrameEnd(n)
  OBVIOUS
<1>2. FrameEnd(n)' = e /\ log'[t] = log[t] /\ t \in 0 .. Now
  BY <1>1, EndKept DEF Grows
<1>3. log'[t].rel = t /\ log'[t].val = FrameEnd(n)'
  BY <1>1, <1>2 DEF Publishes
<1>4. Announced(t, FrameEnd(n))'
  <2>1. Announced(t, e)
    BY <1>1 DEF Publishes
  <2>2. Announced(t, e)'
    BY <1>2, <2>1, PassedKept
  <2> QED BY <1>2, <2>2
<1>5. ASSUME NEW m \in 1 .. n PROVE HoldsFrame(frames[m], t)'
  <2>1. m \in DOMAIN frames
    BY FrameIndex
  <2>2. HoldsFrame(frames[m], t)
    BY DEF Publishes
  <2> QED BY <1>2, <2>1, <2>2, HeldKept
<1> QED BY <1>3, <1>4, <1>5 DEF Publishes

\* The intent stays what it is while no other is declared.
LEMMA IntentKept ==
  ASSUME LogOk, Grows, FramesOk, IntentOk, \A u \in Now + 1 .. Now' : log'[u].loc # TailIntent,
         Committed' \in Nat, Committed' <= Intent
  PROVE  IntentOk' /\ Intent' = Intent
<1>1. Intent' = Intent
  BY NewestKept DEF Intent
<1>2. \A t \in 1 .. Now' : log'[t].loc = TailIntent => t \in 1 .. Now /\ log'[t] = log[t]
  BY DEF Grows
<1>3. \A t \in 1 .. Now' : log'[t].loc = TailIntent => log'[t].rel = t /\ log'[t].val \in Nat
  BY <1>2 DEF IntentOk
<1>4. ASSUME NEW u \in 1 .. Now', NEW t \in 1 .. u, log'[t].loc = TailIntent, log'[u].loc = TailIntent
      PROVE  log'[t].val <= log'[u].val
  <2>1. u \in 1 .. Now /\ log'[u] = log[u]
    BY <1>2, <1>4
  <2>2. t \in 1 .. Now /\ log'[t] = log[t]
    BY <2>1 DEF Grows
  <2> QED BY <1>4, <2>1, <2>2 DEF IntentOk
<1> QED BY <1>1, <1>3, <1>4 DEF IntentOk

\* And so do the tails while none is published.
LEMMA TailsKept ==
  ASSUME LogOk, Grows, FramesOk, TailsOk, UNCHANGED frames, SparesFrames,
         \A u \in Now + 1 .. Now' : log'[u].loc # TailCounter
  PROVE  TailsOk'
<1>1. KeepsFrames /\ Len(frames') = Len(frames)
  BY DEF KeepsFrames
<1>2. \A t \in 1 .. Now' : log'[t].loc = TailCounter => t \in 1 .. Now /\ log'[t] = log[t]
  BY DEF Grows
<1>3. ASSUME NEW t \in 1 .. Now', log'[t].loc = TailCounter
      PROVE  \E n \in 0 .. Len(frames') : Publishes(t, n)'
  <2>1. t \in 1 .. Now /\ log[t].loc = TailCounter
    BY <1>2, <1>3
  <2>2. PICK n \in 0 .. Len(frames) : Publishes(t, n)
    BY <2>1 DEF TailsOk
  <2>3. Publishes(t, n)'
    BY <1>1, <2>1, <2>2, PublishesKept
  <2> QED BY <1>1, <2>3
<1>4. ASSUME NEW u \in 1 .. Now', NEW t \in 1 .. u, log'[t].loc = TailCounter, log'[u].loc = TailCounter
      PROVE  log'[t].val <= log'[u].val
  <2>1. u \in 1 .. Now /\ log'[u] = log[u]
    BY <1>2, <1>4
  <2>2. t \in 1 .. Now /\ log'[t] = log[t]
    BY <2>1 DEF Grows
  <2> QED BY <1>4, <2>1, <2>2 DEF TailsOk
<1>5. (Newest(TailCounter) = Committed)'
  <2>1. Newest(TailCounter)' = Newest(TailCounter)
    BY NewestKept
  <2>2. Committed' = Committed
    BY DEF Committed, FrameEnd
  <2> QED BY <2>1, <2>2 DEF TailsOk
<1> QED BY <1>3, <1>4, <1>5 DEF TailsOk

\* The jump targets remain places.
LEMMA LatestKept ==
  ASSUME Grows, LatestOk, Place \subseteq Place',
         \A u \in Now + 1 .. Now' : log'[u].loc = Latest => log'[u].rel = u /\ log'[u].val \in Place'
  PROVE  LatestOk'
<1> SUFFICES ASSUME NEW t \in 1 .. Now', log'[t].loc = Latest
             PROVE  log'[t].rel = t /\ log'[t].val \in Place'
  BY DEF LatestOk
<1>1. CASE t \in 1 .. Now
  BY <1>1 DEF Grows, LatestOk
<1>2. CASE t \notin 1 .. Now
  <2>1. t \in Now + 1 .. Now'
    BY <1>2 DEF Grows
  <2> QED BY <2>1
<1> QED BY <1>1, <1>2

\* What is known of a session that closed remains known.
LEMMA KnowsCloseKept ==
  ASSUME Grows, closes \subseteq closes', NEW k \in 0 .. Now, KnowsClose(k)
  PROVE  KnowsClose(k)'
<1>1. \A t \in 1 .. k : log'[t] = log[t]
  BY DEF Grows
<1> QED BY <1>1 DEF KnowsClose

\* The flag goes on telling the truth.
LEMMA ClosesKept ==
  ASSUME Grows, ClosesOk, closes \subseteq closes', closes' \subseteq Nat,
         \A u \in Now + 1 .. Now' :
           log'[u].loc = CloseFlag => log'[u].rel = u /\ (log'[u].val # 0 => KnowsClose(u)')
  PROVE  ClosesOk'
<1>1. ASSUME NEW t \in 1 .. Now', log'[t].loc = CloseFlag
      PROVE  log'[t].rel = t /\ (log'[t].val # 0 => KnowsClose(t)')
  <2>1. CASE t \in 1 .. Now
    <3>1. log'[t] = log[t] /\ t \in 0 .. Now
      BY <2>1 DEF Grows
    <3>2. log'[t].rel = t /\ (log'[t].val # 0 => KnowsClose(t))
      BY <1>1, <2>1, <3>1 DEF ClosesOk
    <3> QED BY <3>1, <3>2, KnowsCloseKept
  <2>2. CASE t \notin 1 .. Now
    <3>1. t \in Now + 1 .. Now'
      BY <2>2 DEF Grows
    <3> QED BY <1>1, <3>1
  <2> QED BY <2>1, <2>2
<1> QED BY <1>1 DEF ClosesOk

\* A place stays one while the log of frames does not grow.
LEMMA PlaceKept ==
  ASSUME FramesOk, UNCHANGED frames, Intent \in Nat, Intent' \in Nat, Intent <= Intent'
  PROVE  Place \subseteq Place' /\ FrameEnds' = FrameEnds /\ Committed' = Committed /\ FramesOk'
<1>1. FrameEnds' = FrameEnds /\ Committed' = Committed
  BY DEF FrameEnds, FrameEnd, Committed
<1>2. Committed \in Nat
  BY EndsType
<1>3. \A x \in Committed .. Intent : x \in Committed .. Intent'
  BY <1>2
<1>4. Place \subseteq Place'
  BY <1>1, <1>3 DEF Place, Position
<1>5. FramesOk'
  BY DEF FramesOk, FrameEnd, LaidOut, ByteFrames, max_message_len, ToEnd, Position, record_len, align_up,
         HEADER, ALIGN
<1> QED BY <1>1, <1>4, <1>5

\* Nobody but the consumer moves it.
LEMMA ReaderKept ==
  ASSUME LogOk, Grows, FramesOk, IntentOk, ReaderOk, UNCHANGED bytes_consumer, KeepsFrames, SparesFrames,
         Place \subseteq Place', Intent' \in Nat, Intent <= Intent', closes \subseteq closes'
  PROVE  ReaderOk'
<1>1. /\ c' = c /\ view' = view /\ pending' = pending /\ outcome' = outcome
      /\ c \in Readers /\ view \in 0 .. Now /\ pending \in 0 .. Now /\ c.pos \in Place
  BY DEF ReaderOk, bytes_consumer
<1>2. Now \in Nat /\ Now' \in Nat /\ Now <= Now' /\ \A t \in 1 .. Now : log'[t] = log[t]
  BY DEF Grows
<1>3. view' \in 0 .. Now' /\ pending' \in 0 .. Now' /\ c'.pos \in Place'
  BY <1>1, <1>2
<1>4. c'.tail_cache = 0 \/ \E t \in 1 .. view' : log'[t].loc = TailCounter /\ log'[t].val = c'.tail_cache
  <2>1. \A t \in 1 .. view : t \in 1 .. Now
    BY <1>1, <1>2
  <2> QED BY <1>1, <1>2, <2>1 DEF ReaderOk
<1>5. c.pos \in Nat
  BY <1>1 DEF Readers
<1>6. c'.pc \in {"lapped", "jump"} => Intent' > c'.pos + capacity
  BY <1>1, <1>5, IntentType, CapacityType DEF ReaderOk
<1>7. PICK k : k = view
  OBVIOUS
<1>8. c'.pc = "recheck" => KnowsClose(view)'
  <2> SUFFICES ASSUME c.pc = "recheck" PROVE KnowsClose(view)'
    BY <1>1
  <2>1. KnowsClose(k)'
    BY <1>1, <1>7, KnowsCloseKept DEF ReaderOk
  <2> QED BY <1>1, <1>7, <2>1
<1>9. ASSUME c.pc \in ReadingPcs PROVE \E n \in DOMAIN frames' : Reading(frames[n])'
  <2>1. PICK n \in DOMAIN frames : Reading(frames[n])
    BY <1>9 DEF ReaderOk
  <2>2. PICK f : f = frames[n]
    OBVIOUS
  <2>3. frames'[n] = f /\ n \in DOMAIN frames'
    BY <2>2 DEF KeepsFrames
  <2>4. PICK x, y : x = Fenced /\ y = c.pos
    OBVIOUS
  <2>5. x \in 0 .. Now /\ Fenced' = x /\ c'.pos = y
    BY <1>1, <1>2, <2>4 DEF Fenced
  <2>6. Passed(Fenced, c.pos) => Passed(Fenced, c.pos)'
    <3>1. Passed(x, y) => Passed(x, y)'
      BY <2>5, PassedKept
    <3> QED BY <2>4, <2>5, <3>1
  <2>7. HoldsFrame(frames[n], view)'
    <3>1. HoldsFrame(frames[n], k)
      BY <1>7, <2>1 DEF Reading
    <3>2. HoldsFrame(frames[n], k)'
      BY <1>1, <1>7, <3>1, HeldKept
    <3> QED BY <1>1, <1>7, <3>2
  <2>8. Announced(view, f.end)'
    <3>1. Announced(k, f.end)
      BY <1>7, <2>1, <2>2 DEF Reading
    <3>2. Announced(k, f.end)'
      BY <1>1, <1>7, <3>1, PassedKept
    <3> QED BY <1>1, <1>7, <3>2
  <2>9. Reading(f)
    BY <2>1, <2>2
  <2>10. HoldsFrame(f, view)'
    BY <2>3, <2>7
  <2>11. Reading(f)'
    BY <1>1, <2>6, <2>8, <2>9, <2>10 DEF Reading, PayloadLanes, lanes_of, HEADER, LANE
  <2> QED BY <2>3, <2>11
<1>10. c'.pc = "out" <=> outcome' = Outcome("out", 0)
  BY <1>1 DEF ReaderOk, Outcome
<1>11. c' \in Readers
  BY <1>1
<1>12. c'.pc \in ReadingPcs => \E n \in DOMAIN frames' : Reading(frames[n])'
  BY <1>1, <1>9
<1>13. c'.pc = "copy" \/ c'.copied = {}
  BY <1>1 DEF ReaderOk
<1> QED BY <1>3, <1>4, <1>6, <1>8, <1>10, <1>11, <1>12, <1>13 DEF ReaderOk, Outcome

-----------------------------------------------------------------------------
(* The byte ring: the record a producer is pushing *)

\* The padding before a record, the room it takes and the tail behind it.
LEMMA PadType ==
  ASSUME p.next \in Nat, NEW len \in Nat, len <= max_message_len
  PROVE  /\ Pad(len) \in Nat /\ NewTail(len) \in Nat /\ record_len(len) \in Nat /\ record_len(len) >= 8
         /\ p.next + Pad(len) + record_len(len) = NewTail(len)
         /\ Pad(len) = 0 \/ (Pad(len) = ToEnd(p.next) /\ Position(p.next + Pad(len)) = 0)
         /\ Position(p.next + Pad(len)) + record_len(len) <= capacity
<1>1. /\ Position(p.next) \in Nat /\ ToEnd(p.next) \in Nat /\ ToEnd(p.next) > 0
      /\ Position(p.next) + ToEnd(p.next) = capacity
  BY PositionType
<1>2. record_len(len) \in Nat /\ record_len(len) >= 8 /\ record_len(len) <= capacity
  BY RecordLen
<1>3. CASE record_len(len) <= ToEnd(p.next)
  <2>1. Pad(len) = 0 /\ p.next + 0 = p.next
    BY <1>3 DEF Pad
  <2>2. Position(p.next) + record_len(len) <= capacity
    BY <1>1, <1>2, <1>3, CapacityType
  <2> QED BY <1>2, <2>1, <2>2 DEF NewTail
<1>4. CASE ~(record_len(len) <= ToEnd(p.next))
  <2>1. Pad(len) = ToEnd(p.next)
    BY <1>4 DEF Pad
  <2>2. Position(p.next + ToEnd(p.next)) = 0
    BY PositionWrap
  <2>3. 0 + record_len(len) <= capacity
    BY <1>2
  <2>4. Position(p.next + Pad(len)) = 0 /\ Position(p.next + Pad(len)) + record_len(len) <= capacity
    BY <2>1, <2>2, <2>3
  <2> QED BY <1>1, <1>2, <2>1, <2>4 DEF NewTail
<1> QED BY <1>3, <1>4

\* The record being pushed is laid out as a frame behind all that is committed.
LEMMA PendingType ==
  ASSUME FramesOk, PusherOk, p.pc \in Writing
  PROVE  /\ LaidOut(Pending) /\ Pending.start = Committed /\ p.next = Committed
         /\ Pending.at = RecordAt /\ Pending.end = NewTail(p.len)
         /\ Pending.record[1] = p.len /\ Pending.record[2] = pushes
         /\ p.len \in Nat /\ p.next \in Nat /\ RecordAt \in Nat /\ NewTail(p.len) \in Nat
         /\ p.next <= RecordAt /\ RecordAt + 8 <= NewTail(p.len)
         /\ NewTail(p.len) = RecordAt + record_len(p.len)
         /\ Pad(p.len) \in Nat /\ RecordAt = p.next + Pad(p.len)
<1>1. /\ p.next = Committed /\ p.len \in Lengths /\ p.len <= max_message_len /\ p.next \in Nat /\ p.len \in Nat
      /\ pushes \in 1 .. MaxPushes
  BY MessageType DEF PusherOk, Pushers
<1>2. /\ Pad(p.len) \in Nat /\ NewTail(p.len) \in Nat /\ record_len(p.len) \in Nat /\ record_len(p.len) >= 8
      /\ p.next + Pad(p.len) + record_len(p.len) = NewTail(p.len)
      /\ Pad(p.len) = 0 \/ (Pad(p.len) = ToEnd(p.next) /\ Position(p.next + Pad(p.len)) = 0)
      /\ Position(p.next + Pad(p.len)) + record_len(p.len) <= capacity
  BY <1>1, PadType
<1>3. RecordAt = p.next + Pad(p.len)
  BY DEF RecordAt
<1>4. RecordAt \in Nat /\ p.next <= RecordAt /\ RecordAt + 8 <= NewTail(p.len)
      /\ NewTail(p.len) = RecordAt + record_len(p.len)
  BY <1>1, <1>2, <1>3
<1>5. PICK f : f = Pending
  OBVIOUS
<1>6. /\ f.start = p.next /\ f.at = RecordAt /\ f.end = NewTail(p.len) /\ f.record = <<p.len, pushes>>
      /\ f.record[1] = p.len /\ f.record[2] = pushes
  BY <1>5 DEF Pending
<1>7. f \in ByteFrames
  BY <1>1, <1>2, <1>4, <1>5 DEF Pending, ByteFrames
<1>8. f.at = f.start \/ (f.at = f.start + ToEnd(f.start) /\ Position(f.at) = 0)
  BY <1>1, <1>2, <1>3, <1>6
<1>9. Position(f.at) + record_len(f.record[1]) <= capacity
  BY <1>2, <1>3, <1>6
<1>10. LaidOut(f)
  BY <1>1, <1>4, <1>6, <1>7, <1>8, <1>9 DEF LaidOut
<1> QED BY <1>1, <1>2, <1>3, <1>4, <1>5, <1>6, <1>10

\* What it stores at a cursor of the record is known, by whoever reads it, to be past
\* every earlier one of that position.
LEMMA LaterPasses ==
  ASSUME LogOk, Grows, FramesOk, PusherOk, p.pc \in Writing, NEW k, k = fenced,
         NEW x \in Nat, NEW y \in Nat, x < y, y < NewTail(p.len), Lane(y) = Lane(x)
  PROVE  Passed(k, x)'
<1>1. k \in 1 .. Now /\ log[k].loc = TailIntent /\ log[k].val >= NewTail(p.len)
  BY StoreType DEF PusherOk
<1>2. NewTail(p.len) \in Nat /\ log[k].val \in Int /\ k \in 0 .. Now
  BY <1>1, PendingType, StoreType
<1>3. y >= x + capacity
  BY Apart, LaneLocation
<1>4. log[k].val > x + capacity
  BY <1>1, <1>2, <1>3, CapacityType
<1>5. k \in 1 .. k
  BY <1>1
<1>6. Passed(k, x)
  BY <1>1, <1>4, <1>5 DEF Passed
<1> QED BY <1>2, <1>6, PassedKept

\* A store of the record spares what comes before it.
LEMMA LaneSpares ==
  ASSUME LogOk, Grows, FramesOk, PusherOk, p.pc \in Writing, NEW x \in Nat,
         \A u \in Now + 1 .. Now' :
           \E y \in Nat : x < y /\ y < NewTail(p.len) /\ log'[u].loc = Lane(y) /\ log'[u].rel = fenced
  PROVE  Spares(x)
<1> SUFFICES ASSUME NEW u \in Now + 1 .. Now', log'[u].loc = Lane(x) PROVE Passed(log[u].rel, x)'
  BY DEF Spares
<1>1. PICK y \in Nat : x < y /\ y < NewTail(p.len) /\ log'[u].loc = Lane(y) /\ log'[u].rel = fenced
  OBVIOUS
<1>2. PICK k : k = fenced
  OBVIOUS
<1>3. Passed(k, x)'
  BY <1>1, <1>2, LaterPasses
<1> QED BY <1>1, <1>2, <1>3 DEF Passed

\* A store to a counter spares everything.
LEMMA CounterSpares ==
  ASSUME \A u \in Now + 1 .. Now' : log'[u].loc \in {TailIntent, Latest, TailCounter, CloseFlag}
  PROVE  \A x \in Nat : Spares(x)
BY LaneLocation, Zenon DEF Spares

\* What a store of the record puts in its lane, the lane holds.
LEMMA HoldsNew ==
  ASSUME LogOk, Grows, FramesOk, PusherOk, p.pc \in Writing, NEW x \in Nat, NEW v,
         NEW t \in 1 .. Now', log'[t].loc = Lane(x), log'[t].val = v,
         \A u \in t + 1 .. Now' :
           \E y \in Nat : x < y /\ y < NewTail(p.len) /\ log'[u].loc = Lane(y) /\ log'[u].rel = fenced
  PROVE  Holds(x, v, Now)'
<1>1. ASSUME NEW u \in t + 1 .. Now', log'[u].loc = Lane(x) PROVE Passed(log[u].rel, x)'
  <2>1. PICK y \in Nat : x < y /\ y < NewTail(p.len) /\ log'[u].loc = Lane(y) /\ log'[u].rel = fenced
    OBVIOUS
  <2>2. PICK k : k = fenced
    OBVIOUS
  <2>3. Passed(k, x)'
    BY <1>1, <2>1, <2>2, LaterPasses
  <2> QED BY <2>1, <2>2, <2>3 DEF Passed
<1> QED BY <1>1 DEF Holds, Lane, Position

\* What was held is held still, of all that is stored now.
LEMMA HoldsNow ==
  ASSUME Grows, NEW k \in 0 .. Now
  PROVE  /\ \A x, v : Holds(x, v, k)' => Holds(x, v, Now)'
         /\ \A f : HoldsHeaders(f, k)' => HoldsHeaders(f, Now)'
         /\ \A f : HoldsPayload(f, k)' => HoldsPayload(f, Now)'
         /\ \A f : HoldsFrame(f, k)' => HoldsFrame(f, Now)'
<1>1. \A t \in 1 .. k : t \in 1 .. Now'
  BY DEF Grows
<1>2. \A x, v : Holds(x, v, k)' => Holds(x, v, Now)'
  BY <1>1 DEF Holds
<1>3. \A f : HoldsHeaders(f, k)' => HoldsHeaders(f, Now)'
  BY <1>2 DEF HoldsHeaders, PADDING
<1>4. \A f : HoldsPayload(f, k)' => HoldsPayload(f, Now)'
  BY <1>2 DEF HoldsPayload
<1>5. \A f : HoldsFrame(f, k)' => HoldsFrame(f, Now)'
  BY <1>3, <1>4 DEF HoldsFrame
<1> QED BY <1>2, <1>3, <1>4, <1>5

-----------------------------------------------------------------------------
(* The byte ring: what a producer's step keeps, but for the producer *)

\* What the invariant says, in the parts the steps use.
LEMMA InvFacts ==
  ASSUME BytesInv
  PROVE  /\ LogOk /\ FramesOk /\ IntentOk /\ TailsOk /\ LatestOk /\ ClosesOk /\ PusherOk /\ ReaderOk
         /\ \A n \in DOMAIN frames : HoldsFrame(frames[n], Now)
         /\ Now \in Nat /\ Now \in 0 .. Now
         /\ Intent \in Nat /\ Committed \in Nat /\ Committed <= Intent
         /\ Newest(TailCounter) = Committed /\ Newest(TailIntent) = Intent
         /\ p \in Pushers /\ c \in Readers /\ c.pos \in Place /\ c.pos \in Nat /\ view \in 0 .. Now
<1>1. LogOk /\ FramesOk /\ IntentOk /\ TailsOk /\ LatestOk /\ ClosesOk /\ PusherOk /\ ReaderOk
      /\ \A n \in DOMAIN frames : HoldsFrame(frames[n], Now)
  BY DEF BytesInv
<1>2. Now \in Nat /\ Now \in 0 .. Now
  BY <1>1, StoreType
<1>3. Intent \in Nat /\ Committed \in Nat /\ Committed <= Intent
  BY <1>1, IntentType
<1>4. Newest(TailCounter) = Committed /\ Newest(TailIntent) = Intent /\ p \in Pushers /\ c \in Readers
      /\ c.pos \in Place /\ view \in 0 .. Now
  BY <1>1 DEF TailsOk, Intent, PusherOk, ReaderOk
<1>5. c.pos \in Nat
  BY <1>4 DEF Readers
<1> QED BY <1>1, <1>2, <1>3, <1>4, <1>5

\* A step that commits nothing and declares nothing: the rest of the invariant is kept,
\* whatever the producer was doing.
LEMMA ProducerKeeps ==
  ASSUME BytesInv, LogOk', Grows, UNCHANGED <<frames, bytes_consumer>>, SparesFrames,
         \A u \in Now + 1 .. Now' : log'[u].loc # TailIntent /\ log'[u].loc # TailCounter,
         \A u \in Now + 1 .. Now' : log'[u].loc = Latest => log'[u].rel = u /\ log'[u].val \in Place,
         closes \subseteq closes', closes' \subseteq Nat,
         \A u \in Now + 1 .. Now' :
           log'[u].loc = CloseFlag => log'[u].rel = u /\ (log'[u].val # 0 => KnowsClose(u)')
  PROVE  /\ Intent' = Intent /\ Committed' = Committed
         /\ PusherOk' => BytesInv'
<1>1. /\ LogOk /\ FramesOk /\ IntentOk /\ TailsOk /\ LatestOk /\ ClosesOk /\ ReaderOk
      /\ Now \in 0 .. Now /\ Intent \in Nat /\ Committed \in Nat /\ Committed <= Intent
      /\ \A n \in DOMAIN frames : HoldsFrame(frames[n], Now)
  BY InvFacts
<1>2. KeepsFrames /\ frames' = frames
  BY DEF KeepsFrames
<1>3. Committed' = Committed
  BY <1>2 DEF Committed, FrameEnd
<1>4. IntentOk' /\ Intent' = Intent
  BY <1>1, <1>3, IntentKept
<1>5. Place \subseteq Place' /\ FramesOk'
  BY <1>1, <1>2, <1>4, PlaceKept
<1>6. TailsOk'
  BY <1>1, <1>2, TailsKept
<1>7. LatestOk'
  BY <1>1, <1>5, LatestKept
<1>8. ClosesOk'
  BY <1>1, ClosesKept
<1>9. ReaderOk'
  BY <1>1, <1>2, <1>4, <1>5, ReaderKept
<1>10. ASSUME NEW n \in DOMAIN frames' PROVE HoldsFrame(frames[n], Now)'
  <2>1. PICK k : k = Now
    OBVIOUS
  <2>2. HoldsFrame(frames[n], k) /\ k \in 0 .. Now
    BY <1>1, <1>2, <2>1
  <2>3. HoldsFrame(frames[n], k)'
    BY <1>1, <1>2, <2>2, HeldKept
  <2> QED BY <2>2, <2>3, HoldsNow
<1> QED BY <1>3, <1>4, <1>5, <1>6, <1>7, <1>8, <1>9, <1>10 DEF BytesInv

\* The same, with nothing stored.
LEMMA ProducerStays ==
  ASSUME BytesInv, UNCHANGED <<log, frames, closes, bytes_consumer>>
  PROVE  /\ Intent' = Intent /\ Committed' = Committed /\ Grows /\ Now' = Now
         /\ PusherOk' => BytesInv'
<1>1. LogOk /\ ClosesOk
  BY InvFacts
<1>2. LogOk' /\ Grows /\ Now' = Now /\ \A u \in Now + 1 .. Now' : FALSE
  BY <1>1, NothingStored
<1>3. SparesFrames
  BY <1>2 DEF SparesFrames, Spares
<1>4. closes' \subseteq Nat
  BY <1>1 DEF ClosesOk
<1>5. /\ \A u \in Now + 1 .. Now' : log'[u].loc # TailIntent /\ log'[u].loc # TailCounter
      /\ \A u \in Now + 1 .. Now' : log'[u].loc = Latest => log'[u].rel = u /\ log'[u].val \in Place
      /\ \A u \in Now + 1 .. Now' :
           log'[u].loc = CloseFlag => log'[u].rel = u /\ (log'[u].val # 0 => KnowsClose(u)')
  BY <1>2
<1> QED BY <1>2, <1>3, <1>4, <1>5, ProducerKeeps

\* The same, with one store, Release, to `latest` or to the flag.
LEMMA ReleaseKeeps ==
  ASSUME BytesInv, NEW loc, NEW val, loc \in {Latest, CloseFlag}, val \in Int,
         log' = Append(log, Release(loc, val)), UNCHANGED <<frames, bytes_consumer>>,
         loc = Latest => val \in Place,
         closes \subseteq closes', closes' \subseteq Nat,
         val # 0 /\ loc = CloseFlag => KnowsClose(Now)
  PROVE  /\ Intent' = Intent /\ Committed' = Committed /\ Grows /\ Now' = Now + 1 /\ LogOk'
         /\ \A x \in Nat : Spares(x)
         /\ PusherOk' => BytesInv'
<1>1. LogOk /\ FramesOk /\ ClosesOk /\ Now \in Nat /\ Committed \in Nat
  BY InvFacts
<1>2. PICK r : r = Release(loc, val)
  OBVIOUS
<1>3. r \in BytesStore /\ r.loc = loc /\ r.val = val /\ r.rel = Now + 1
  BY <1>1, <1>2, CounterLocation DEF Release, BytesStore, Now
<1>4. /\ LogOk' /\ Grows /\ Now' = Now + 1
      /\ \A u \in Now + 1 .. Now' : u = Now' /\ log'[u] = r
  <2>1. r.rel <= Now + 1 /\ log' = Append(log, r)
    BY <1>1, <1>2, <1>3
  <2> QED BY <1>1, <1>3, <2>1, StoreAppended
<1>5. \A u \in Now + 1 .. Now' : log'[u].loc = loc /\ log'[u].val = val /\ log'[u].rel = u
  BY <1>3, <1>4
<1>6. \A x \in Nat : Spares(x)
  <2>1. \A u \in Now + 1 .. Now' : log'[u].loc \in {TailIntent, Latest, TailCounter, CloseFlag}
    BY <1>5
  <2> QED BY <2>1, CounterSpares
<1>7. \A u \in Now + 1 .. Now' : log'[u].loc # TailIntent /\ log'[u].loc # TailCounter
  BY <1>5, CounterLocation
<1>8. \A u \in Now + 1 .. Now' : log'[u].loc = Latest => log'[u].rel = u /\ log'[u].val \in Place
  BY <1>5
<1>9. ASSUME NEW u \in Now + 1 .. Now', log'[u].loc = CloseFlag
      PROVE  log'[u].rel = u /\ (log'[u].val # 0 => KnowsClose(u)')
  <2> SUFFICES ASSUME val # 0, loc = CloseFlag PROVE KnowsClose(u)'
    BY <1>5, <1>9
  <2>1. PICK k : k = Now
    OBVIOUS
  <2>2. k \in 0 .. Now /\ KnowsClose(k)
    BY <1>1, <2>1
  <2>3. KnowsClose(k)'
    BY <1>4, <2>2, KnowsCloseKept
  <2>4. \A t \in 1 .. k : t \in 1 .. u
    BY <1>1, <1>4, <2>1
  <2> QED BY <2>3, <2>4 DEF KnowsClose
<1>10. SparesFrames
  BY <1>6 DEF SparesFrames
<1> QED BY <1>4, <1>6, <1>7, <1>8, <1>9, <1>10, ProducerKeeps

\* A store to a lane of the record being pushed keeps the frames before it.
LEMMA RecordSpares ==
  ASSUME LogOk, Grows, FramesOk, PusherOk, p.pc \in Writing,
         \A u \in Now + 1 .. Now' :
           \E y \in Nat : p.next <= y /\ y < NewTail(p.len) /\ log'[u].loc = Lane(y) /\ log'[u].rel = fenced
  PROVE  SparesFrames
<1>1. p.next = Committed /\ p.next \in Nat
  BY PendingType
<1>2. ASSUME NEW x \in Nat, x < Committed PROVE Spares(x)
  <2>1. \A y \in Nat : p.next <= y => x < y
    BY <1>1, <1>2
  <2>2. \A u \in Now + 1 .. Now' :
          \E y \in Nat : x < y /\ y < NewTail(p.len) /\ log'[u].loc = Lane(y) /\ log'[u].rel = fenced
    BY <2>1
  <2> QED BY <2>2, LaneSpares
<1> QED BY <1>2 DEF SparesFrames

\* A store to a lane is none to a counter.
LEMMA LanesOnly ==
  ASSUME \A u \in Now + 1 .. Now' : \E y \in Nat : log'[u].loc = Lane(y)
  PROVE  /\ \A u \in Now + 1 .. Now' : log'[u].loc # TailIntent /\ log'[u].loc # TailCounter
         /\ \A u \in Now + 1 .. Now' : log'[u].loc # Latest /\ log'[u].loc # CloseFlag
BY LaneLocation

\* A step that stores in the lanes of the record being pushed.
LEMMA RecordKeeps ==
  ASSUME BytesInv, LogOk', Grows, p.pc \in Writing, UNCHANGED <<frames, closes, bytes_consumer>>,
         \A u \in Now + 1 .. Now' :
           \E y \in Nat : p.next <= y /\ y < NewTail(p.len) /\ log'[u].loc = Lane(y) /\ log'[u].rel = fenced
  PROVE  /\ Intent' = Intent /\ Committed' = Committed
         /\ PusherOk' => BytesInv'
<1>1. LogOk /\ FramesOk /\ PusherOk /\ ClosesOk
  BY InvFacts
<1>2. SparesFrames
  BY <1>1, RecordSpares
<1>3. /\ \A u \in Now + 1 .. Now' : log'[u].loc # TailIntent /\ log'[u].loc # TailCounter
      /\ \A u \in Now + 1 .. Now' : log'[u].loc # Latest /\ log'[u].loc # CloseFlag
  <2>1. \A u \in Now + 1 .. Now' : \E y \in Nat : log'[u].loc = Lane(y)
    OBVIOUS
  <2> QED BY <2>1, LanesOnly
<1>4. closes' \subseteq Nat /\ closes \subseteq closes'
  BY <1>1 DEF ClosesOk
<1> QED BY <1>2, <1>3, <1>4, ProducerKeeps

-----------------------------------------------------------------------------
(* The byte ring: the producer's steps *)

\* The fence of the push is where it was.
LEMMA FenceKept ==
  ASSUME LogOk, Grows, PusherOk, UNCHANGED fenced
  PROVE  /\ fenced' \in 0 .. Now'
         /\ fenced > 0 => log'[fenced'] = log[fenced]
BY DEF Grows, PusherOk

\* The push goes on as it began.
LEMMA PushGoesOn ==
  ASSUME BytesInv, LogOk', Grows, p.pc \in Writing, Intent' = Intent, Committed' = Committed,
         NEW pc \in Writing, p' = [p EXCEPT !.pc = pc], UNCHANGED <<fenced, pushes>>,
         pc # "declared" => HoldsHeaders(Pending, Now)',
         pc \in {"filled", "pointed"} => HoldsPayload(Pending, Now)'
  PROVE  PusherOk' /\ Pending' = Pending
<1>1. LogOk /\ PusherOk /\ p \in Pushers
  BY InvFacts
<1>2. /\ p' \in Pushers /\ p'.pc = pc /\ p'.next = p.next /\ p'.len = p.len
      /\ p'.intent_floor = p.intent_floor
  BY <1>1 DEF Pushers
<1>3. fenced' \in 0 .. Now' /\ (fenced > 0 => log'[fenced'] = log[fenced])
  BY <1>1, FenceKept
<1>4. NewTail(p.len)' = NewTail(p.len) /\ RecordAt' = RecordAt
  BY <1>2 DEF NewTail, RecordAt, Pad, ToEnd, Position, record_len, align_up, HEADER, ALIGN
<1>5. Pending' = Pending
  BY <1>2, <1>4 DEF Pending
<1>6. /\ pushes' \in 0 .. MaxPushes /\ p'.next = Committed' /\ pushes' > 0 /\ p'.len \in Lengths
      /\ p'.len <= max_message_len /\ fenced' > 0
      /\ Intent' \in {NewTail(p.len)', p'.intent_floor}
  BY <1>1, <1>2, <1>4 DEF PusherOk, Writing
<1>7. log'[fenced'].loc = TailIntent /\ log'[fenced'].val >= NewTail(p.len)'
  BY <1>1, <1>3, <1>4, <1>6 DEF PusherOk
<1>8. p'.pc # "idle"
  BY <1>2 DEF Writing
<1> QED BY <1>2, <1>3, <1>5, <1>6, <1>7, <1>8 DEF PusherOk, Writing, max_message_len, TailIntent

\* push: the headers.
LEMMA WriteHeadersStep ==
  ASSUME BytesInv, WriteHeaders
  PROVE  BytesInv' /\ UNCHANGED <<frames, closes, Intent>>
<1>0. /\ LogOk /\ FramesOk /\ PusherOk /\ p.pc \in Writing /\ Now \in Nat /\ log \in Seq(BytesStore)
      /\ p.pc = "declared" /\ UNCHANGED <<frames, closes, bytes_consumer, fenced, pushes>>
      /\ p' = [p EXCEPT !.pc = "headed"]
  BY InvFacts, StoreType DEF WriteHeaders, Writing
<1>1. /\ p.len \in Nat /\ p.next \in Nat /\ RecordAt \in Nat /\ NewTail(p.len) \in Nat
      /\ RecordAt < NewTail(p.len) /\ Pad(p.len) \in Nat /\ RecordAt = p.next + Pad(p.len)
      /\ p.next <= RecordAt
  BY <1>0, PendingType
<1>2. fenced \in 0 .. Now
  BY <1>0 DEF PusherOk
<1>3. PICK a, b : a = Relaxed(Lane(p.next), PADDING) /\ b = Relaxed(Lane(RecordAt), p.len)
  OBVIOUS
<1>4. /\ a \in BytesStore /\ a.loc = Lane(p.next) /\ a.val = PADDING /\ a.rel = fenced
      /\ b \in BytesStore /\ b.loc = Lane(RecordAt) /\ b.val = p.len /\ b.rel = fenced
  BY <1>1, <1>2, <1>3, LaneLocation DEF Relaxed, BytesStore, PADDING
<1>5. PICK s \in Seq(BytesStore) :
        /\ log' = log \o s
        /\ s = IF RecordAt # p.next THEN <<a, b>> ELSE <<b>>
  <2>1. CASE RecordAt # p.next
    <3>1. log' = Append(log, a) \o <<b>>
      <4>1. Pad(p.len) > 0
        BY <1>1, <2>1
      <4> QED BY <1>3, <4>1 DEF WriteHeaders
    <3>2. Append(log, a) = log \o <<a>>
      BY <1>0, <1>4, AppendIsConcat
    <3>3. <<a>> \in Seq(BytesStore) /\ <<b>> \in Seq(BytesStore) /\ <<a, b>> \in Seq(BytesStore)
      BY <1>4
    <3>4. <<a>> \o <<b>> = <<a, b>>
      <4>1. PICK d : d = <<a>> \o <<b>>
        OBVIOUS
      <4>2. d \in Seq(BytesStore) /\ Len(d) = 2 /\ d[1] = a /\ d[2] = b
        BY <3>3, <4>1, ConcatProperties
      <4>3. \A i \in 1 .. 2 : d[i] = <<a, b>>[i]
        BY <4>2
      <4>4. Len(<<a, b>>) = 2
        OBVIOUS
      <4> QED BY <3>3, <4>1, <4>2, <4>3, <4>4, SeqEqual
    <3>5. (log \o <<a>>) \o <<b>> = log \o (<<a>> \o <<b>>)
      BY <1>0, <3>3, ConcatAssociative
    <3> QED BY <2>1, <3>1, <3>2, <3>3, <3>4, <3>5
  <2>2. CASE ~(RecordAt # p.next)
    <3>1. ~(Pad(p.len) > 0)
      BY <1>1, <2>2
    <3>2. log' = log \o <<b>> /\ <<b>> \in Seq(BytesStore)
      BY <1>3, <1>4, <3>1 DEF WriteHeaders
    <3> QED BY <2>2, <3>2
  <2> QED BY <2>1, <2>2
<1>6. /\ Len(s) \in {1, 2} /\ (RecordAt # p.next => Len(s) = 2 /\ s[1] = a /\ s[2] = b)
      /\ (~(RecordAt # p.next) => Len(s) = 1 /\ s[1] = b)
  BY <1>5
<1>7. \A i \in 1 .. Len(s) : s[i] \in {a, b} /\ (s[i] = a => i = 1 \/ a = b)
  BY <1>6
<1>8. \A i \in 1 .. Len(s) : s[i].rel <= Now + i
  BY <1>0, <1>2, <1>4, <1>7
<1>9. /\ LogOk' /\ Grows /\ Now' = Now + Len(s)
      /\ \A i \in 1 .. Len(s) : Now + i \in Now + 1 .. Now' /\ log'[Now + i] = s[i]
      /\ \A u \in Now + 1 .. Now' : \E i \in 1 .. Len(s) : u = Now + i
  BY <1>0, <1>5, <1>8, StoresAppended
<1>10. \A u \in Now + 1 .. Now' :
         \E y \in Nat : p.next <= y /\ y < NewTail(p.len) /\ log'[u].loc = Lane(y) /\ log'[u].rel = fenced
  <2> TAKE u \in Now + 1 .. Now'
  <2>1. PICK i \in 1 .. Len(s) : u = Now + i
    BY <1>9
  <2>2. log'[u] \in {a, b}
    BY <1>7, <1>9, <2>1
  <2>3. p.next <= p.next /\ p.next < NewTail(p.len)
    BY <1>1
  <2>4. CASE log'[u] = a
    BY <1>1, <1>4, <2>3, <2>4
  <2>5. CASE log'[u] = b
    BY <1>1, <1>4, <2>5
  <2> QED BY <2>2, <2>4, <2>5
<1>11. Intent' = Intent /\ Committed' = Committed /\ (PusherOk' => BytesInv')
  BY <1>0, <1>9, <1>10, RecordKeeps
<1>12. PICK n \in Nat : n > 0 /\ n = Now' /\ n = Now + Len(s)
  BY <1>0, <1>6, <1>9
<1>17. /\ n \in 1 .. n /\ (\A u \in n + 1 .. n : FALSE)
       /\ n > 1 => n - 1 \in 1 .. n /\ \A u \in (n - 1) + 1 .. n : u = n
  <2>1. n > 0
    BY <1>12
  <2> QED BY <2>1
<1>18. log'[n] = b /\ (RecordAt # p.next => n > 1 /\ log'[n - 1] = a)
  <2>1. PICK m \in Nat : m = Now
    BY <1>0
  <2>2. CASE RecordAt # p.next
    <3>0. Len(s) = 2 /\ n = m + Len(s)
      BY <1>6, <1>12, <2>1, <2>2
    <3>1. n = m + 2 /\ 1 \in 1 .. Len(s) /\ 2 \in 1 .. Len(s)
      BY <3>0
    <3>2. log'[m + 1] = a /\ log'[m + 2] = b
      BY <1>6, <1>9, <2>1, <2>2, <3>1
    <3>3. m + 2 > 1 /\ (m + 2) - 1 = m + 1
      OBVIOUS
    <3> QED BY <3>1, <3>2, <3>3
  <2>3. CASE ~(RecordAt # p.next)
    <3>0. Len(s) = 1 /\ n = m + Len(s)
      BY <1>6, <1>12, <2>1, <2>3
    <3>1. n = m + 1 /\ 1 \in 1 .. Len(s)
      BY <3>0
    <3>2. log'[m + 1] = b
      BY <1>6, <1>9, <2>1, <2>3, <3>1
    <3> QED BY <2>3, <3>1, <3>2
  <2> QED BY <2>2, <2>3
<1>13. Holds(RecordAt, p.len, Now)'
  <2>1. PICK x, v : x = RecordAt /\ v = p.len
    OBVIOUS
  <2>3. n \in 1 .. Now' /\ \A u \in n + 1 .. Now' : FALSE
    BY <1>12, <1>17
  <2>4. Holds(x, v, Now)'
    BY <1>0, <1>1, <1>4, <1>9, <1>18, <2>1, <2>3, HoldsNew
  <2>5. RecordAt' = RecordAt /\ p'.len = p.len
    BY <1>0 DEF RecordAt, Pad, ToEnd, Position, record_len, align_up, HEADER, ALIGN, PusherOk, Pushers
  <2> QED BY <2>1, <2>4, <2>5
<1>14. RecordAt # p.next => \A x : x = p.next => Holds(x, PADDING, Now)'
  <2> SUFFICES ASSUME RecordAt # p.next, NEW x, x = p.next PROVE Holds(x, PADDING, Now)'
    OBVIOUS
  <2>1. PICK t \in 1 .. Now' : t = n - 1 /\ log'[t] = a
    <3>1. n - 1 \in 1 .. n /\ log'[n - 1] = a
      BY <1>17, <1>18
    <3> QED BY <1>12, <3>1
  <2>2. x < RecordAt
    BY <1>1
  <2>3. ASSUME NEW u \in t + 1 .. Now'
        PROVE  \E y \in Nat : x < y /\ y < NewTail(p.len) /\ log'[u].loc = Lane(y) /\ log'[u].rel = fenced
    <3>1. u = n
      <4>1. \A w \in t + 1 .. n : w = n
        BY <1>17, <1>18, <2>1
      <4> QED BY <1>12, <4>1
    <3> QED BY <1>1, <1>4, <1>18, <2>2, <3>1
  <2>4. PICK v : v = PADDING
    OBVIOUS
  <2>5. Holds(x, v, Now)'
    BY <1>0, <1>1, <1>4, <1>9, <2>1, <2>3, <2>4, HoldsNew
  <2> QED BY <2>4, <2>5 DEF PADDING
<1>15. HoldsHeaders(Pending, Now)'
  <2>1. RecordAt' = RecordAt /\ p'.len = p.len /\ p'.next = p.next
    BY <1>0 DEF RecordAt, Pad, ToEnd, Position, record_len, align_up, HEADER, ALIGN, PusherOk, Pushers
  <2>2. /\ Pending.start' = p.next /\ Pending.at' = RecordAt /\ Pending.record[1]' = p.len
    BY <2>1 DEF Pending
  <2>4. Holds(Pending.at, Pending.record[1], Now)'
    BY <1>13, <2>1, <2>2
  <2>5. (Pending.at # Pending.start => Holds(Pending.start, PADDING, Now))'
    BY <1>14, <2>2
  <2> QED BY <2>4, <2>5 DEF HoldsHeaders
<1>16. PusherOk'
  BY <1>0, <1>9, <1>11, <1>15, PushGoesOn DEF Writing
<1> QED BY <1>0, <1>11, <1>16

\* push: the payload.
LEMMA CopyInLanesStep ==
  ASSUME BytesInv, CopyInLanes
  PROVE  BytesInv' /\ UNCHANGED <<frames, closes, Intent>>
<1>0. /\ LogOk /\ FramesOk /\ PusherOk /\ p.pc \in Writing /\ Now \in Nat /\ Now \in 0 .. Now
      /\ p.pc = "headed" /\ UNCHANGED <<frames, closes, bytes_consumer, fenced, pushes>>
      /\ p' = [p EXCEPT !.pc = "filled"]
  BY InvFacts DEF CopyInLanes, Writing
<1>1. /\ p.len \in Nat /\ p.next \in Nat /\ RecordAt \in Nat /\ NewTail(p.len) \in Nat
      /\ NewTail(p.len) = RecordAt + record_len(p.len) /\ p.next <= RecordAt
  BY <1>0, PendingType
<1>2. fenced \in 0 .. Now /\ pushes \in Int
  BY <1>0, MessageType DEF PusherOk
<1>3. PICK at, n, v, r : at = RecordAt /\ n = lanes_of(p.len) /\ v = pushes /\ r = fenced
  OBVIOUS
<1>4. at \in Nat /\ n \in Nat /\ v \in Int /\ r \in 0 .. Now
  BY <1>1, <1>2, <1>3, RecordLen
<1>5. PICK Cursor : Cursor = [i \in 1 .. n |-> at + HEADER + LANE * (i - 1)]
  OBVIOUS
<1>6. \A i \in 1 .. n : Cursor[i] \in Nat /\ at < Cursor[i] /\ Cursor[i] < NewTail(p.len)
  <2> TAKE i \in 1 .. n
  <2>1. Cursor[i] \in PayloadLanes(at, p.len)
    BY <1>1, <1>3, <1>4, <1>5, CursorLane
  <2> QED BY <1>1, <1>3, <2>1, LaneCursor
<1>7. \A i \in 1 .. n : \A j \in 1 .. n : i < j => Cursor[i] < Cursor[j]
  BY <1>4, <1>5 DEF HEADER, LANE
<1>8. PICK s : s = [i \in 1 .. n |-> [loc |-> Lane(Cursor[i]), val |-> v, rel |-> r]]
  OBVIOUS
<1>9. log' = log \o s
  <2>1. log' = log \o [i \in 1 .. n |-> Relaxed(Lane(at + HEADER + LANE * (i - 1)), v)]
    BY <1>3 DEF CopyInLanes
  <2>2. \A i \in 1 .. n : Relaxed(Lane(at + HEADER + LANE * (i - 1)), v) = s[i]
    BY <1>3, <1>5, <1>8 DEF Relaxed
  <2> QED BY <1>8, <2>1, <2>2
<1>10. s \in Seq(BytesStore) /\ Len(s) = n
  <2>1. \A i \in 1 .. n : [loc |-> Lane(Cursor[i]), val |-> v, rel |-> r] \in BytesStore
    BY <1>4, <1>6, LaneLocation DEF BytesStore
  <2>2. s \in [1 .. n -> BytesStore]
    BY <1>8, <2>1
  <2> QED BY <1>4, <2>2
<1>11. \A i \in 1 .. n : s[i].loc = Lane(Cursor[i]) /\ s[i].val = v /\ s[i].rel = r
  BY <1>8
<1>12. \A i \in 1 .. Len(s) : s[i].rel <= Now + i
  BY <1>0, <1>4, <1>10, <1>11
<1>13. /\ LogOk' /\ Grows /\ Now' = Now + n
       /\ \A i \in 1 .. n : Now + i \in Now + 1 .. Now' /\ log'[Now + i] = s[i]
       /\ \A u \in Now + 1 .. Now' : \E i \in 1 .. n : u = Now + i
  BY <1>0, <1>9, <1>10, <1>12, StoresAppended
<1>14. \A u \in Now + 1 .. Now' :
         \E y \in Nat : at < y /\ y < NewTail(p.len) /\ log'[u].loc = Lane(y) /\ log'[u].rel = fenced
  BY <1>3, <1>6, <1>11, <1>13
<1>15. Intent' = Intent /\ Committed' = Committed /\ (PusherOk' => BytesInv')
  <2>1. \A y \in Nat : at < y => p.next <= y
    BY <1>1, <1>3
  <2>2. \A u \in Now + 1 .. Now' :
          \E y \in Nat : p.next <= y /\ y < NewTail(p.len) /\ log'[u].loc = Lane(y) /\ log'[u].rel = fenced
    BY <1>14, <2>1
  <2> QED BY <1>0, <1>13, <2>2, RecordKeeps
<1>16. /\ RecordAt' = RecordAt /\ NewTail(p.len)' = NewTail(p.len) /\ p'.len = p.len /\ p'.next = p.next
       /\ Pending' = Pending
  <2>1. p \in Pushers
    BY <1>0 DEF PusherOk
  <2>2. p'.len = p.len /\ p'.next = p.next
    BY <1>0, <2>1 DEF Pushers
  <2>3. RecordAt' = RecordAt /\ NewTail(p.len)' = NewTail(p.len)
    BY <2>2 DEF RecordAt, NewTail, Pad, ToEnd, Position, record_len, align_up, HEADER, ALIGN
  <2> QED BY <1>0, <2>2, <2>3 DEF Pending
<1>17. PICK f : f = Pending
  OBVIOUS
<1>18. LaidOut(f) /\ f.at = at /\ f.record[1] = p.len /\ f.record[2] = v /\ f.start \in Nat /\ f.start <= at
  BY <1>0, <1>1, <1>3, <1>17, PendingType
<1>19. HoldsHeaders(f, Now)'
  <2>1. PICK k : k = Now
    OBVIOUS
  <2>2. k \in 0 .. Now /\ HoldsHeaders(f, k)
    BY <1>0, <1>17, <2>1 DEF PusherOk
  <2>3. ASSUME NEW x \in Nat, f.start <= x, x <= f.at PROVE Spares(x)
    <3>1. x <= at
      BY <1>18, <2>3
    <3>2. \A y \in Nat : at < y => x < y
      BY <1>4, <3>1
    <3>3. \A u \in Now + 1 .. Now' :
            \E y \in Nat : x < y /\ y < NewTail(p.len) /\ log'[u].loc = Lane(y) /\ log'[u].rel = fenced
      BY <1>14, <3>2
    <3> QED BY <1>0, <1>13, <3>3, LaneSpares
  <2>4. HoldsHeaders(f, k)'
    BY <1>0, <1>13, <1>18, <2>2, <2>3, HeadersKept
  <2> QED BY <1>13, <2>2, <2>4, HoldsNow
<1>20. HoldsPayload(f, Now)'
  <2> SUFFICES ASSUME NEW x \in PayloadLanes(at, p.len) PROVE Holds(x, v, Now)'
    BY <1>16, <1>18 DEF HoldsPayload, PayloadLanes, lanes_of, HEADER, LANE
  <2>1. PICK i \in 1 .. n : x = Cursor[i]
    BY <1>1, <1>3, <1>4, <1>5, LaneCursor
  <2>2. PICK m \in Nat : m = Now
    BY <1>0
  <2>3. m + i \in 1 .. Now' /\ log'[m + i].loc = Lane(x) /\ log'[m + i].val = v
    <3>1. Now + i \in Now + 1 .. Now' /\ log'[Now + i] = s[i]
      BY <1>13
    <3>2. m + i \in m + 1 .. m + n /\ log'[m + i] = s[i] /\ Now' = m + n
      BY <1>13, <2>2, <3>1
    <3>3. m + i \in 1 .. m + n
      BY <1>4, <3>2
    <3> QED BY <1>11, <2>1, <3>2, <3>3
  <2>4. ASSUME NEW u \in (m + i) + 1 .. Now'
        PROVE  \E y \in Nat : x < y /\ y < NewTail(p.len) /\ log'[u].loc = Lane(y) /\ log'[u].rel = fenced
    <3>1. u \in m + 1 .. m + n /\ Now' = m + n /\ u > m + i
      <4>1. u \in (m + i) + 1 .. m + n /\ Now' = m + n
        BY <1>13, <2>2
      <4> QED BY <1>4, <4>1
    <3>2. PICK j \in 1 .. n : u = m + j
      BY <1>13, <2>2, <3>1
    <3>3. i < j
      BY <3>1, <3>2
    <3>4. log'[u] = s[j]
      BY <1>13, <2>2, <3>2
    <3> QED BY <1>3, <1>6, <1>7, <1>11, <2>1, <3>3, <3>4
  <2>5. x \in Nat
    BY <1>6, <2>1
  <2> QED BY <1>0, <1>13, <2>3, <2>4, <2>5, HoldsNew
<1>21. PusherOk'
  <2>1. HoldsHeaders(Pending, Now)' /\ HoldsPayload(Pending, Now)'
    BY <1>16, <1>17, <1>19, <1>20
  <2> QED BY <1>0, <1>13, <1>15, <2>1, PushGoesOn DEF Writing
<1> QED BY <1>0, <1>15, <1>21

\* push: the jump target.
LEMMA StoreLatestStep ==
  ASSUME BytesInv, StoreLatest
  PROVE  BytesInv' /\ UNCHANGED <<frames, closes, Intent>>
<1>0. /\ LogOk /\ FramesOk /\ PusherOk /\ p.pc \in Writing /\ Now \in Nat /\ Now \in 0 .. Now
      /\ Intent \in Nat /\ Committed \in Nat /\ ClosesOk /\ IntentOk
      /\ p.pc = "filled" /\ UNCHANGED <<frames, closes, bytes_consumer, fenced, pushes>>
      /\ p' = [p EXCEPT !.pc = "pointed"] /\ log' = Append(log, Release(Latest, RecordAt))
  BY InvFacts DEF StoreLatest, Writing
<1>1. PICK f : f = Pending
  OBVIOUS
<1>2. /\ LaidOut(f) /\ f.at = RecordAt /\ f.start = Committed /\ f.end = NewTail(p.len)
      /\ RecordAt \in Nat /\ NewTail(p.len) \in Nat /\ RecordAt <= NewTail(p.len) /\ Committed <= RecordAt
      /\ p.next = Committed
  BY <1>0, <1>1, PendingType
<1>3. RecordAt <= Intent
  <2>1. fenced \in 1 .. Now /\ log[fenced].loc = TailIntent /\ log[fenced].val >= NewTail(p.len)
    BY <1>0 DEF PusherOk
  <2>2. log[fenced].val \in Nat /\ log[fenced].val <= Intent
    BY <1>0, <2>1, IntentType
  <2> QED BY <1>0, <1>2, <2>1, <2>2
<1>4. RecordAt \in Place
  <2>1. CASE f.at = f.start
    BY <1>0, <1>2, <2>1, EndsType DEF Place
  <2>2. CASE Position(f.at) = 0
    <3>1. RecordAt \in Committed .. Intent
      BY <1>0, <1>2, <1>3
    <3> QED BY <1>2, <2>2, <3>1 DEF Place
  <2> QED BY <1>2, <2>1, <2>2 DEF LaidOut
<1>5. closes' \subseteq Nat /\ closes \subseteq closes' /\ RecordAt \in Int /\ Latest # CloseFlag
  BY <1>0, <1>2, CounterLocation DEF ClosesOk
<1>6. PICK val : val = RecordAt
  OBVIOUS
<1>7. PICK loc : loc = Latest
  OBVIOUS
<1>8. /\ Intent' = Intent /\ Committed' = Committed /\ Grows /\ LogOk' /\ \A x \in Nat : Spares(x)
      /\ PusherOk' => BytesInv'
  BY <1>0, <1>4, <1>5, <1>6, <1>7, ReleaseKeeps
<1>9. PICK k : k = Now
  OBVIOUS
<1>10. k \in 0 .. Now /\ HoldsHeaders(f, k) /\ HoldsPayload(f, k)
  BY <1>0, <1>1, <1>9 DEF PusherOk
<1>11. HoldsHeaders(f, k)' /\ HoldsPayload(f, k)'
  BY <1>0, <1>2, <1>8, <1>10, HeadersKept, PayloadKept
<1>12. HoldsHeaders(f, Now)' /\ HoldsPayload(f, Now)'
  BY <1>8, <1>10, <1>11, HoldsNow
<1>13. Pending' = Pending
  <2>1. p \in Pushers
    BY <1>0 DEF PusherOk
  <2>2. p'.len = p.len /\ p'.next = p.next
    BY <1>0, <2>1 DEF Pushers
  <2>3. RecordAt' = RecordAt /\ NewTail(p.len)' = NewTail(p.len)
    BY <2>2 DEF RecordAt, NewTail, Pad, ToEnd, Position, record_len, align_up, HEADER, ALIGN
  <2> QED BY <1>0, <2>2, <2>3 DEF Pending
<1>14. PusherOk'
  <2>1. HoldsHeaders(Pending, Now)' /\ HoldsPayload(Pending, Now)'
    BY <1>1, <1>12, <1>13
  <2> QED BY <1>0, <1>8, <2>1, PushGoesOn DEF Writing
<1> QED BY <1>0, <1>8, <1>14

\* A producer dies.
LEMMA DieStep ==
  ASSUME BytesInv, Die
  PROVE  BytesInv' /\ UNCHANGED <<frames, closes, Intent>>
<1>0. /\ PusherOk /\ p \in Pushers /\ UNCHANGED <<log, fenced, frames, closes, pushes, bytes_consumer>>
      /\ p' = [p EXCEPT !.pc = "gone", !.len = 0]
  BY InvFacts DEF Die
<1>1. Intent' = Intent /\ Grows /\ Now' = Now /\ (PusherOk' => BytesInv')
  BY <1>0, ProducerStays
<1>2. p' \in Pushers /\ p'.pc = "gone"
  BY <1>0 DEF Pushers
<1>3. pushes' \in 0 .. MaxPushes /\ fenced' \in 0 .. Now'
  BY <1>0, <1>1 DEF PusherOk
<1>4. PusherOk'
  BY <1>2, <1>3 DEF PusherOk, Writing
<1> QED BY <1>0, <1>1, <1>4

\* BytesProducer::drop.
LEMMA DropStep ==
  ASSUME BytesInv, DropBytesProducer
  PROVE  BytesInv' /\ UNCHANGED <<frames, Intent>> /\ closes' = closes \union {Committed}
<1>0. /\ LogOk /\ FramesOk /\ PusherOk /\ TailsOk /\ ClosesOk /\ Now \in Nat
      /\ Committed \in Nat /\ Newest(TailCounter) = Committed /\ p \in Pushers
      /\ p.pc = "idle" /\ UNCHANGED <<fenced, frames, pushes, bytes_consumer>>
      /\ p' = [p EXCEPT !.pc = "gone"] /\ log' = Append(log, Release(CloseFlag, 1))
  BY InvFacts DEF DropBytesProducer
<1>1. p.next = Committed /\ closes' = closes \union {Committed}
  BY <1>0 DEF DropBytesProducer, PusherOk
<1>2. closes' \subseteq Nat /\ closes \subseteq closes'
  BY <1>0, <1>1 DEF ClosesOk
<1>3. PICK k : k = Now
  OBVIOUS
<1>4. Committed = 0 \/ \E t \in 1 .. k : log[t].loc = TailCounter /\ log[t].val >= Committed
  <2>1. PICK s \in 0 .. Now : IsStore(s, TailCounter) /\ Newest(TailCounter) = Value(s)
    BY <1>0, NewestStore
  <2>2. CASE s = 0
    BY <1>0, <2>1, <2>2 DEF Value
  <2>3. CASE s # 0
    <3>1. s \in 1 .. k /\ log[s].loc = TailCounter /\ log[s].val = Committed
      BY <1>0, <1>3, <2>1, <2>3 DEF Value, IsStore
    <3> QED BY <1>0, <3>1
  <2> QED BY <2>2, <2>3
<1>5. PICK loc, val : loc = CloseFlag /\ val = 1
  OBVIOUS
<1>6. /\ LogOk' /\ Grows /\ Now' = Now + 1
      /\ \A u \in Now + 1 .. Now' : u = Now' /\ log'[u] = Release(CloseFlag, 1)
  <2>1. PICK r : r = Release(CloseFlag, 1)
    OBVIOUS
  <2>2. r \in BytesStore /\ r.rel = Now + 1
    BY <1>0, <2>1, CounterLocation DEF Release, BytesStore, Now
  <2>3. r.rel <= Now + 1
    BY <1>0, <2>2
  <2> QED BY <1>0, <2>1, <2>2, <2>3, StoreAppended
<1>7. \A u \in Now + 1 .. Now' : log'[u].loc = CloseFlag /\ log'[u].rel = u /\ u = Now'
  BY <1>6 DEF Release, Now
<1>8. KnowsClose(Now)'
  <2>1. \A t \in 1 .. k : t \in 1 .. Now' /\ log'[t] = log[t]
    BY <1>3, <1>6 DEF Grows
  <2>2. Committed \in closes'
    BY <1>1
  <2> QED BY <1>4, <2>1, <2>2 DEF KnowsClose, TailCounter
<1>9. SparesFrames
  <2>1. \A u \in Now + 1 .. Now' : log'[u].loc \in {TailIntent, Latest, TailCounter, CloseFlag}
    BY <1>7
  <2> QED BY <2>1, CounterSpares DEF SparesFrames
<1>10. \A u \in Now + 1 .. Now' : KnowsClose(u)'
  <2> TAKE u \in Now + 1 .. Now'
  <2>1. u = Now'
    BY <1>7
  <2> QED BY <1>8, <2>1 DEF KnowsClose
<1>11. \A u \in Now + 1 .. Now' :
         log'[u].loc # TailIntent /\ log'[u].loc # TailCounter /\ log'[u].loc # Latest
  BY <1>7, CounterLocation
<1>12. Intent' = Intent /\ (PusherOk' => BytesInv')
  BY <1>0, <1>2, <1>6, <1>7, <1>9, <1>10, <1>11, ProducerKeeps
<1>13. PusherOk'
  <2>1. p' \in Pushers /\ p'.pc = "gone"
    BY <1>0 DEF Pushers
  <2>2. pushes' \in 0 .. MaxPushes /\ fenced' \in 0 .. Now'
    BY <1>0, <1>6 DEF PusherOk
  <2> QED BY <2>1, <2>2 DEF PusherOk, Writing
<1> QED BY <1>0, <1>1, <1>12, <1>13

\* A producer takes the lease.
LEMMA AttachStep ==
  ASSUME BytesInv, Attach
  PROVE  BytesInv' /\ UNCHANGED <<frames, closes, Intent>>
<1>0. /\ PusherOk /\ ClosesOk /\ p \in Pushers /\ Now \in Nat
      /\ UNCHANGED <<fenced, frames, closes, pushes, bytes_consumer>>
      /\ p' = [p EXCEPT !.pc = "healing"] /\ log' = Append(log, Release(CloseFlag, 0))
  BY InvFacts DEF Attach
<1>1. PICK loc, val : loc = CloseFlag /\ val = 0
  OBVIOUS
<1>2. closes' \subseteq Nat /\ closes \subseteq closes' /\ CloseFlag # Latest /\ val \in Int
  BY <1>0, <1>1, CounterLocation DEF ClosesOk
<1>3. Intent' = Intent /\ Grows /\ Now' = Now + 1 /\ (PusherOk' => BytesInv')
  BY <1>0, <1>1, <1>2, ReleaseKeeps
<1>4. p' \in Pushers /\ p'.pc = "healing"
  BY <1>0 DEF Pushers
<1>5. pushes' \in 0 .. MaxPushes /\ fenced' \in 0 .. Now'
  BY <1>0, <1>3 DEF PusherOk
<1>6. PusherOk'
  BY <1>4, <1>5 DEF PusherOk, Writing
<1> QED BY <1>0, <1>3, <1>6

\* bytes_heal_on_attach.
LEMMA HealStep ==
  ASSUME BytesInv, Heal
  PROVE  BytesInv' /\ UNCHANGED <<frames, closes, Intent>>
<1>0. /\ PusherOk /\ ClosesOk /\ FramesOk /\ p \in Pushers /\ Now \in Nat
      /\ Intent \in Nat /\ Committed \in Nat /\ Committed <= Intent
      /\ Newest(TailCounter) = Committed /\ Newest(TailIntent) = Intent
      /\ UNCHANGED <<fenced, frames, closes, pushes, bytes_consumer>>
  BY InvFacts DEF Heal
<1>1. PICK tail, intent : tail = Committed /\ intent = Intent
  OBVIOUS
<1>2. /\ log' = IF intent # tail THEN Append(log, Release(Latest, tail)) ELSE log
      /\ p' = from_shm(tail, Max({intent, tail}))
  BY <1>0, <1>1 DEF Heal
<1>3. Max({intent, tail}) = intent
  BY <1>0, <1>1, MaxOf
<1>4. /\ p' \in Pushers /\ p'.pc = "idle" /\ p'.next = tail /\ p'.intent_floor = intent
  BY <1>0, <1>1, <1>2, <1>3 DEF from_shm, Pushers
<1>5. /\ Intent' = Intent /\ Committed' = Committed /\ Grows /\ Now' \in Nat
      /\ PusherOk' => BytesInv'
  <2>1. CASE intent # tail
    <3>1. PICK loc : loc = Latest
      OBVIOUS
    <3>2. /\ closes' \subseteq Nat /\ closes \subseteq closes' /\ CloseFlag # Latest /\ tail \in Int
          /\ tail \in Place /\ log' = Append(log, Release(loc, tail))
      BY <1>0, <1>1, <1>2, <2>1, <3>1, CounterLocation, EndsType DEF ClosesOk, Place
    <3>3. Intent' = Intent /\ Committed' = Committed /\ Grows /\ Now' = Now + 1 /\ (PusherOk' => BytesInv')
      BY <1>0, <3>1, <3>2, ReleaseKeeps
    <3> QED BY <1>0, <3>3
  <2>2. CASE ~(intent # tail)
    <3>1. log' = log
      BY <1>2, <2>2
    <3>2. Intent' = Intent /\ Committed' = Committed /\ Grows /\ Now' = Now /\ (PusherOk' => BytesInv')
      BY <1>0, <3>1, ProducerStays
    <3> QED BY <1>0, <3>2
  <2> QED BY <2>1, <2>2
<1>6. pushes' \in 0 .. MaxPushes /\ fenced' \in 0 .. Now'
  BY <1>0, <1>5 DEF PusherOk, Grows
<1>7. PusherOk'
  BY <1>1, <1>4, <1>5, <1>6 DEF PusherOk, Writing
<1> QED BY <1>0, <1>5, <1>7

\* push: the intent.
LEMMA DeclareStep ==
  ASSUME BytesInv, NEW len \in Lengths, Declare(len)
  PROVE  BytesInv' /\ UNCHANGED <<frames, closes>> /\ Intent <= Intent'
<1>0. /\ LogOk /\ FramesOk /\ IntentOk /\ TailsOk /\ LatestOk /\ ClosesOk /\ PusherOk /\ ReaderOk
      /\ Now \in Nat /\ Now \in 0 .. Now /\ Intent \in Nat /\ Committed \in Nat /\ Committed <= Intent
      /\ \A n \in DOMAIN frames : HoldsFrame(frames[n], Now)
      /\ p \in Pushers /\ p.pc = "idle" /\ pushes < MaxPushes /\ len <= max_message_len
      /\ UNCHANGED <<frames, closes, bytes_consumer>> /\ pushes' = pushes + 1
      /\ fenced' = Len(log') /\ p' = [p EXCEPT !.pc = "declared", !.len = len]
  BY InvFacts DEF Declare
<1>1. /\ p.next = Committed /\ Intent \in {Committed, p.intent_floor} /\ p.intent_floor \in Nat /\ p.next \in Nat
      /\ len \in Nat /\ pushes \in 0 .. MaxPushes /\ MaxPushes \in Nat
  BY <1>0, MessageType DEF PusherOk, Pushers
<1>2. PICK tail : tail = NewTail(len)
  OBVIOUS
<1>3. tail \in Nat /\ Committed <= tail
  BY <1>0, <1>1, <1>2, PadType
<1>4. PICK val : val = Declared(len)
  OBVIOUS
<1>5. val = (IF tail >= p.intent_floor THEN tail ELSE p.intent_floor)
  BY <1>1, <1>2, <1>3, <1>4, MaxOf DEF Declared
<1>6. val \in Nat /\ val >= tail /\ val >= Intent /\ val \in {tail, p.intent_floor}
  BY <1>0, <1>1, <1>3, <1>5
<1>7. PICK r : r = Release(TailIntent, val)
  OBVIOUS
<1>8. r \in BytesStore /\ r.loc = TailIntent /\ r.val = val /\ r.rel = Now + 1 /\ log' = Append(log, r)
  BY <1>0, <1>4, <1>6, <1>7, CounterLocation DEF Release, BytesStore, Now, Declare
<1>9. /\ LogOk' /\ Grows /\ Now' = Now + 1 /\ log'[Now'] = r /\ Now' \in Nat /\ Now' > 0
      /\ \A u \in Now + 1 .. Now' : u = Now' /\ log'[u] = r
  <2>1. r.rel <= Now + 1
    BY <1>0, <1>8
  <2> QED BY <1>0, <1>8, <2>1, StoreAppended
<1>10. PICK m \in Nat : m = Now'
  BY <1>9
<1>11. m > 0 /\ log'[m] = r /\ \A u \in 1 .. Now' : u \in 1 .. Now \/ u = m
  BY <1>0, <1>9, <1>10
<1>12. Intent' = val
  BY <1>8, <1>10, <1>11, NewestStored DEF Intent, TailIntent
<1>13. /\ \A u \in Now + 1 .. Now' :
            log'[u].loc # TailCounter /\ log'[u].loc # Latest /\ log'[u].loc # CloseFlag
       /\ SparesFrames
  <2>1. \A u \in Now + 1 .. Now' : log'[u].loc = TailIntent
    BY <1>8, <1>9
  <2>2. \A u \in Now + 1 .. Now' : log'[u].loc \in {TailIntent, Latest, TailCounter, CloseFlag}
    BY <2>1
  <2>3. SparesFrames
    BY <2>2, CounterSpares DEF SparesFrames
  <2> QED BY <2>1, <2>3, CounterLocation
<1>14. KeepsFrames /\ frames' = frames /\ Intent <= Intent' /\ Intent' \in Nat
  BY <1>0, <1>6, <1>12 DEF KeepsFrames
<1>15. Place \subseteq Place' /\ Committed' = Committed /\ FramesOk'
  BY <1>0, <1>14, PlaceKept
<1>16. IntentOk'
  <2>1. \A t \in 1 .. Now' : log'[t].loc = TailIntent => log'[t].rel = t /\ log'[t].val \in Nat
    <3> TAKE t \in 1 .. Now'
    <3>1. CASE t \in 1 .. Now
      BY <1>0, <1>9, <3>1 DEF Grows, IntentOk
    <3>2. CASE t = m
      BY <1>6, <1>8, <1>9, <1>10, <1>11, <3>2
    <3> QED BY <1>11, <3>1, <3>2
  <2>2. ASSUME NEW u \in 1 .. Now', NEW t \in 1 .. u, log'[t].loc = TailIntent, log'[u].loc = TailIntent
        PROVE  log'[t].val <= log'[u].val
    <3>1. CASE u \in 1 .. Now
      <4>1. t \in 1 .. Now /\ log'[u] = log[u] /\ log'[t] = log[t]
        BY <1>0, <1>9, <3>1 DEF Grows
      <4> QED BY <1>0, <2>2, <3>1, <4>1 DEF IntentOk
    <3>2. CASE u = m
      <4>1. log'[u].val = val
        BY <1>8, <1>11, <3>2
      <4>2. CASE t = m
        BY <1>6, <3>2, <4>1, <4>2
      <4>3. CASE t \in 1 .. Now
        <5>1. log'[t] = log[t]
          BY <1>9, <4>3 DEF Grows
        <5>2. log[t].val \in Nat /\ log[t].val <= Intent
          BY <1>0, <2>2, <4>3, <5>1, IntentType
        <5> QED BY <1>0, <1>6, <4>1, <5>1, <5>2
      <4>4. t \in 1 .. Now'
        BY <1>9
      <4> QED BY <1>11, <4>2, <4>3, <4>4
    <3> QED BY <1>11, <3>1, <3>2
  <2>3. (Committed <= Intent)'
    BY <1>0, <1>14, <1>15
  <2> QED BY <2>1, <2>2, <2>3 DEF IntentOk, TailIntent
<1>17. TailsOk'
  BY <1>0, <1>9, <1>13, <1>14, TailsKept
<1>18. LatestOk'
  BY <1>0, <1>9, <1>13, <1>15, LatestKept
<1>19. ClosesOk'
  <2>1. closes' \subseteq Nat /\ closes \subseteq closes'
    BY <1>0 DEF ClosesOk
  <2> QED BY <1>0, <1>9, <1>13, <2>1, ClosesKept
<1>20. ReaderOk'
  <2>1. closes \subseteq closes'
    BY <1>0
  <2> QED BY <1>0, <1>9, <1>13, <1>14, <1>15, <2>1, ReaderKept
<1>21. ASSUME NEW n \in DOMAIN frames' PROVE HoldsFrame(frames[n], Now)'
  <2>1. PICK k : k = Now
    OBVIOUS
  <2>2. HoldsFrame(frames[n], k) /\ k \in 0 .. Now /\ n \in DOMAIN frames
    BY <1>0, <1>14, <2>1
  <2>3. HoldsFrame(frames[n], k)'
    BY <1>0, <1>9, <1>13, <1>14, <2>2, HeldKept
  <2> QED BY <1>9, <2>2, <2>3, HoldsNow
<1>22. PusherOk'
  <2>1. /\ p' \in Pushers /\ p'.pc = "declared" /\ p'.len = len /\ p'.next = p.next
        /\ p'.intent_floor = p.intent_floor
    BY <1>0, <1>1 DEF Pushers, Writing
  <2>2. NewTail(p.len)' = tail
    BY <1>2, <2>1 DEF NewTail, Pad, ToEnd, Position, record_len, align_up, HEADER, ALIGN
  <2>3. fenced' = m /\ fenced' \in 0 .. Now' /\ fenced' > 0
    BY <1>0, <1>10, <1>11 DEF Now
  <2>4. log'[fenced'].loc = TailIntent /\ log'[fenced'].val >= NewTail(p.len)'
    BY <1>6, <1>8, <1>11, <2>2, <2>3
  <2>5. pushes' \in 0 .. MaxPushes /\ pushes' > 0
    BY <1>0, <1>1
  <2>6. Intent' \in {NewTail(p.len)', p'.intent_floor} /\ p'.next = Committed'
    BY <1>1, <1>6, <1>12, <1>15, <2>1, <2>2
  <2>7. p'.len \in Lengths /\ p'.len <= max_message_len
    BY <1>0, <2>1
  <2> QED BY <2>1, <2>3, <2>4, <2>5, <2>6, <2>7 DEF PusherOk, Writing, TailIntent, max_message_len
<1> QED BY <1>0, <1>9, <1>14, <1>15, <1>16, <1>17, <1>18, <1>19, <1>20, <1>21, <1>22 DEF BytesInv

-----------------------------------------------------------------------------
(* The byte ring: a frame is committed *)

\* Within a frame only its start, and its record, can be at the beginning of a lap.
LEMMA LapStart ==
  ASSUME NEW f, LaidOut(f), NEW x \in Nat, f.start <= x, x < f.end, Position(x) = 0
  PROVE  x \in {f.start, f.at}
<1>0. /\ f.start \in Nat /\ f.at \in Nat /\ f.end \in Nat /\ f.start <= f.at
      /\ f.end = f.at + record_len(f.record[1]) /\ record_len(f.record[1]) \in Nat
      /\ record_len(f.record[1]) <= ToEnd(f.at)
  BY Framed
<1>1. \A y \in Nat : /\ Position(y) \in Nat /\ ToEnd(y) \in Nat /\ Position(y) + ToEnd(y) = capacity
                     /\ Position(y) < capacity
  BY PositionType
<1>2. capacity \in Nat
  BY CapacityType
<1>3. CASE x < f.at
  <2>1. f.at = f.start + ToEnd(f.start)
    BY <1>0, <1>3 DEF LaidOut
  <2>2. PICK k \in Nat : k = x - f.start /\ x = f.start + k
    <3>1. PICK y \in Nat : y = f.start
      BY <1>0
    <3>2. x - y \in Nat /\ x = y + (x - y)
      BY <3>1
    <3> QED BY <3>1, <3>2
  <2>3. Position(f.start) + k < capacity
    BY <1>0, <1>1, <1>2, <1>3, <2>1, <2>2
  <2>4. Position(x) = Position(f.start) + k
    BY <1>0, <2>2, <2>3, PositionPlus
  <2>5. k = 0
    BY <1>0, <1>1, <2>2, <2>4
  <2> QED BY <1>0, <2>2, <2>5
<1>4. CASE ~(x < f.at)
  <2>1. PICK k \in Nat : k = x - f.at /\ x = f.at + k /\ k < record_len(f.record[1])
    <3>1. PICK y \in Nat, n \in Nat : y = f.at /\ n = record_len(f.record[1])
      BY <1>0
    <3>2. x - y \in Nat /\ x = y + (x - y) /\ x < y + n /\ x - y < n
      BY <1>0, <1>4, <3>1
    <3> QED BY <3>1, <3>2
  <2>2. Position(f.at) + k < capacity
    BY <1>0, <1>1, <1>2, <2>1
  <2>3. Position(x) = Position(f.at) + k
    BY <1>0, <2>1, <2>2, PositionPlus
  <2>4. k = 0
    BY <1>0, <1>1, <2>1, <2>3
  <2> QED BY <1>0, <2>1, <2>4
<1> QED BY <1>3, <1>4

\* The log of frames with one more in it.
LEMMA FrameCommitted ==
  ASSUME LogOk, FramesOk, IntentOk, NEW f, LaidOut(f), f.start = Committed, f.end <= Intent,
         frames' = Append(frames, f), Intent' = Intent
  PROVE  /\ FramesOk' /\ KeepsFrames /\ Committed' = f.end /\ Place \subseteq Place'
         /\ Len(frames)' = Len(frames) + 1 /\ frames'[Len(frames) + 1] = f
<1>0. /\ frames \in Seq(ByteFrames) /\ Len(frames) \in Nat /\ DOMAIN frames = 1 .. Len(frames)
      /\ f \in ByteFrames /\ Intent \in Nat /\ Committed \in Nat
  BY FrameIndex, IntentType DEF LaidOut
<1>1. PICK l \in Nat : l = Len(frames)
  BY <1>0
<1>2. /\ frames' \in Seq(ByteFrames) /\ Len(frames') = l + 1 /\ frames'[l + 1] = f
      /\ \A n \in 1 .. l : frames'[n] = frames[n]
  BY <1>0, <1>1, AppendProperties
<1>3. DOMAIN frames' = 1 .. l + 1 /\ DOMAIN frames = 1 .. l
  BY <1>0, <1>1, <1>2, LenProperties
<1>4. KeepsFrames
  BY <1>2, <1>3 DEF KeepsFrames
<1>5. /\ f.start \in Nat /\ f.at \in Nat /\ f.end \in Nat /\ f.start <= f.at /\ f.at + 8 <= f.end
      /\ f.start < f.end
  <2>1. f.start \in Nat /\ f.at \in Nat /\ f.end \in Nat /\ f.start <= f.at /\ f.at + 8 <= f.end
    BY Framed
  <2> QED BY <2>1
<1>6. FrameEnd(l + 1)' = f.end /\ Committed' = f.end
  <2>1. FrameEnd(l + 1)' = f.end
    BY <1>2 DEF FrameEnd
  <2>2. Committed' = FrameEnd(l + 1)'
    BY <1>2 DEF Committed, FrameEnd
  <2> QED BY <2>1, <2>2
<1>7. \A n \in 0 .. l : FrameEnd(n)' = FrameEnd(n) /\ FrameEnd(n) \in Nat /\ FrameEnd(n) <= Committed
  BY <1>1, <1>4, EndKept, EndType
<1>8. \A n \in DOMAIN frames' : LaidOut(frames'[n]) /\ frames'[n].start = FrameEnd(n - 1)'
  <2> TAKE n \in DOMAIN frames'
  <2>1. CASE n \in 1 .. l
    <3>1. LaidOut(frames[n]) /\ frames[n].start = FrameEnd(n - 1) /\ n - 1 \in 0 .. l
      BY <1>1, <1>3, <2>1, FrameIndex
    <3> QED BY <1>2, <1>7, <2>1, <3>1
  <2>2. CASE n = l + 1
    <3>1. n - 1 = l /\ l \in 0 .. l
      BY <2>2
    <3>2. f.start = FrameEnd(l)
      BY <1>1 DEF Committed
    <3> QED BY <1>2, <1>7, <2>2, <3>1, <3>2
  <2> QED BY <1>3, <2>1, <2>2
<1>9. \A i, n \in 0 .. l + 1 : i < n => FrameEnd(i)' < FrameEnd(n)'
  <2> TAKE i, n \in 0 .. l + 1
  <2> HAVE i < n
  <2>1. CASE n \in 0 .. l
    <3>1. i \in 0 .. l
      BY <2>1
    <3>2. FrameEnd(i) < FrameEnd(n)
      BY <1>1, <2>1, <3>1 DEF FramesOk
    <3> QED BY <1>7, <2>1, <3>1, <3>2
  <2>2. CASE n = l + 1
    <3>1. i \in 0 .. l
      BY <2>2
    <3>2. FrameEnd(i) \in Nat /\ FrameEnd(i) <= Committed /\ FrameEnd(i)' = FrameEnd(i) /\ FrameEnd(n)' = f.end
      BY <1>6, <1>7, <2>2, <3>1
    <3> QED BY <1>0, <1>5, <3>2
  <2> QED BY <2>1, <2>2
<1>10. FramesOk'
  <2>1. \A n \in DOMAIN frames' : LaidOut(frames[n])' /\ (frames[n].start = FrameEnd(n - 1))'
    BY <1>8 DEF LaidOut, ByteFrames, max_message_len, ToEnd, Position, record_len, align_up, HEADER, ALIGN
  <2>2. (\A i, n \in 0 .. Len(frames) : i < n => FrameEnd(i) < FrameEnd(n))'
    BY <1>2, <1>9
  <2>3. (frames \in Seq(ByteFrames))'
    BY <1>2 DEF ByteFrames
  <2> QED BY <2>1, <2>2, <2>3 DEF FramesOk
<1>11. \A e \in FrameEnds : e \in FrameEnds'
  <2> TAKE e \in FrameEnds
  <2>1. PICK n \in 0 .. l : e = FrameEnd(n)
    BY <1>1 DEF FrameEnds
  <2>2. e = FrameEnd(n)' /\ n \in 0 .. Len(frames')
    BY <1>2, <1>7, <2>1
  <2> QED BY <2>2 DEF FrameEnds
<1>12. ASSUME NEW x \in Place PROVE x \in Place'
  <2>1. CASE x \in FrameEnds
    BY <1>11, <2>1 DEF Place
  <2>2. CASE x \in {frames[n].at : n \in DOMAIN frames}
    <3>1. PICK n \in DOMAIN frames : x = frames[n].at
      BY <2>2
    <3>2. x = frames'[n].at /\ n \in DOMAIN frames'
      BY <1>4, <3>1 DEF KeepsFrames
    <3> QED BY <3>2 DEF Place
  <2>3. CASE x \in {y \in Committed .. Intent : Position(y) = 0}
    <3>1. x \in Nat /\ f.start <= x /\ x <= Intent /\ Position(x) = 0
      BY <1>0, <1>5, <2>3
    <3>2. CASE x < f.end
      <4>1. x \in {f.start, f.at}
        BY <3>1, <3>2, LapStart
      <4>2. CASE x = f.start
        <5>1. x \in FrameEnds
          BY <4>2, EndsType
        <5> QED BY <1>11, <5>1 DEF Place
      <4>3. CASE x = f.at
        <5>1. l + 1 \in DOMAIN frames' /\ frames'[l + 1].at = x
          BY <1>2, <1>3, <4>3
        <5> QED BY <5>1 DEF Place
      <4> QED BY <4>1, <4>2, <4>3
    <3>3. CASE ~(x < f.end)
      <4>1. x \in Committed' .. Intent'
        BY <1>0, <1>5, <1>6, <3>1, <3>3
      <4> QED BY <3>1, <4>1 DEF Place, Position
    <3> QED BY <3>2, <3>3
  <2> QED BY <2>1, <2>2, <2>3 DEF Place
<1> QED BY <1>1, <1>2, <1>4, <1>6, <1>10, <1>12

\* push: the tail, and with it the frame.
LEMMA StoreTailStep ==
  ASSUME BytesInv, StoreTail
  PROVE  /\ BytesInv' /\ UNCHANGED <<closes, Intent>>
         /\ frames' = Append(frames, Pending) /\ LaidOut(Pending) /\ Pending.start = Committed
         /\ Pending.end <= Intent
<1>0. /\ LogOk /\ FramesOk /\ IntentOk /\ TailsOk /\ LatestOk /\ ClosesOk /\ PusherOk /\ ReaderOk
      /\ Now \in Nat /\ Now \in 0 .. Now /\ Intent \in Nat /\ Committed \in Nat /\ Committed <= Intent
      /\ \A n \in DOMAIN frames : HoldsFrame(frames[n], Now)
      /\ p \in Pushers /\ p.pc = "pointed" /\ p.pc \in Writing
      /\ UNCHANGED <<closes, bytes_consumer, fenced, pushes>>
      /\ p' = [p EXCEPT !.pc = "idle", !.next = NewTail(p.len), !.len = 0]
      /\ log' = Append(log, Release(TailCounter, NewTail(p.len)))
      /\ frames' = Append(frames, Pending)
  BY InvFacts DEF StoreTail, Writing, Pending
<1>1. PICK f : f = Pending
  OBVIOUS
<1>2. /\ LaidOut(f) /\ f.start = Committed /\ f.end = NewTail(p.len) /\ f.end \in Nat
      /\ f.start <= f.at /\ f.at + 8 <= f.end /\ f.at \in Nat
  BY <1>0, <1>1, PendingType, Framed
<1>3. PICK k : k = Now
  OBVIOUS
<1>4. k \in 0 .. Now /\ k \in Nat /\ HoldsHeaders(f, k) /\ HoldsPayload(f, k)
  BY <1>0, <1>1, <1>3 DEF PusherOk
<1>5. fenced \in 1 .. Now /\ log[fenced].loc = TailIntent /\ log[fenced].val >= f.end
  BY <1>0, <1>2 DEF PusherOk
<1>6. f.end <= Intent
  <2>1. log[fenced].val \in Nat /\ log[fenced].val <= Intent
    BY <1>0, <1>5, IntentType
  <2> QED BY <1>0, <1>2, <1>5, <2>1
<1>7. PICK r : r = Release(TailCounter, f.end)
  OBVIOUS
<1>8. r \in BytesStore /\ r.loc = TailCounter /\ r.val = f.end /\ r.rel = Now + 1 /\ log' = Append(log, r)
  BY <1>0, <1>2, <1>7, CounterLocation DEF Release, BytesStore, Now
<1>9. /\ LogOk' /\ Grows /\ Now' = Now + 1 /\ log'[Now'] = r /\ Now' \in Nat /\ Now' > 0
      /\ \A u \in Now + 1 .. Now' : u = Now' /\ log'[u] = r
  <2>1. r.rel <= Now + 1
    BY <1>0, <1>8
  <2> QED BY <1>0, <1>8, <2>1, StoreAppended
<1>10. PICK m \in Nat : m = Now'
  BY <1>9
<1>11. m = k + 1 /\ log'[m] = r /\ \A u \in 1 .. Now' : u \in 1 .. Now \/ u = m
  <2>1. m = k + 1
    BY <1>3, <1>9, <1>10
  <2>2. \A u \in 1 .. k + 1 : u \in 1 .. k \/ u = k + 1
    BY <1>4
  <2> QED BY <1>3, <1>9, <1>10, <2>1, <2>2
<1>12. /\ \A u \in Now + 1 .. Now' :
            log'[u].loc # TailIntent /\ log'[u].loc # Latest /\ log'[u].loc # CloseFlag
       /\ SparesFrames /\ \A x \in Nat : Spares(x)
  <2>1. \A u \in Now + 1 .. Now' : log'[u].loc = TailCounter
    BY <1>8, <1>9
  <2>2. \A u \in Now + 1 .. Now' : log'[u].loc \in {TailIntent, Latest, TailCounter, CloseFlag}
    BY <2>1
  <2>3. \A x \in Nat : Spares(x)
    BY <2>2, CounterSpares
  <2> QED BY <2>1, <2>3, CounterLocation DEF SparesFrames
<1>13. Intent' = Intent
  BY <1>9, <1>12, NewestKept DEF Intent
<1>14. /\ FramesOk' /\ KeepsFrames /\ Committed' = f.end /\ Place \subseteq Place'
       /\ Len(frames)' = Len(frames) + 1 /\ frames'[Len(frames) + 1] = f
  BY <1>0, <1>1, <1>2, <1>6, <1>13, FrameCommitted
<1>15. PICK l \in Nat : l = Len(frames)
  BY <1>0, FrameIndex
<1>16. DOMAIN frames = 1 .. l /\ Len(frames') = l + 1 /\ DOMAIN frames' = 1 .. l + 1 /\ frames'[l + 1] = f
  <2>1. frames \in Seq(ByteFrames) /\ f \in ByteFrames
    BY <1>0, <1>2, FrameIndex DEF LaidOut
  <2>2. frames' \in Seq(ByteFrames)
    BY <1>0, <1>1, <2>1, AppendProperties
  <2> QED BY <1>14, <1>15, <2>1, <2>2, LenProperties
<1>17. \A n \in 1 .. l : HoldsFrame(frames[n], k)' /\ HoldsFrame(frames[n], Now)'
  <2> TAKE n \in 1 .. l
  <2>1. HoldsFrame(frames[n], k) /\ n \in DOMAIN frames
    BY <1>0, <1>3, <1>16
  <2>2. HoldsFrame(frames[n], k)'
    BY <1>0, <1>4, <1>9, <1>12, <1>14, <2>1, HeldKept
  <2> QED BY <1>4, <1>9, <2>2, HoldsNow
<1>18. HoldsFrame(f, Now)'
  <2>1. HoldsHeaders(f, k)' /\ HoldsPayload(f, k)'
    BY <1>0, <1>2, <1>4, <1>9, <1>12, HeadersKept, PayloadKept
  <2>2. HoldsHeaders(f, Now)' /\ HoldsPayload(f, Now)'
    BY <1>4, <1>9, <2>1, HoldsNow
  <2> QED BY <2>2 DEF HoldsFrame
<1>19. \A n \in 1 .. l + 1 : HoldsFrame(frames[n], Now)'
  <2> TAKE n \in 1 .. l + 1
  <2>1. CASE n \in 1 .. l
    BY <1>17, <2>1
  <2>2. CASE n = l + 1
    <3>1. HoldsFrame(frames[l + 1], Now)'
      BY <1>16, <1>18
    <3> QED BY <2>2, <3>1
  <2> QED BY <2>1, <2>2
<1>20. IntentOk'
  BY <1>0, <1>2, <1>6, <1>9, <1>12, <1>14, IntentKept
<1>21. TailsOk'
  <2>1. \A t \in 1 .. Now : log[t].loc = TailCounter =>
          \E n \in 0 .. l : Publishes(t, n) /\ log[t].val = FrameEnd(n) /\ FrameEnd(n) \in Nat /\ FrameEnd(n) <= Committed
    <3> TAKE t \in 1 .. Now
    <3> HAVE log[t].loc = TailCounter
    <3>1. PICK n \in 0 .. l : Publishes(t, n)
      BY <1>0, <1>15 DEF TailsOk
    <3> QED BY <1>0, <1>15, <3>1, EndType DEF Publishes
  <2>2. Publishes(m, l + 1)'
    <3>1. FrameEnd(l + 1)' = f.end
      BY <1>16 DEF FrameEnd
    <3>2. log'[m].rel = m /\ log'[m].val = FrameEnd(l + 1)'
      BY <1>3, <1>8, <1>11, <3>1
    <3>3. Announced(m, FrameEnd(l + 1))'
      <4>1. fenced \in 1 .. m /\ log'[fenced] = log[fenced]
        BY <1>3, <1>4, <1>5, <1>9, <1>11 DEF Grows
      <4> QED BY <1>5, <3>1, <4>1 DEF Announced, TailIntent
    <3>4. \A n \in 1 .. l + 1 : HoldsFrame(frames[n], m)'
      BY <1>10, <1>19
    <3> QED BY <3>2, <3>3, <3>4 DEF Publishes
  <2>3. ASSUME NEW t \in 1 .. Now', log'[t].loc = TailCounter
        PROVE  \E n \in 0 .. Len(frames') : Publishes(t, n)'
    <3>1. CASE t \in 1 .. Now
      <4>1. log'[t] = log[t]
        BY <1>9, <3>1 DEF Grows
      <4>2. PICK n \in 0 .. l : Publishes(t, n)
        BY <2>1, <2>3, <3>1, <4>1
      <4>3. Publishes(t, n)'
        BY <1>0, <1>9, <1>12, <1>14, <1>15, <3>1, <4>2, PublishesKept
      <4>4. n \in 0 .. Len(frames')
        BY <1>16
      <4> QED BY <4>3, <4>4
    <3>2. CASE t = m
      <4>1. l + 1 \in 0 .. Len(frames')
        BY <1>16
      <4> QED BY <2>2, <3>2, <4>1
    <3> QED BY <1>11, <3>1, <3>2
  <2>4. ASSUME NEW u \in 1 .. Now', NEW t \in 1 .. u, log'[t].loc = TailCounter, log'[u].loc = TailCounter
        PROVE  log'[t].val <= log'[u].val
    <3>1. CASE u \in 1 .. Now
      <4>0. t \in 1 .. Now
        BY <1>0, <3>1
      <4>1. t \in 1 .. Now /\ log'[u] = log[u] /\ log'[t] = log[t]
        BY <1>9, <3>1, <4>0 DEF Grows
      <4> QED BY <1>0, <2>4, <3>1, <4>1 DEF TailsOk
    <3>2. CASE u = m
      <4>1. log'[u].val = f.end
        BY <1>8, <1>11, <3>2
      <4>2. CASE t = m
        BY <1>2, <3>2, <4>1, <4>2
      <4>3. CASE t \in 1 .. Now
        <5>1. log'[t] = log[t]
          BY <1>9, <4>3 DEF Grows
        <5>2. log[t].val \in Nat /\ log[t].val <= Committed
          BY <2>1, <2>4, <4>3, <5>1
        <5>3. Committed <= f.end
          BY <1>0, <1>2
        <5> QED BY <1>0, <1>2, <4>1, <5>1, <5>2, <5>3
      <4>4. t \in 1 .. Now'
        BY <1>9
      <4> QED BY <1>11, <4>2, <4>3, <4>4
    <3> QED BY <1>11, <3>1, <3>2
  <2>5. (Newest(TailCounter) = Committed)'
    <3>1. m > 0 /\ log'[m].loc = TailCounter /\ log'[m].val = f.end
      BY <1>4, <1>8, <1>11
    <3>2. Newest(TailCounter)' = f.end
      BY <1>10, <3>1, NewestStored DEF TailCounter
    <3> QED BY <1>14, <3>2
  <2> QED BY <2>3, <2>4, <2>5 DEF TailsOk, TailCounter
<1>22. LatestOk'
  BY <1>0, <1>9, <1>12, <1>14, LatestKept
<1>23. ClosesOk'
  <2>1. closes' \subseteq Nat /\ closes \subseteq closes'
    BY <1>0 DEF ClosesOk
  <2> QED BY <1>0, <1>9, <1>12, <2>1, ClosesKept
<1>24. ReaderOk'
  <2>1. closes \subseteq closes' /\ Intent' \in Nat /\ Intent <= Intent'
    BY <1>0, <1>13
  <2> QED BY <1>0, <1>9, <1>12, <1>14, <2>1, ReaderKept
<1>25. PusherOk'
  <2>1. PICK tail \in Nat : tail = NewTail(p.len)
    BY <1>2
  <2>2. /\ p' \in Pushers /\ p'.pc = "idle" /\ p'.next = tail /\ p'.intent_floor = p.intent_floor
    <3>1. PICK h : h = [p EXCEPT !.pc = "idle", !.next = tail]
      OBVIOUS
    <3>2. h \in Pushers /\ h.pc = "idle" /\ h.next = tail /\ h.intent_floor = p.intent_floor
      BY <1>0, <2>1, <3>1 DEF Pushers
    <3>3. p' = [h EXCEPT !.len = 0]
      BY <1>0, <2>1, <3>1
    <3> QED BY <3>2, <3>3 DEF Pushers
  <2>3. pushes' \in 0 .. MaxPushes /\ fenced' \in 0 .. Now'
    BY <1>0, <1>9 DEF PusherOk, Grows
  <2>4. p'.next = Committed' /\ Intent' \in {Committed', p'.intent_floor}
    BY <1>0, <1>2, <1>13, <1>14, <2>1, <2>2 DEF PusherOk
  <2> QED BY <2>2, <2>3, <2>4 DEF PusherOk, Writing
<1>26. (\A n \in DOMAIN frames : HoldsFrame(frames[n], Now))'
  BY <1>16, <1>19
<1>27. BytesInv'
  BY <1>9, <1>14, <1>20, <1>21, <1>22, <1>23, <1>24, <1>25, <1>26 DEF BytesInv
<1> QED BY <1>0, <1>1, <1>2, <1>6, <1>13, <1>27

-----------------------------------------------------------------------------
(* The byte ring: what the consumer's loads return *)

\* What a load adds to what is known, by the store it returned.
LEMMA LoadView ==
  ASSUME LogOk, NEW k \in 0 .. Now, NEW t \in 0 .. Now
  PROVE  /\ With(k, t) \in 0 .. Now /\ k <= With(k, t)
         /\ t # 0 => log[t].rel <= With(k, t) /\ log[t].rel \in 0 .. Now
<1>0. Now \in Nat
  BY StoreType
<1>1. CASE t = 0
  BY <1>0, <1>1 DEF With
<1>2. CASE t # 0
  <2>1. t \in 1 .. Now
    BY <1>0, <1>2
  <2>2. PICK r : r = log[t].rel
    OBVIOUS
  <2>3. r \in 0 .. t
    BY <2>1, <2>2, StoreType
  <2>4. With(k, t) = IF r <= k THEN k ELSE r
    BY <1>2, <2>2 DEF With
  <2>5. With(k, t) \in 0 .. Now /\ k <= With(k, t) /\ r <= With(k, t) /\ r \in 0 .. Now
    BY <1>0, <2>1, <2>3, <2>4
  <2> QED BY <2>2, <2>5
<1> QED BY <1>1, <1>2

\* What a fence adds to what is known.
LEMMA FenceView ==
  ASSUME LogOk, view \in 0 .. Now, pending \in 0 .. Now
  PROVE  Fenced \in 0 .. Now /\ view <= Fenced /\ pending <= Fenced
<1>0. Now \in Nat
  BY StoreType
<1>1. view \in Nat /\ pending \in Nat /\ view <= Now /\ pending <= Now
  BY <1>0
<1> QED BY <1>0, <1>1 DEF Fenced

\* What a load may return is a store to its location, or none.
LEMMA VisibleStore ==
  ASSUME LogOk, NEW loc, NEW t \in Visible(loc)
  PROVE  /\ t \in 0 .. Now /\ Value(t) \in Int
         /\ t # 0 => t \in 1 .. Now /\ log[t].loc = loc /\ Value(t) = log[t].val
<1>0. Now \in Nat
  BY StoreType
<1>1. t \in 0 .. Now /\ (t = 0 \/ log[t].loc = loc)
  BY DEF Visible, IsStore
<1>2. t # 0 => t \in 1 .. Now
  BY <1>0, <1>1
<1>3. t # 0 => log[t].val \in Int
  BY <1>2, StoreType
<1> QED BY <1>1, <1>2, <1>3 DEF Value

\* A load never returns a store that one the consumer knows of overwrote.
LEMMA VisibleIsLater ==
  ASSUME LogOk, view \in 0 .. Now, NEW loc, NEW t \in Visible(loc), NEW s \in 1 .. view, log[s].loc = loc
  PROVE  t \in 1 .. Now /\ log[t].loc = loc /\ s <= t /\ s \in 1 .. t
<1>0. Now \in Nat
  BY StoreType
<1>1. t \in 0 .. Now /\ (t = 0 \/ log[t].loc = loc) /\ \A u \in t + 1 .. view : log[u].loc # loc
  BY DEF Visible, IsStore
<1>2. ~(s \in t + 1 .. view)
  BY <1>1
<1>3. s <= t
  BY <1>0, <1>1, <1>2
<1> QED BY <1>0, <1>1, <1>3

\* A load of a lane that is known to be held returns what it holds, or is the last
\* the consumer needs to be told that the lane was passed.
LEMMA LoadsHeld ==
  ASSUME LogOk, view \in 0 .. Now, NEW x, NEW v, Holds(x, v, view), NEW t \in Visible(Lane(x))
  PROVE  t \in 1 .. Now /\ (Value(t) = v \/ Passed(log[t].rel, x))
<1>0. Now \in Nat
  BY StoreType
<1>1. PICK s \in 1 .. view : /\ log[s].loc = Lane(x) /\ log[s].val = v
                             /\ \A u \in s + 1 .. Now : log[u].loc = Lane(x) => Passed(log[u].rel, x)
  BY DEF Holds
<1>2. t \in 1 .. Now /\ log[t].loc = Lane(x) /\ s <= t
  BY <1>1, VisibleIsLater
<1>3. Value(t) = log[t].val
  BY <1>2 DEF Value
<1>4. t = s \/ t \in s + 1 .. Now
  BY <1>0, <1>1, <1>2
<1> QED BY <1>1, <1>2, <1>3, <1>4

\* A load of the tail returns the end of a frame, and none before one it knew of.
LEMMA LoadsTail ==
  ASSUME LogOk, FramesOk, TailsOk, view \in 0 .. Now, NEW t \in Visible(TailCounter)
  PROVE  /\ Value(t) \in FrameEnds /\ Value(t) \in Nat
         /\ Value(t) = 0 \/ \E s \in 1 .. With(view, t) : log[s].loc = TailCounter /\ log[s].val = Value(t)
         /\ \A s \in 1 .. view : log[s].loc = TailCounter => log[s].val \in Nat /\ log[s].val <= Value(t)
<1>0. Now \in Nat /\ t \in 0 .. Now
  BY StoreType, VisibleStore
<1>1. \A s \in 1 .. Now : log[s].loc = TailCounter =>
        log[s].rel = s /\ log[s].val \in FrameEnds /\ log[s].val \in Nat
  BY EndType DEF TailsOk, Publishes
<1>2. CASE t = 0
  <2>1. Value(t) = 0
    BY <1>2 DEF Value
  <2>2. ASSUME NEW s \in 1 .. view, log[s].loc = TailCounter PROVE FALSE
    <3>1. t \in 1 .. Now
      BY <2>2, VisibleIsLater
    <3> QED BY <1>2, <3>1
  <2> QED BY <2>1, <2>2, EndsType
<1>3. CASE t # 0
  <2>1. t \in 1 .. Now /\ log[t].loc = TailCounter /\ Value(t) = log[t].val
    BY <1>3, VisibleStore
  <2>2. log[t].rel = t /\ Value(t) \in FrameEnds /\ Value(t) \in Nat
    BY <1>1, <2>1
  <2>3. t <= With(view, t) /\ With(view, t) \in 0 .. Now
    BY <1>0, <1>3, <2>2, LoadView
  <2>4. t \in 1 .. With(view, t)
    BY <1>0, <2>1, <2>3
  <2>5. ASSUME NEW s \in 1 .. view, log[s].loc = TailCounter
        PROVE  log[s].val \in Nat /\ log[s].val <= Value(t)
    <3>1. s \in 1 .. t /\ s \in 1 .. Now
      BY <1>0, <2>5, VisibleIsLater
    <3> QED BY <1>1, <2>1, <2>5, <3>1 DEF TailsOk
  <2> QED BY <2>1, <2>2, <2>4, <2>5
<1> QED BY <1>2, <1>3

\* The window, as a consumer at a frame's place finds it.
LEMMA LoadsIntent ==
  ASSUME BytesInv, NEW t \in Visible(TailIntent), NEW e \in Nat, c.pos < e, Announced(view, e)
  PROVE  /\ Value(t) \in Nat /\ Value(t) >= e
         /\ Overrun(Value(t)) => Intent > c.pos + capacity
         /\ (\A u \in t + 1 .. Fenced : log[u].loc # TailIntent) /\ Passed(Fenced, c.pos) => Overrun(Value(t))
<1>0. /\ LogOk /\ FramesOk /\ IntentOk /\ Now \in Nat /\ Intent \in Nat /\ c.pos \in Nat /\ view \in 0 .. Now
      /\ pending \in 0 .. Now /\ capacity \in Nat
  BY InvFacts, CapacityType DEF ReaderOk
<1>1. PICK s \in 1 .. view : log[s].loc = TailIntent /\ log[s].val >= e
  BY <1>0 DEF Announced
<1>2. t \in 1 .. Now /\ log[t].loc = TailIntent /\ s \in 1 .. t /\ s \in 1 .. Now
  BY <1>0, <1>1, VisibleIsLater
<1>3. Value(t) = log[t].val /\ log[t].val \in Nat /\ log[t].val <= Intent /\ log[s].val \in Nat
      /\ log[s].val <= log[t].val
  BY <1>0, <1>1, <1>2, IntentType DEF Value, IntentOk
<1>4. Value(t) \in Nat /\ Value(t) >= e /\ Value(t) <= Intent
  BY <1>1, <1>3
<1>5. Overrun(Value(t)) => Intent > c.pos + capacity
  BY <1>0, <1>4 DEF Overrun
<1>6. ASSUME \A u \in t + 1 .. Fenced : log[u].loc # TailIntent, Passed(Fenced, c.pos) PROVE Overrun(Value(t))
  <2>1. PICK w \in 1 .. Fenced : log[w].loc = TailIntent /\ log[w].val > c.pos + capacity
    BY <1>6 DEF Passed
  <2>2. Fenced \in 0 .. Now
    BY <1>0, FenceView
  <2>3. ~(w \in t + 1 .. Fenced)
    BY <1>6, <2>1
  <2>4. w \in 1 .. t
    BY <1>0, <1>2, <2>2, <2>3
  <2>5. log[w].val <= log[t].val /\ log[w].val \in Nat
    <3>1. w \in 1 .. Now
      BY <1>0, <1>2, <2>4
    <3> QED BY <1>0, <1>2, <2>1, <2>4, <3>1, IntentType DEF IntentOk
  <2>6. Value(t) > c.pos + capacity
    BY <1>0, <1>3, <2>1, <2>5
  <2> QED BY <1>0, <1>4, <2>6 DEF Overrun
<1> QED BY <1>4, <1>5, <1>6

-----------------------------------------------------------------------------
(* The byte ring: what the consumer's steps keep *)

\* While nothing is stored, what is held, passed and announced is that still.
LEMMA LogSame ==
  ASSUME UNCHANGED log
  PROVE  /\ Now' = Now /\ Intent' = Intent
         /\ \A loc : Newest(loc)' = Newest(loc)
         /\ \A k, x : (Passed(k, x)' <=> Passed(k, x)) /\ (Announced(k, x)' <=> Announced(k, x))
         /\ \A f, k : HoldsHeaders(f, k)' <=> HoldsHeaders(f, k)
         /\ \A f, k : HoldsPayload(f, k)' <=> HoldsPayload(f, k)
         /\ \A f, k : HoldsFrame(f, k)' <=> HoldsFrame(f, k)
<1>1. Now' = Now
  BY DEF Now
<1>2. \A loc : Newest(loc)' = Newest(loc)
  BY <1>1 DEF Newest, IsStore, Value
<1>3. Intent' = Intent
  BY <1>2 DEF Intent, TailIntent
<1>4. \A k, x : (Passed(k, x)' <=> Passed(k, x)) /\ (Announced(k, x)' <=> Announced(k, x))
  BY DEF Passed, Announced, TailIntent
<1>5. \A x, v, k : Holds(x, v, k)' <=> Holds(x, v, k)
  BY <1>1, <1>4 DEF Holds, Lane, Position
<1>6. \A f, k : HoldsHeaders(f, k)' <=> HoldsHeaders(f, k)
  BY <1>5 DEF HoldsHeaders, PADDING
<1>7. \A f, k : HoldsPayload(f, k)' <=> HoldsPayload(f, k)
  BY <1>5 DEF HoldsPayload, PayloadLanes, lanes_of, HEADER, LANE
<1>8. \A f, k : HoldsFrame(f, k)' <=> HoldsFrame(f, k)
  BY <1>6, <1>7 DEF HoldsFrame
<1> QED BY <1>1, <1>2, <1>3, <1>4, <1>6, <1>7, <1>8

\* Whatever the consumer does, the rest of the invariant is kept.
LEMMA ConsumerKeeps ==
  ASSUME BytesInv, UNCHANGED bytes_producer, ReaderOk'
  PROVE  BytesInv'
<1>0. /\ LogOk /\ FramesOk /\ IntentOk /\ TailsOk /\ LatestOk /\ ClosesOk /\ PusherOk
      /\ Now \in 0 .. Now /\ Intent \in Nat /\ Committed \in Nat /\ Committed <= Intent
      /\ \A n \in DOMAIN frames : HoldsFrame(frames[n], Now)
      /\ UNCHANGED <<log, fenced, p, frames, closes, pushes>>
  BY InvFacts DEF bytes_producer
<1>1. LogOk' /\ Grows /\ Now' = Now /\ \A u \in Now + 1 .. Now' : FALSE
  BY <1>0, NothingStored
<1>2. /\ Intent' = Intent
      /\ \A f, k : HoldsHeaders(f, k)' <=> HoldsHeaders(f, k)
      /\ \A f, k : HoldsPayload(f, k)' <=> HoldsPayload(f, k)
      /\ \A f, k : HoldsFrame(f, k)' <=> HoldsFrame(f, k)
  BY <1>0, LogSame
<1>3. Place \subseteq Place' /\ Committed' = Committed /\ FramesOk'
  <2>1. Intent' \in Nat /\ Intent <= Intent'
    BY <1>0, <1>2
  <2> QED BY <1>0, <2>1, PlaceKept
<1>4. SparesFrames
  BY <1>1 DEF SparesFrames, Spares
<1>5. IntentOk'
  <2>1. Committed' \in Nat /\ Committed' <= Intent /\ \A u \in Now + 1 .. Now' : log'[u].loc # TailIntent
    BY <1>0, <1>1, <1>3
  <2> QED BY <1>0, <1>1, <2>1, IntentKept
<1>6. TailsOk'
  BY <1>0, <1>1, <1>4, TailsKept
<1>7. LatestOk'
  BY <1>0, <1>1, <1>3, LatestKept
<1>8. ClosesOk'
  <2>1. closes \subseteq closes' /\ closes' \subseteq Nat
    BY <1>0 DEF ClosesOk
  <2> QED BY <1>0, <1>1, <2>1, ClosesKept
<1>9. (\A n \in DOMAIN frames : HoldsFrame(frames[n], Now))'
  <2>1. PICK k : k = Now
    OBVIOUS
  <2>2. \A n \in DOMAIN frames : HoldsFrame(frames[n], k)'
    <3> TAKE n \in DOMAIN frames
    <3>1. PICK f : f = frames[n]
      OBVIOUS
    <3>2. HoldsFrame(f, k)'
      BY <1>0, <1>2, <2>1, <3>1
    <3>3. frames'[n] = f
      BY <1>0, <3>1
    <3> QED BY <3>2, <3>3
  <2> QED BY <1>0, <1>1, <2>1, <2>2
<1>10. PusherOk'
  <2>1. NewTail(p.len)' = NewTail(p.len) /\ RecordAt' = RecordAt /\ Pending' = Pending
    BY <1>0 DEF NewTail, RecordAt, Pending, Pad, ToEnd, Position, record_len, align_up, HEADER, ALIGN
  <2>2. PICK f, k : f = Pending /\ k = Now
    OBVIOUS
  <2>3. p.pc \in {"headed", "filled", "pointed"} => HoldsHeaders(Pending, Now)'
    <3>1. p.pc \in {"headed", "filled", "pointed"} => HoldsHeaders(f, k)'
      BY <1>0, <1>2, <2>2 DEF PusherOk
    <3> QED BY <1>1, <2>1, <2>2, <3>1
  <2>4. p.pc \in {"filled", "pointed"} => HoldsPayload(Pending, Now)'
    <3>1. p.pc \in {"filled", "pointed"} => HoldsPayload(f, k)'
      BY <1>0, <1>2, <2>2 DEF PusherOk
    <3> QED BY <1>1, <2>1, <2>2, <3>1
  <2>5. /\ p' \in Pushers /\ pushes' \in 0 .. MaxPushes /\ fenced' \in 0 .. Now'
        /\ p'.pc \in {"idle"} \union Writing => p'.next = Committed'
        /\ p'.pc = "idle" => Intent' \in {Committed', p'.intent_floor}
    BY <1>0, <1>1, <1>2, <1>3 DEF PusherOk
  <2>6. p'.pc \in Writing =>
          /\ pushes' > 0 /\ p'.len \in Lengths /\ p'.len <= max_message_len
          /\ fenced' > 0 /\ log'[fenced'].loc = TailIntent /\ log'[fenced'].val >= NewTail(p.len)'
          /\ Intent' \in {NewTail(p.len)', p'.intent_floor}
    BY <1>0, <1>2, <2>1 DEF PusherOk
  <2> QED BY <1>0, <2>3, <2>4, <2>5, <2>6 DEF PusherOk, Writing, TailIntent, max_message_len
<1> QED BY <1>1, <1>3, <1>5, <1>6, <1>7, <1>8, <1>9, <1>10 DEF BytesInv

\* A step of the consumer, by what it leaves the consumer with.
LEMMA ReaderMoves ==
  ASSUME BytesInv, UNCHANGED bytes_producer, c' \in Readers,
         NEW k \in 0 .. Now, view' = k, view <= k, pending' \in 0 .. Now,
         c'.pos \in Place, c'.pc = "out" <=> outcome' = Outcome("out", 0),
         c'.tail_cache \in {0, c.tail_cache} \/
           \E t \in 1 .. k : log[t].loc = TailCounter /\ log[t].val = c'.tail_cache,
         c'.pc \in {"lapped", "jump"} => Intent > c'.pos + capacity,
         c'.pc = "recheck" => KnowsClose(k),
         c'.pc = "copy" \/ c'.copied = {},
         c'.pc \in ReadingPcs => \E n \in DOMAIN frames : Reading(frames[n])'
  PROVE  BytesInv'
<1>0. /\ FramesOk /\ ReaderOk /\ Now \in Nat /\ Intent \in Nat /\ view \in 0 .. Now
      /\ UNCHANGED <<log, frames, closes>>
  BY InvFacts DEF bytes_producer
<1>1. Intent' = Intent /\ Now' = Now
  BY <1>0, LogSame
<1>2. Place \subseteq Place'
  BY <1>0, <1>1, PlaceKept
<1>3. c'.tail_cache = 0 \/ \E t \in 1 .. k : log[t].loc = TailCounter /\ log[t].val = c'.tail_cache
  <2>1. \A t \in 1 .. view : t \in 1 .. k
    BY <1>0
  <2>2. c'.tail_cache = c.tail_cache =>
          (c'.tail_cache = 0 \/ \E t \in 1 .. k : log[t].loc = TailCounter /\ log[t].val = c'.tail_cache)
    BY <1>0, <2>1 DEF ReaderOk
  <2> QED BY <2>2
<1>4. c'.pc = "recheck" => KnowsClose(view)'
  BY <1>0 DEF KnowsClose, TailCounter
<1>5. /\ c' \in Readers /\ view' \in 0 .. Now' /\ pending' \in 0 .. Now' /\ c'.pos \in Place'
      /\ c'.pc \in {"lapped", "jump"} => Intent' > c'.pos + capacity
  BY <1>1, <1>2
<1>6. c'.pc \in ReadingPcs => \E n \in DOMAIN frames' : Reading(frames[n])'
  BY <1>0
<1>7. c'.tail_cache = 0 \/ \E t \in 1 .. view' : log'[t].loc = TailCounter /\ log'[t].val = c'.tail_cache
  BY <1>0, <1>3
<1>8. ReaderOk'
  BY <1>4, <1>5, <1>6, <1>7 DEF ReaderOk, Outcome, TailCounter
<1> QED BY <1>8, ConsumerKeeps

\* What it knows of the frame it reads, it knows from then on.
LEMMA ReadsOn ==
  ASSUME BytesInv, UNCHANGED bytes_producer, NEW n \in DOMAIN frames, Reading(frames[n]),
         NEW k \in 0 .. Now, view' = k, view <= k, pending' \in 0 .. Now, Fenced <= Fenced',
         c'.pos = c.pos, c'.cursor \in {frames[n].start, frames[n].at},
         ~Passed(Fenced', c.pos) /\ ~Passed(Fenced, c.pos) =>
           /\ c'.pc = "window" => c'.cursor \in {c'.pos, frames[n].at}
           /\ c'.pc = "padding" => c'.cursor = frames[n].start /\ c'.cursor # frames[n].at
           /\ c'.pc \in {"skipped", "copy"} => c'.cursor = frames[n].at
           /\ c'.pc = "copy" =>
                /\ c'.len = frames[n].record[1]
                /\ \A x \in c'.copied : /\ x[1] \in PayloadLanes(frames[n].at, frames[n].record[1])
                                        /\ x[2] = frames[n].record[2]
  PROVE  Reading(frames[n])'
<1>0. /\ LogOk /\ FramesOk /\ ReaderOk /\ Now \in Nat /\ view \in 0 .. Now /\ pending \in 0 .. Now
      /\ c.pos \in Nat /\ UNCHANGED <<log, frames>>
  BY InvFacts DEF bytes_producer, ReaderOk
<1>1. PICK f : f = frames[n]
  OBVIOUS
<1>2. frames'[n] = f /\ Reading(f) /\ f.end \in Nat
  BY <1>0, <1>1, FrameTail
<1>3. HoldsFrame(f, k)
  BY <1>0, <1>2, HoldsMore DEF Reading
<1>4. Announced(k, f.end)
  BY <1>0, <1>2, PassedMore DEF Reading
<1>5. HoldsFrame(f, k)' /\ Announced(k, f.end)'
  BY <1>0, <1>3, <1>4, LogSame
<1>6. HoldsFrame(f, view)' /\ Announced(view, f.end)'
  BY <1>5
<1>7. PICK x, y, z : x = Fenced /\ y = Fenced' /\ z = c.pos
  OBVIOUS
<1>8. x \in 0 .. Now /\ y \in 0 .. Now /\ x <= y
  <2>1. x \in 0 .. Now
    BY <1>0, <1>7, FenceView
  <2>2. y \in 0 .. Now
    BY <1>7 DEF Fenced
  <2> QED BY <1>7, <2>1, <2>2
<1>9. Passed(x, z) => Passed(y, z)
  BY <1>0, <1>7, <1>8, PassedMore
<1>10. Passed(Fenced, c.pos)' <=> Passed(y, z)
  <2>1. Passed(y, z)' <=> Passed(y, z)
    BY <1>0, LogSame
  <2>2. Fenced' = y /\ c'.pos = z
    BY <1>7
  <2> QED BY <2>1, <2>2
<1>11. ~Passed(Fenced, c.pos)' =>
           /\ c'.pc = "window" => c'.cursor \in {c'.pos, f.at}
           /\ c'.pc = "padding" => c'.cursor = f.start /\ c'.cursor # f.at
           /\ c'.pc \in {"skipped", "copy"} => c'.cursor = f.at
           /\ c'.pc = "copy" =>
                /\ c'.len = f.record[1]
                /\ \A w \in c'.copied : w[1] \in PayloadLanes(f.at, f.record[1]) /\ w[2] = f.record[2]
  <2>1. ~Passed(Fenced, c.pos)' => ~Passed(Fenced', c.pos) /\ ~Passed(Fenced, c.pos)
    BY <1>7, <1>9, <1>10
  <2> QED BY <1>1, <2>1
<1>12. c'.pos \in {f.start, f.at} /\ c'.cursor \in {f.start, f.at}
  BY <1>1, <1>2 DEF Reading
<1>13. Reading(f)'
  BY <1>6, <1>11, <1>12 DEF Reading, PayloadLanes, lanes_of, HEADER, LANE
<1> QED BY <1>2, <1>13

-----------------------------------------------------------------------------
(* The byte ring: as the abstract log of records has it *)

MappedFrames == [i \in DOMAIN frames |-> [frames[i] EXCEPT !.record = Record(@)]]

\* A frame, with its record as a consumer sees it.
LEMMA MappedFrame ==
  ASSUME NEW f \in ByteFrames
  PROVE  /\ [f EXCEPT !.record = Record(@)].start = f.start
         /\ [f EXCEPT !.record = Record(@)].at = f.at
         /\ [f EXCEPT !.record = Record(@)].end = f.end
         /\ [f EXCEPT !.record = Record(@)].record = Record(f.record)
BY DEF ByteFrames

\* The frames of the abstract log are those of the ring.
LEMMA LossyFrames ==
  ASSUME FramesOk
  PROVE  /\ DOMAIN MappedFrames = DOMAIN frames /\ Len(MappedFrames) = Len(frames)
         /\ \A n \in DOMAIN frames :
              /\ MappedFrames[n] = [frames[n] EXCEPT !.record = Record(@)]
              /\ MappedFrames[n].start = frames[n].start /\ MappedFrames[n].at = frames[n].at
              /\ MappedFrames[n].end = frames[n].end /\ MappedFrames[n].record = Record(frames[n].record)
         /\ LossyBytes!Committed = Committed /\ LossyBytes!Ends = FrameEnds
         /\ LossyBytes!Starts = {frames[n].at : n \in DOMAIN frames}
<1>0. Len(frames) \in Nat /\ DOMAIN frames = 1 .. Len(frames) /\ frames \in Seq(ByteFrames)
  BY FrameIndex
<1>1. DOMAIN MappedFrames = DOMAIN frames /\ Len(MappedFrames) = Len(frames)
  <2>1. DOMAIN MappedFrames = DOMAIN frames
    BY DEF MappedFrames
  <2> QED BY <1>0, <2>1
<1>2. ASSUME NEW n \in DOMAIN frames
      PROVE  /\ MappedFrames[n] = [frames[n] EXCEPT !.record = Record(@)]
             /\ MappedFrames[n].start = frames[n].start /\ MappedFrames[n].at = frames[n].at
             /\ MappedFrames[n].end = frames[n].end /\ MappedFrames[n].record = Record(frames[n].record)
  <2>1. frames[n] \in ByteFrames
    BY <1>0, ElementOfSeq
  <2>2. MappedFrames[n] = [frames[n] EXCEPT !.record = Record(@)]
    BY DEF MappedFrames
  <2> QED BY <2>1, <2>2, MappedFrame
<1>3. LossyBytes!Committed = IF MappedFrames = << >> THEN 0 ELSE MappedFrames[Len(MappedFrames)].end
  BY DEF LossyBytes!Committed, MappedFrames
<1>4. LossyBytes!Committed = Committed
  <2>1. CASE Len(frames) = 0
    <3>1. DOMAIN MappedFrames = {}
      BY <1>0, <1>1, <2>1
    <3>2. MappedFrames = << >>
      BY <3>1 DEF MappedFrames
    <3> QED BY <1>3, <2>1, <3>2 DEF Committed, FrameEnd
  <2>2. CASE Len(frames) # 0
    <3>1. Len(frames) \in DOMAIN frames
      BY <1>0, <2>2
    <3>2. MappedFrames # << >>
      BY <1>1, <2>2
    <3> QED BY <1>1, <1>2, <1>3, <2>2, <3>1, <3>2 DEF Committed, FrameEnd
  <2> QED BY <2>1, <2>2
<1>5. LossyBytes!Ends = {0} \union {MappedFrames[i].end : i \in DOMAIN MappedFrames}
  BY DEF LossyBytes!Ends, MappedFrames
<1>6. LossyBytes!Ends = FrameEnds
  <2>1. ASSUME NEW e \in FrameEnds PROVE e \in {0} \union {frames[i].end : i \in DOMAIN frames}
    <3>1. PICK n \in 0 .. Len(frames) : e = FrameEnd(n)
      BY DEF FrameEnds
    <3>2. n # 0 => n \in DOMAIN frames
      BY <1>0
    <3> QED BY <3>1, <3>2 DEF FrameEnd
  <2>2. ASSUME NEW e \in {0} \union {frames[i].end : i \in DOMAIN frames} PROVE e \in FrameEnds
    BY EndsType, FrameTail
  <2>3. {MappedFrames[i].end : i \in DOMAIN MappedFrames} = {frames[i].end : i \in DOMAIN frames}
    BY <1>1, <1>2
  <2> QED BY <1>5, <2>1, <2>2, <2>3
<1>7. LossyBytes!Starts = {MappedFrames[i].at : i \in DOMAIN MappedFrames}
  BY DEF LossyBytes!Starts, MappedFrames
<1>8. LossyBytes!Starts = {frames[n].at : n \in DOMAIN frames}
  BY <1>1, <1>2, <1>7
<1> QED BY <1>1, <1>2, <1>4, <1>6, <1>8

\* The consumer changes nothing of them.
LEMMA LossySame ==
  ASSUME UNCHANGED bytes_producer
  PROVE  MappedFrames' = MappedFrames /\ closes' = closes /\ Newest(TailIntent)' = Newest(TailIntent)
         /\ frames' = frames /\ log' = log
<1>1. UNCHANGED <<log, frames, closes>>
  BY DEF bytes_producer
<1>2. Newest(TailIntent)' = Newest(TailIntent)
  BY <1>1, LogSame DEF TailIntent
<1> QED BY <1>1, <1>2 DEF MappedFrames

\* A step that returns nothing and goes nowhere.
LEMMA Unseen ==
  ASSUME UNCHANGED bytes_producer, UNCHANGED outcome, c'.pos = c.pos
  PROVE  UNCHANGED LossyBytes!vars
BY LossySame DEF LossyBytes!vars, MappedFrames

\* A step that begins a call.
LEMMA BeginsCall ==
  ASSUME BytesInv, UNCHANGED bytes_producer, c.pc # "out", c'.pos = c.pos, outcome' = Outcome("none", 0)
  PROVE  LossyBytes!Next
<1>1. outcome # Outcome("out", 0)
  BY DEF BytesInv, ReaderOk
<1>2. LossyBytes!Call
  BY <1>1, LossySame DEF LossyBytes!Call, LossyBytes!Out, LossyBytes!Nothing, Outcome, MappedFrames
<1> QED BY <1>2 DEF LossyBytes!Next

\* The producer's steps: it declares, commits or closes, or is not seen.
LEMMA ProducerRefines ==
  ASSUME BytesInv, BytesProducerNext
  PROVE  BytesInv' /\ [LossyBytes!Next]_(LossyBytes!vars)
<1>0. FramesOk /\ Intent \in Nat /\ Committed \in Nat /\ Intent = Newest(TailIntent) /\ Intent' = Newest(TailIntent)'
  BY InvFacts DEF Intent
<1>1. CASE WriteHeaders \/ CopyInLanes \/ StoreLatest \/ Die \/ Attach \/ Heal
  <2>1. BytesInv' /\ UNCHANGED <<frames, closes, Intent>>
    BY <1>1, WriteHeadersStep, CopyInLanesStep, StoreLatestStep, DieStep, AttachStep, HealStep
  <2>2. UNCHANGED <<c, outcome>>
    BY <1>1 DEF WriteHeaders, CopyInLanes, StoreLatest, Die, Attach, Heal, bytes_consumer
  <2> QED BY <1>0, <2>1, <2>2 DEF LossyBytes!vars
<1>2. CASE \E len \in Lengths : Declare(len)
  <2>1. BytesInv' /\ UNCHANGED <<frames, closes>> /\ Intent <= Intent'
    BY <1>2, DeclareStep
  <2>2. UNCHANGED <<c, outcome>>
    BY <1>2 DEF Declare, bytes_consumer
  <2>3. Intent' >= Intent
    <3>1. Intent' \in Nat
      <4>1. (BytesInv => Intent \in Nat)'
        BY InvFacts, PTL
      <4> QED BY <2>1, <4>1
    <3> QED BY <1>0, <2>1, <3>1
  <2>4. LossyBytes!Declare
    BY <1>0, <2>1, <2>2, <2>3 DEF LossyBytes!Declare
  <2> QED BY <2>1, <2>4 DEF LossyBytes!Next
<1>3. CASE StoreTail
  <2>1. PICK f : f = Pending
    OBVIOUS
  <2>2. /\ BytesInv' /\ UNCHANGED <<closes, Intent>> /\ frames' = Append(frames, f)
        /\ LaidOut(f) /\ f.start = Committed /\ f.end <= Intent
    BY <1>3, <2>1, StoreTailStep
  <2>3. UNCHANGED <<c, outcome>>
    BY <1>3 DEF StoreTail, bytes_consumer
  <2>4. PICK l \in Nat : l = Len(frames)
    BY <1>0, FrameIndex
  <2>5. /\ frames \in Seq(ByteFrames) /\ f \in ByteFrames /\ DOMAIN frames = 1 .. l
    BY <1>0, <2>2, <2>4, FrameIndex DEF LaidOut
  <2>6. /\ frames' \in Seq(ByteFrames) /\ Len(frames') = l + 1 /\ DOMAIN frames' = 1 .. l + 1
        /\ frames'[l + 1] = f /\ \A n \in 1 .. l : frames'[n] = frames[n]
    BY <2>2, <2>4, <2>5, AppendProperties, LenProperties
  <2>7. PICK m, mm : m = MappedFrames /\ mm = MappedFrames'
    OBVIOUS
  <2> DEFINE Mapped(g) == [g EXCEPT !.record = Record(@)]
  <2>8. /\ m = [i \in 1 .. l |-> Mapped(frames[i])]
        /\ mm = [i \in 1 .. l + 1 |-> Mapped(frames'[i])]
    BY <2>5, <2>6, <2>7 DEF MappedFrames, Record
  <2> HIDE DEF Mapped
  <2>9. Len(m) = l /\ Len(mm) = l + 1
    BY <2>8
  <2>10. mm[l + 1] = Mapped(f) /\ mm[Len(mm)] = mm[l + 1]
    BY <2>6, <2>8, <2>9
  <2>11. /\ mm[Len(mm)].start = Committed /\ mm[Len(mm)].at = f.at /\ mm[Len(mm)].end = f.end
         /\ mm[Len(mm)].record = Record(f.record)
    BY <2>2, <2>5, <2>10, MappedFrame DEF Mapped
  <2>12. SubSeq(mm, 1, Len(m)) = m
    <3>1. ASSUME NEW i \in 1 .. l PROVE mm[i] = m[i]
      <4>1. i \in 1 .. l + 1
        OBVIOUS
      <4> QED BY <2>6, <2>8, <4>1
    <3>2. SubSeq(mm, 1, l) = [i \in 1 .. l |-> mm[i]]
      BY <2>8, <2>9
    <3>3. [i \in 1 .. l |-> mm[i]] = [i \in 1 .. l |-> m[i]]
      BY <3>1
    <3>4. m = [i \in 1 .. l |-> m[i]]
      BY <2>8
    <3> QED BY <2>9, <3>2, <3>3, <3>4
  <2>13. /\ f.start <= f.at /\ f.at < f.end /\ f.record[1] \in Lengths /\ f.record[2] \in 1 .. MaxPushes
    <3>1. f.start <= f.at /\ f.at + 8 <= f.end /\ f.at \in Nat /\ f.end \in Nat
      BY <2>2, Framed
    <3> QED BY <2>2, <3>1, Framed
  <2>14. LossyBytes!Commit
    <3>1. LossyBytes!Committed = Committed
      BY <1>0, LossyFrames
    <3>2. mm[Len(mm)].start <= mm[Len(mm)].at /\ mm[Len(mm)].at < mm[Len(mm)].end
          /\ mm[Len(mm)].end <= Newest(TailIntent)
      BY <1>0, <2>2, <2>11, <2>13
    <3>3. Len(mm) = Len(m) + 1
      BY <2>9
    <3>4. PICK e : e = mm[Len(mm)]
      OBVIOUS
    <3>5. /\ e.start = LossyBytes!Committed /\ e.start <= e.at /\ e.at < e.end /\ e.end <= Newest(TailIntent)
      BY <2>11, <3>1, <3>2, <3>4
    <3>6. e.record \in WholeRecords
      <4>1. f.record \in Lengths \X (1 .. MaxPushes)
        BY <2>5 DEF ByteFrames
      <4> QED BY <2>11, <3>4, <4>1 DEF WholeRecords
    <3>7. MappedFrames'[Len(MappedFrames')] = e /\ Len(MappedFrames') = Len(MappedFrames) + 1
          /\ SubSeq(MappedFrames', 1, Len(MappedFrames)) = MappedFrames
      BY <2>7, <2>12, <3>3, <3>4
    <3>8. UNCHANGED <<Newest(TailIntent), closes, c.pos, outcome>>
      BY <1>0, <2>2, <2>3
    <3>9. /\ MappedFrames'[Len(MappedFrames')].start = LossyBytes!Committed
           /\ MappedFrames'[Len(MappedFrames')].start <= MappedFrames'[Len(MappedFrames')].at
           /\ MappedFrames'[Len(MappedFrames')].at < MappedFrames'[Len(MappedFrames')].end
           /\ MappedFrames'[Len(MappedFrames')].end <= Newest(TailIntent)
      BY <3>5, <3>7
    <3>10. MappedFrames'[Len(MappedFrames')].record \in WholeRecords
      BY <3>6, <3>7
    <3> QED BY <3>7, <3>8, <3>9, <3>10, Zenon DEF LossyBytes!Commit, MappedFrames
  <2> QED BY <2>2, <2>14 DEF LossyBytes!Next
<1>4. CASE DropBytesProducer
  <2>1. BytesInv' /\ UNCHANGED <<frames, Intent>> /\ closes' = closes \union {Committed}
    BY <1>4, DropStep
  <2>2. UNCHANGED <<c, outcome>>
    BY <1>4 DEF DropBytesProducer, bytes_consumer
  <2>3. LossyBytes!Close
    BY <1>0, <2>1, <2>2, LossyFrames DEF LossyBytes!Close
  <2> QED BY <2>1, <2>3 DEF LossyBytes!Next
<1> QED BY <1>1, <1>2, <1>3, <1>4 DEF BytesProducerNext, Push

-----------------------------------------------------------------------------
(* The byte ring: what the consumer's steps are, of the abstract log *)

\* What it returns, and where it goes, as one step of the abstract log.
LEMMA ReturnsAs ==
  ASSUME BytesInv, UNCHANGED bytes_producer
  PROVE  /\ /\ c.pc = "out" /\ outcome' = Outcome("none", 0) /\ c'.pos \in FrameEnds
            => LossyBytes!Next
         /\ /\ outcome' = Outcome("closed", 0) /\ c'.pos = c.pos /\ \E tail \in closes : c.pos >= tail
            => LossyBytes!Next
         /\ /\ \E n \in DOMAIN frames :
                 /\ c.pos \in {frames[n].start, frames[n].at} /\ c'.pos = frames[n].end
                 /\ outcome' = Outcome("item", Record(frames[n].record))
            => LossyBytes!Next
         /\ /\ Intent > c.pos + capacity /\ c'.pos >= c.pos /\ c'.pos \in {c.pos} \union Place
            /\ outcome' = Outcome("lagged", c'.pos - c.pos)
            => LossyBytes!Next
         /\ /\ c'.pos >= c.pos /\ c'.pos \in {c.pos} \union FrameEnds
            /\ outcome' = Outcome("skipped", c'.pos - c.pos)
            => LossyBytes!Next
<1>0. /\ FramesOk /\ ReaderOk /\ Intent = Newest(TailIntent) /\ Intent \in Nat /\ Committed \in Nat
      /\ UNCHANGED <<frames, closes, Newest(TailIntent)>> /\ MappedFrames' = MappedFrames
  BY InvFacts, LossySame
<1>1. ASSUME c.pc = "out", outcome' = Outcome("none", 0), c'.pos \in FrameEnds
      PROVE  LossyBytes!Next
  <2>1. outcome = Outcome("out", 0)
    BY <1>0, <1>1 DEF ReaderOk
  <2>2. LossyBytes!Join
    BY <1>0, <1>1, <2>1, LossyFrames
       DEF LossyBytes!Join, LossyBytes!Out, LossyBytes!Nothing, Outcome, MappedFrames
  <2> QED BY <2>2 DEF LossyBytes!Next
<1>2. ASSUME outcome' = Outcome("closed", 0), c'.pos = c.pos, \E tail \in closes : c.pos >= tail
      PROVE  LossyBytes!Next
  <2>1. LossyBytes!Finish
    BY <1>0, <1>2 DEF LossyBytes!Finish, LossyBytes!Closed, Outcome, MappedFrames
  <2> QED BY <2>1 DEF LossyBytes!Next
<1>3. ASSUME NEW n \in DOMAIN frames, c.pos \in {frames[n].start, frames[n].at}, c'.pos = frames[n].end,
             outcome' = Outcome("item", Record(frames[n].record))
      PROVE  LossyBytes!Next
  <2>1. /\ n \in DOMAIN MappedFrames /\ c.pos \in {MappedFrames[n].start, MappedFrames[n].at}
        /\ c'.pos = MappedFrames[n].end /\ outcome' = LossyBytes!Item(MappedFrames[n].record)
    BY <1>0, <1>3, LossyFrames DEF LossyBytes!Item, Outcome
  <2>2. \E i \in DOMAIN MappedFrames :
          /\ c.pos \in {MappedFrames[i].start, MappedFrames[i].at}
          /\ outcome' = LossyBytes!Item(MappedFrames[i].record) /\ c'.pos = MappedFrames[i].end
    BY <2>1
  <2>3. LossyBytes!Receive
    BY <1>0, <2>2, Zenon DEF LossyBytes!Receive, MappedFrames
  <2> QED BY <2>3 DEF LossyBytes!Next
<1>4. ASSUME Intent > c.pos + capacity, c'.pos >= c.pos, c'.pos \in {c.pos} \union Place,
             outcome' = Outcome("lagged", c'.pos - c.pos)
      PROVE  LossyBytes!Next
  <2>1. Place \subseteq LossyBytes!Ends \union LossyBytes!Starts \union (Committed .. Intent)
    BY <1>0, LossyFrames DEF Place
  <2>2. LossyBytes!Committed = Committed
    BY <1>0, LossyFrames
  <2>3. c'.pos \in {c.pos} \union LossyBytes!Starts \union LossyBytes!Ends \union (LossyBytes!Committed .. Newest(TailIntent))
    BY <1>0, <1>4, <2>1, <2>2
  <2>4. outcome' = LossyBytes!Lagged(c'.pos - c.pos)
    BY <1>4 DEF LossyBytes!Lagged, Outcome
  <2>5. Newest(TailIntent) > c.pos + capacity
    BY <1>0, <1>4
  <2>6. LossyBytes!Lag
    BY <1>0, <1>4, <2>3, <2>4, <2>5 DEF LossyBytes!Lag, MappedFrames
  <2> QED BY <2>6 DEF LossyBytes!Next
<1>5. ASSUME c'.pos >= c.pos, c'.pos \in {c.pos} \union FrameEnds, outcome' = Outcome("skipped", c'.pos - c.pos)
      PROVE  LossyBytes!Next
  <2>1. c'.pos \in {c.pos} \union LossyBytes!Ends
    BY <1>0, <1>5, LossyFrames
  <2>2. outcome' = LossyBytes!Skipped(c'.pos - c.pos)
    BY <1>5 DEF LossyBytes!Skipped, Outcome
  <2>3. LossyBytes!Skip
    BY <1>0, <1>5, <2>1, <2>2 DEF LossyBytes!Skip, MappedFrames
  <2> QED BY <2>3 DEF LossyBytes!Next
<1> QED BY <1>1, <1>2, <1>3, <1>4, <1>5

-----------------------------------------------------------------------------
(* The byte ring: the consumer's steps *)

\* subscribe.
LEMMA BytesSubscribeStep ==
  ASSUME BytesInv, BytesSubscribe
  PROVE  BytesInv' /\ [LossyBytes!Next]_(LossyBytes!vars)
<1>0. /\ LogOk /\ FramesOk /\ TailsOk /\ ReaderOk /\ view \in 0 .. Now /\ c \in Readers /\ pending \in 0 .. Now
      /\ c.copied = {}
  BY InvFacts DEF ReaderOk, BytesSubscribe
<1>1. PICK t \in Visible(TailCounter) : view' = With(view, t) /\ c' = Subscribed(Value(t))
  BY DEF BytesSubscribe, Load
<1>2. c.pc = "out" /\ outcome' = Outcome("none", 0) /\ UNCHANGED <<bytes_producer, pending>>
  BY DEF BytesSubscribe
<1>3. PICK k : k = With(view, t)
  OBVIOUS
<1>4. k \in 0 .. Now /\ view <= k /\ view' = k
  BY <1>0, <1>1, <1>3, VisibleStore, LoadView
<1>5. /\ Value(t) \in FrameEnds /\ Value(t) \in Nat
      /\ Value(t) = 0 \/ \E s \in 1 .. k : log[s].loc = TailCounter /\ log[s].val = Value(t)
  BY <1>0, <1>3, LoadsTail
<1>6. c' \in Readers /\ c'.copied = {} /\ c'.pc = "idle" /\ c'.pos = Value(t) /\ c'.tail_cache = Value(t)
  BY <1>0, <1>1, <1>5 DEF Subscribed, Readers
<1>7. BytesInv'
  <2>1. c'.pos \in Place
    BY <1>5, <1>6 DEF Place
  <2>2. outcome' # Outcome("out", 0)
    BY <1>2 DEF Outcome
  <2> QED BY <1>0, <1>2, <1>4, <1>5, <1>6, <2>1, <2>2, ReaderMoves DEF ReadingPcs
<1>8. LossyBytes!Next
  BY <1>2, <1>5, <1>6, ReturnsAs
<1> QED BY <1>7, <1>8

\* has_item's reload.
LEMMA BytesRefreshStep ==
  ASSUME BytesInv, BytesRefresh
  PROVE  BytesInv' /\ [LossyBytes!Next]_(LossyBytes!vars)
<1>0. /\ LogOk /\ FramesOk /\ TailsOk /\ ReaderOk /\ view \in 0 .. Now /\ c \in Readers /\ pending \in 0 .. Now
      /\ c.pos \in Place
      /\ c.copied = {}
  BY InvFacts DEF ReaderOk, BytesRefresh
<1>1. PICK t \in Visible(TailCounter) :
        /\ view' = With(view, t)
        /\ c' = [c EXCEPT !.tail_cache = Value(t), !.pc = IF Value(t) > c.pos THEN "idle" ELSE "empty"]
  BY DEF BytesRefresh, Load
<1>2. c.pc = "idle" /\ outcome' = Outcome("none", 0) /\ UNCHANGED <<bytes_producer, pending>>
  BY DEF BytesRefresh
<1>3. PICK k : k = With(view, t)
  OBVIOUS
<1>4. k \in 0 .. Now /\ view <= k /\ view' = k
  BY <1>0, <1>1, <1>3, VisibleStore, LoadView
<1>5. /\ Value(t) \in Nat
      /\ Value(t) = 0 \/ \E s \in 1 .. k : log[s].loc = TailCounter /\ log[s].val = Value(t)
  BY <1>0, <1>3, LoadsTail
<1>6. c' \in Readers /\ c'.copied = {} /\ c'.pc \in {"idle", "empty"} /\ c'.pos = c.pos /\ c'.tail_cache = Value(t)
  BY <1>0, <1>1, <1>5 DEF Readers
<1>7. BytesInv'
  <2>1. outcome' # Outcome("out", 0)
    BY <1>2 DEF Outcome
  <2> QED BY <1>0, <1>2, <1>4, <1>5, <1>6, <2>1, ReaderMoves DEF ReadingPcs
<1>8. LossyBytes!Next
  BY <1>2, <1>6, BeginsCall
<1> QED BY <1>7, <1>8

\* check_closed: the flag.
LEMMA BytesCheckClosedStep ==
  ASSUME BytesInv, BytesCheckClosed
  PROVE  BytesInv' /\ [LossyBytes!Next]_(LossyBytes!vars)
<1>0. /\ LogOk /\ FramesOk /\ ClosesOk /\ ReaderOk /\ view \in 0 .. Now /\ c \in Readers /\ pending \in 0 .. Now
      /\ c.pos \in Place /\ Now \in Nat
      /\ c.copied = {}
  BY InvFacts DEF ReaderOk, BytesCheckClosed
<1>1. PICK t \in Visible(CloseFlag) :
        /\ view' = With(view, t)
        /\ c' = [c EXCEPT !.pc = IF Value(t) # 0 THEN "recheck" ELSE "idle"]
  BY DEF BytesCheckClosed, Load
<1>2. c.pc = "empty" /\ UNCHANGED <<bytes_producer, pending, outcome>>
  BY DEF BytesCheckClosed
<1>3. PICK k : k = With(view, t)
  OBVIOUS
<1>4. k \in 0 .. Now /\ view <= k /\ view' = k /\ (t # 0 => log[t].rel <= k)
  BY <1>0, <1>1, <1>3, VisibleStore, LoadView
<1>5. c' \in Readers /\ c'.copied = {} /\ c'.pc \in {"recheck", "idle"} /\ c'.pos = c.pos /\ c'.tail_cache = c.tail_cache
      /\ (c'.pc = "recheck" => Value(t) # 0)
  BY <1>0, <1>1 DEF Readers
<1>6. c'.pc = "recheck" => KnowsClose(k)
  <2> SUFFICES ASSUME Value(t) # 0 PROVE KnowsClose(k)
    BY <1>5
  <2>1. t \in 1 .. Now /\ log[t].loc = CloseFlag /\ log[t].val # 0
    <3>1. t # 0
      BY DEF Value
    <3> QED BY <1>0, <3>1, VisibleStore
  <2>2. log[t].rel = t /\ KnowsClose(t)
    BY <1>0, <2>1 DEF ClosesOk
  <2>3. t <= k /\ \A s \in 1 .. t : s \in 1 .. k
    <3>1. t <= k
      BY <1>4, <2>1, <2>2
    <3> QED BY <1>0, <1>4, <2>1, <3>1
  <2> QED BY <2>2, <2>3 DEF KnowsClose
<1>7. BytesInv'
  <2>1. outcome' # Outcome("out", 0)
    BY <1>0, <1>2 DEF ReaderOk
  <2> QED BY <1>0, <1>2, <1>4, <1>5, <1>6, <2>1, ReaderMoves DEF ReadingPcs
<1>8. UNCHANGED LossyBytes!vars
  BY <1>2, <1>5, Unseen
<1> QED BY <1>7, <1>8

\* check_closed: the tail once more.
LEMMA BytesRecheckStep ==
  ASSUME BytesInv, BytesRecheck
  PROVE  BytesInv' /\ [LossyBytes!Next]_(LossyBytes!vars)
<1>0. /\ LogOk /\ FramesOk /\ TailsOk /\ ClosesOk /\ ReaderOk /\ view \in 0 .. Now /\ c \in Readers
      /\ pending \in 0 .. Now /\ c.pos \in Place /\ c.pos \in Nat /\ Now \in Nat
      /\ c.copied = {}
  BY InvFacts DEF ReaderOk, BytesRecheck
<1>1. PICK t \in Visible(TailCounter) :
        /\ view' = With(view, t)
        /\ c' = [c EXCEPT !.tail_cache = Value(t), !.pc = "idle"]
        /\ outcome' = IF Value(t) <= c.pos THEN Outcome("closed", 0) ELSE outcome
  BY DEF BytesRecheck, Load
<1>2. c.pc = "recheck" /\ UNCHANGED <<bytes_producer, pending>>
  BY DEF BytesRecheck
<1>3. PICK k : k = With(view, t)
  OBVIOUS
<1>4. k \in 0 .. Now /\ view <= k /\ view' = k
  BY <1>0, <1>1, <1>3, VisibleStore, LoadView
<1>5. /\ Value(t) \in Nat
      /\ Value(t) = 0 \/ \E s \in 1 .. k : log[s].loc = TailCounter /\ log[s].val = Value(t)
      /\ \A s \in 1 .. view : log[s].loc = TailCounter => log[s].val \in Nat /\ log[s].val <= Value(t)
  BY <1>0, <1>3, LoadsTail
<1>6. c' \in Readers /\ c'.copied = {} /\ c'.pc = "idle" /\ c'.pos = c.pos /\ c'.tail_cache = Value(t)
  BY <1>0, <1>1, <1>5 DEF Readers
<1>7. BytesInv'
  <2>1. outcome' # Outcome("out", 0)
    <3>1. outcome # Outcome("out", 0)
      BY <1>0, <1>2 DEF ReaderOk
    <3>2. Outcome("closed", 0) # Outcome("out", 0)
      BY DEF Outcome
    <3> QED BY <1>1, <3>1, <3>2
  <2> QED BY <1>0, <1>2, <1>4, <1>5, <1>6, <2>1, ReaderMoves DEF ReadingPcs
<1>8. CASE Value(t) <= c.pos
  <2>1. PICK tail \in closes : tail = 0 \/ \E s \in 1 .. view : log[s].loc = TailCounter /\ log[s].val >= tail
    BY <1>0, <1>2 DEF ReaderOk, KnowsClose
  <2>2. tail \in Nat
    BY <1>0 DEF ClosesOk
  <2>3. c.pos >= tail
    <3>1. CASE tail = 0
      BY <1>0, <3>1
    <3>2. CASE tail # 0
      <4>1. PICK s \in 1 .. view : log[s].loc = TailCounter /\ log[s].val >= tail
        BY <2>1, <3>2
      <4>2. log[s].val \in Nat /\ log[s].val <= Value(t)
        BY <1>5, <4>1
      <4> QED BY <1>0, <1>5, <1>8, <2>2, <4>1, <4>2
    <3> QED BY <3>1, <3>2
  <2>4. outcome' = Outcome("closed", 0)
    BY <1>1, <1>8
  <2>5. LossyBytes!Next
    BY <1>2, <1>6, <2>3, <2>4, ReturnsAs
  <2> QED BY <1>7, <2>5
<1>9. CASE ~(Value(t) <= c.pos)
  BY <1>1, <1>2, <1>6, <1>7, <1>9, Unseen
<1> QED BY <1>8, <1>9

\* reposition: the tail.
LEMMA RepositionTailStep ==
  ASSUME BytesInv, RepositionTail
  PROVE  BytesInv' /\ [LossyBytes!Next]_(LossyBytes!vars)
<1>0. /\ LogOk /\ FramesOk /\ TailsOk /\ ReaderOk /\ view \in 0 .. Now /\ c \in Readers /\ pending \in 0 .. Now
      /\ c.pos \in Place
      /\ c.copied = {}
  BY InvFacts DEF ReaderOk, RepositionTail
<1>1. PICK t \in Visible(TailCounter) :
        view' = With(view, t) /\ c' = [c EXCEPT !.tail_cache = Value(t), !.pc = "jump"]
  BY DEF RepositionTail, Load
<1>2. c.pc = "lapped" /\ UNCHANGED <<bytes_producer, pending, outcome>>
  BY DEF RepositionTail
<1>3. PICK k : k = With(view, t)
  OBVIOUS
<1>4. k \in 0 .. Now /\ view <= k /\ view' = k
  BY <1>0, <1>1, <1>3, VisibleStore, LoadView
<1>5. /\ Value(t) \in Nat
      /\ Value(t) = 0 \/ \E s \in 1 .. k : log[s].loc = TailCounter /\ log[s].val = Value(t)
  BY <1>0, <1>3, LoadsTail
<1>6. c' \in Readers /\ c'.copied = {} /\ c'.pc = "jump" /\ c'.pos = c.pos /\ c'.tail_cache = Value(t)
  BY <1>0, <1>1, <1>5 DEF Readers
<1>7. BytesInv'
  <2>1. outcome' # Outcome("out", 0) /\ Intent > c.pos + capacity
    BY <1>0, <1>2 DEF ReaderOk
  <2> QED BY <1>0, <1>2, <1>4, <1>5, <1>6, <2>1, ReaderMoves DEF ReadingPcs
<1>8. UNCHANGED LossyBytes!vars
  BY <1>2, <1>6, Unseen
<1> QED BY <1>7, <1>8

\* reposition: the jump.
LEMMA RepositionLatestStep ==
  ASSUME BytesInv, RepositionLatest
  PROVE  BytesInv' /\ [LossyBytes!Next]_(LossyBytes!vars)
<1>0. /\ LogOk /\ FramesOk /\ IntentOk /\ LatestOk /\ ReaderOk /\ view \in 0 .. Now /\ c \in Readers
      /\ c.pos \in Place /\ c.pos \in Nat /\ Now \in Nat
      /\ c.copied = {}
  BY InvFacts DEF ReaderOk, RepositionLatest
<1>1. PICK t \in Visible(Latest) :
        /\ view' = With(view, t)
        /\ c' = [c EXCEPT !.pc = "idle", !.pos = Max({Value(t), c.pos}), !.len = 0]
        /\ outcome' = Outcome("lagged", Max({Value(t), c.pos}) - c.pos)
  BY DEF RepositionLatest, Load
<1>2. c.pc = "jump" /\ pending' = 0 /\ UNCHANGED bytes_producer
  BY DEF RepositionLatest
<1>3. PICK k : k = With(view, t)
  OBVIOUS
<1>4. k \in 0 .. Now /\ view <= k /\ view' = k
  BY <1>0, <1>1, <1>3, VisibleStore, LoadView
<1>5. Value(t) \in Place /\ Value(t) \in Nat
  <2>1. CASE t = 0
    BY <1>0, <2>1, EndsType DEF Value, Place
  <2>2. CASE t # 0
    <3>1. t \in 1 .. Now /\ log[t].loc = Latest /\ Value(t) = log[t].val
      BY <1>0, <2>2, VisibleStore
    <3>2. Value(t) \in Place
      BY <1>0, <3>1 DEF LatestOk
    <3> QED BY <1>0, <3>2, PlaceType
  <2> QED BY <2>1, <2>2
<1>6. PICK e : e = Max({Value(t), c.pos})
  OBVIOUS
<1>7. e \in Place /\ e \in Nat /\ e >= c.pos
  <2>1. e = IF Value(t) >= c.pos THEN Value(t) ELSE c.pos
    BY <1>0, <1>5, <1>6, MaxOf
  <2> QED BY <1>0, <1>5, <2>1
<1>8. c' \in Readers /\ c'.copied = {} /\ c'.pc = "idle" /\ c'.pos = e /\ c'.tail_cache = c.tail_cache
  <2>1. c' = [c EXCEPT !.pc = "idle", !.pos = e, !.len = 0]
    BY <1>1, <1>6
  <2>2. PICK h : h = [c EXCEPT !.pc = "idle", !.pos = e]
    OBVIOUS
  <2>3. h \in Readers /\ h.copied = {} /\ h.pc = "idle" /\ h.pos = e /\ h.tail_cache = c.tail_cache
    BY <1>0, <1>7, <2>2 DEF Readers
  <2>4. c' = [h EXCEPT !.len = 0]
    BY <1>0, <2>1, <2>2 DEF Readers
  <2> QED BY <2>3, <2>4 DEF Readers
<1>9. outcome' = Outcome("lagged", e - c.pos)
  BY <1>1, <1>6
<1>10. BytesInv'
  <2>1. outcome' # Outcome("out", 0) /\ pending' \in 0 .. Now
    BY <1>0, <1>2, <1>9 DEF Outcome
  <2> QED BY <1>2, <1>4, <1>7, <1>8, <2>1, ReaderMoves DEF ReadingPcs
<1>11. LossyBytes!Next
  <2>1. Intent > c.pos + capacity
    BY <1>0, <1>2 DEF ReaderOk
  <2> QED BY <1>2, <1>7, <1>8, <1>9, <2>1, ReturnsAs
<1> QED BY <1>10, <1>11

\* skip_to_latest.
LEMMA BytesSkipToLatestStep ==
  ASSUME BytesInv, BytesSkipToLatest
  PROVE  BytesInv' /\ [LossyBytes!Next]_(LossyBytes!vars)
<1>0. /\ LogOk /\ FramesOk /\ TailsOk /\ ReaderOk /\ view \in 0 .. Now /\ c \in Readers /\ pending \in 0 .. Now
      /\ c.pos \in Place /\ c.pos \in Nat
      /\ c.copied = {}
  BY InvFacts DEF ReaderOk, BytesSkipToLatest
<1>1. PICK t \in Visible(TailCounter) :
        /\ view' = With(view, t)
        /\ c' = [c EXCEPT !.tail_cache = Value(t), !.pos = Max({Value(t), c.pos})]
        /\ outcome' = Outcome("skipped", Max({Value(t), c.pos}) - c.pos)
  BY DEF BytesSkipToLatest, Load
<1>2. /\ c.pc = "idle" /\ UNCHANGED <<bytes_producer, pending>>
  BY DEF BytesSkipToLatest
<1>3. PICK k : k = With(view, t)
  OBVIOUS
<1>4. k \in 0 .. Now /\ view <= k /\ view' = k
  BY <1>0, <1>1, <1>3, VisibleStore, LoadView
<1>5. /\ Value(t) \in Nat /\ Value(t) \in FrameEnds
      /\ Value(t) = 0 \/ \E s \in 1 .. k : log[s].loc = TailCounter /\ log[s].val = Value(t)
  BY <1>0, <1>3, LoadsTail
<1>6. PICK e : e = Max({Value(t), c.pos})
  OBVIOUS
<1>7. e \in Place /\ e \in {c.pos} \union FrameEnds /\ e \in Nat /\ e >= c.pos
  <2>1. e = IF Value(t) >= c.pos THEN Value(t) ELSE c.pos
    BY <1>0, <1>5, <1>6, MaxOf
  <2> QED BY <1>0, <1>5, <2>1 DEF Place
<1>8. c' \in Readers /\ c'.copied = {} /\ c'.pc = "idle" /\ c'.pos = e /\ c'.tail_cache = Value(t)
  <2>1. c' = [c EXCEPT !.tail_cache = Value(t), !.pos = e]
    BY <1>1, <1>6
  <2> QED BY <1>0, <1>2, <1>5, <1>7, <2>1 DEF Readers
<1>9. outcome' = Outcome("skipped", e - c.pos)
  BY <1>1, <1>6
<1>10. BytesInv'
  <2>1. outcome' # Outcome("out", 0)
    BY <1>9 DEF Outcome
  <2> QED BY <1>0, <1>2, <1>4, <1>5, <1>7, <1>8, <2>1, ReaderMoves DEF ReadingPcs
<1>11. LossyBytes!Next
  BY <1>2, <1>7, <1>8, <1>9, ReturnsAs
<1> QED BY <1>10, <1>11

-----------------------------------------------------------------------------
(* The byte ring: reading a record *)

\* Behind a cached tail that it is not yet past is a frame it may read.
LEMMA FrameFound ==
  ASSUME BytesInv, c.pc = "idle", available
  PROVE  \E n \in DOMAIN frames :
           /\ c.pos \in {frames[n].start, frames[n].at}
           /\ HoldsFrame(frames[n], view) /\ Announced(view, frames[n].end)
<1>0. /\ LogOk /\ FramesOk /\ TailsOk /\ ReaderOk /\ view \in 0 .. Now /\ Now \in Nat
      /\ c.pos \in Place /\ c.pos \in Nat /\ c.tail_cache > c.pos
  BY InvFacts DEF available
<1>1. PICK t \in 1 .. view : log[t].loc = TailCounter /\ log[t].val = c.tail_cache
  BY <1>0 DEF ReaderOk
<1>2. t \in 1 .. Now /\ t \in 0 .. Now /\ t <= view
  BY <1>0
<1>3. PICK m \in 0 .. Len(frames) : Publishes(t, m)
  BY <1>0, <1>1, <1>2 DEF TailsOk
<1>4. c.pos < FrameEnd(m) /\ FrameEnd(m) \in Nat
  <2>1. FrameEnd(m) = c.tail_cache /\ FrameEnd(m) \in Nat
    BY <1>0, <1>1, <1>3, EndType DEF Publishes
  <2> QED BY <1>0, <2>1
<1>5. PICK n \in 1 .. m : n \in DOMAIN frames /\ c.pos \in {frames[n].start, frames[n].at}
                          /\ frames[n].end <= FrameEnd(m)
  BY <1>0, <1>4, NextFrame
<1>6. HoldsFrame(frames[n], view)
  <2>1. HoldsFrame(frames[n], t)
    BY <1>3, <1>5 DEF Publishes
  <2> QED BY <1>0, <1>2, <2>1, HoldsMore
<1>7. Announced(view, frames[n].end)
  <2>1. Announced(t, FrameEnd(m)) /\ frames[n].end \in Nat
    BY <1>0, <1>3, <1>5, FrameTail DEF Publishes
  <2>2. PICK x, y : x = FrameEnd(m) /\ y = frames[n].end
    OBVIOUS
  <2>3. x \in Nat /\ y \in Nat /\ y <= x /\ Announced(t, x)
    BY <1>4, <1>5, <2>1, <2>2
  <2>4. Announced(view, y)
    BY <1>0, <1>2, <2>3, PassedMore
  <2> QED BY <2>2, <2>4
<1> QED BY <1>5, <1>6, <1>7

\* The frame it begins to read.
LEMMA StartsReading ==
  ASSUME BytesInv, UNCHANGED bytes_producer, NEW n \in DOMAIN frames,
         c.pos \in {frames[n].start, frames[n].at},
         HoldsFrame(frames[n], view), Announced(view, frames[n].end),
         NEW k \in 0 .. Now, view' = k, view <= k,
         c'.pos = c.pos, c'.cursor = c.pos, c'.pc = "window"
  PROVE  Reading(frames[n])'
<1>0. /\ LogOk /\ FramesOk /\ Now \in Nat /\ view \in 0 .. Now /\ UNCHANGED <<log, frames>>
  BY InvFacts DEF bytes_producer
<1>1. PICK f : f = frames[n]
  OBVIOUS
<1>2. frames'[n] = f /\ f.end \in Nat
  BY <1>0, <1>1, FrameTail
<1>3. HoldsFrame(f, k)
  BY <1>0, <1>1, HoldsMore
<1>4. Announced(k, f.end)
  BY <1>0, <1>1, <1>2, PassedMore
<1>5. HoldsFrame(f, k)' /\ Announced(k, f.end)'
  BY <1>0, <1>3, <1>4, LogSame
<1>6. HoldsFrame(f, view)' /\ Announced(view, f.end)'
  BY <1>5
<1>7. Reading(f)'
  BY <1>1, <1>6 DEF Reading
<1> QED BY <1>2, <1>7

\* read_record: the window before parsing.
LEMMA WindowCheckStep ==
  ASSUME BytesInv, WindowCheck
  PROVE  BytesInv' /\ [LossyBytes!Next]_(LossyBytes!vars)
<1>0. LogOk /\ FramesOk /\ ReaderOk /\ view \in 0 .. Now /\ c \in Readers /\ pending \in 0 .. Now /\ Now \in Nat
      /\ c.pos \in Place /\ c.pos \in Nat /\ c.cursor \in Nat
  BY InvFacts DEF ReaderOk, Readers
<1>1. PICK t \in Visible(TailIntent) :
        /\ view' = With(view, t)
        /\ c' = [c EXCEPT !.pc = IF Overrun(Value(t)) THEN "lapped" ELSE "window",
                          !.cursor = IF c.pc = "idle" THEN c.pos ELSE @]
  BY DEF WindowCheck, Load
<1>2. /\ (c.pc = "idle" /\ available) \/ c.pc = "skipped"
      /\ outcome' = Outcome("none", 0) /\ UNCHANGED <<bytes_producer, pending>>
  BY DEF WindowCheck
<1>3. PICK k : k = With(view, t)
  OBVIOUS
<1>4. k \in 0 .. Now /\ view <= k /\ view' = k
  BY <1>0, <1>1, <1>3, VisibleStore, LoadView
<1>5. c.copied = {} /\ c.pc # "out"
  BY <1>0, <1>2 DEF ReaderOk
<1>6. PICK go, to : /\ go = (IF Overrun(Value(t)) THEN "lapped" ELSE "window")
                    /\ to = IF c.pc = "idle" THEN c.pos ELSE c.cursor
  OBVIOUS
<1>7. go \in {"lapped", "window"} /\ to \in Nat /\ c' = [c EXCEPT !.pc = go, !.cursor = to]
  BY <1>0, <1>1, <1>6
<1>8. c' \in Readers /\ c'.copied = {} /\ c'.pc = go /\ c'.pos = c.pos /\ c'.cursor = to
      /\ c'.tail_cache = c.tail_cache
  <2>1. PICK h : h = [c EXCEPT !.pc = go]
    OBVIOUS
  <2>2. h \in Readers /\ h.copied = {} /\ h.pc = go /\ h.pos = c.pos /\ h.tail_cache = c.tail_cache
    BY <1>0, <1>5, <1>7, <2>1 DEF Readers, ReadingPcs
  <2>3. c' = [h EXCEPT !.cursor = to]
    BY <1>0, <1>7, <2>1 DEF Readers
  <2> QED BY <1>7, <2>2, <2>3 DEF Readers
<1>9. PICK n \in DOMAIN frames :
        /\ c.pos \in {frames[n].start, frames[n].at}
        /\ HoldsFrame(frames[n], view) /\ Announced(view, frames[n].end)
        /\ c.pc = "skipped" => Reading(frames[n])
  <2>1. CASE c.pc = "idle" /\ available
    BY <2>1, FrameFound
  <2>2. CASE c.pc = "skipped"
    <3>1. PICK n \in DOMAIN frames : Reading(frames[n])
      BY <1>0, <2>2 DEF ReaderOk, ReadingPcs
    <3> QED BY <3>1 DEF Reading
  <2> QED BY <1>2, <2>1, <2>2
<1>10. go = "lapped" => Intent > c.pos + capacity
  <2>1. PICK e : e = frames[n].end
    OBVIOUS
  <2>2. e \in Nat /\ c.pos < e /\ Announced(view, e)
    BY <1>0, <1>9, <2>1, FrameTail
  <2>3. Overrun(Value(t)) => Intent > c.pos + capacity
    BY <2>2, LoadsIntent
  <2> QED BY <1>6, <2>3
<1>11. go = "window" => Reading(frames[n])'
  <2>1. CASE c.pc = "idle"
    <3>1. go = "window" => c'.pc = "window" /\ c'.cursor = c.pos
      BY <1>6, <1>8, <2>1
    <3> QED BY <1>2, <1>4, <1>8, <1>9, <3>1, StartsReading
  <2>2. CASE c.pc = "skipped"
    <3>1. Reading(frames[n]) /\ to = c.cursor
      BY <1>6, <1>9, <2>2
    <3>2. Fenced <= Fenced'
      <4>1. pending' = pending /\ pending \in Nat /\ view \in Nat /\ k \in Nat
        BY <1>0, <1>2, <1>4
      <4> QED BY <1>4, <4>1 DEF Fenced
    <3>3. c'.cursor \in {frames[n].start, frames[n].at}
      BY <1>8, <3>1 DEF Reading
    <3>4. ~Passed(Fenced, c.pos) => c.cursor = frames[n].at
      BY <2>2, <3>1 DEF Reading
    <3> SUFFICES ASSUME go = "window" PROVE Reading(frames[n])'
      OBVIOUS
    <3>5. c'.pc = "window" /\ c'.cursor = c.cursor
      BY <1>8, <3>1
    <3>6. ~Passed(Fenced', c.pos) /\ ~Passed(Fenced, c.pos) =>
           /\ c'.pc = "window" => c'.cursor \in {c'.pos, frames[n].at}
           /\ c'.pc = "padding" => c'.cursor = frames[n].start /\ c'.cursor # frames[n].at
           /\ c'.pc \in {"skipped", "copy"} => c'.cursor = frames[n].at
           /\ c'.pc = "copy" =>
                /\ c'.len = frames[n].record[1]
                /\ \A x \in c'.copied : /\ x[1] \in PayloadLanes(frames[n].at, frames[n].record[1])
                                        /\ x[2] = frames[n].record[2]
      BY <3>4, <3>5
    <3>7. pending' \in 0 .. Now
      BY <1>0, <1>2
    <3> QED BY <1>2, <1>4, <1>8, <3>1, <3>2, <3>3, <3>6, <3>7, ReadsOn
  <2> QED BY <1>2, <2>1, <2>2
<1>12. BytesInv'
  <2>1. outcome' # Outcome("out", 0) /\ pending' \in 0 .. Now
    BY <1>0, <1>2 DEF Outcome
  <2> QED BY <1>0, <1>2, <1>4, <1>7, <1>8, <1>10, <1>11, <2>1, ReaderMoves DEF ReadingPcs
<1>13. LossyBytes!Next
  BY <1>2, <1>5, <1>8, BeginsCall
<1> QED BY <1>12, <1>13

\* read_record: the header.
LEMMA LoadHeaderStep ==
  ASSUME BytesInv, LoadHeader
  PROVE  BytesInv' /\ [LossyBytes!Next]_(LossyBytes!vars)
<1>0. /\ LogOk /\ FramesOk /\ IntentOk /\ ReaderOk /\ view \in 0 .. Now /\ c \in Readers /\ pending \in 0 .. Now
      /\ Now \in Nat /\ c.pos \in Place /\ c.pos \in Nat /\ c.cursor \in Nat
  BY InvFacts DEF ReaderOk, Readers
<1>1. PICK t \in Visible(Lane(c.cursor)) :
        /\ pending' = With(pending, t)
        /\ c' = IF Value(t) = PADDING THEN [c EXCEPT !.pc = "padding"]
                ELSE IF Value(t) > max_message_len \/ record_len(Value(t)) > ToEnd(c.cursor)
                THEN [c EXCEPT !.pc = "lapped"]
                ELSE [c EXCEPT !.pc = "copy", !.len = Value(t)]
  BY DEF LoadHeader
<1>2. c.pc = "window" /\ UNCHANGED <<bytes_producer, view, outcome>>
  BY DEF LoadHeader
<1>3. c.copied = {} /\ outcome # Outcome("out", 0)
  BY <1>0, <1>2 DEF ReaderOk
<1>4. PICK n \in DOMAIN frames : Reading(frames[n])
  BY <1>0, <1>2 DEF ReaderOk, ReadingPcs
<1>5. PICK f : f = frames[n]
  OBVIOUS
<1>6. /\ LaidOut(f) /\ f.at \in Nat /\ f.start \in Nat /\ f.start <= f.at /\ f.record[1] \in Nat
      /\ f.record[1] <= max_message_len /\ record_len(f.record[1]) <= ToEnd(f.at)
      /\ record_len(f.record[1]) \in Nat
  BY <1>0, <1>5, FrameTail, Framed
<1>7. PICK header, k : header = Value(t) /\ k = With(pending, t)
  OBVIOUS
<1>8. t \in 0 .. Now /\ header \in Int /\ k \in 0 .. Now /\ pending <= k /\ pending' = k
      /\ (t # 0 => log[t].rel <= k /\ log[t].rel \in 0 .. Now)
  BY <1>0, <1>1, <1>7, VisibleStore, LoadView
<1>9. PICK l : l = Fenced'
  OBVIOUS
<1>10. Fenced <= l /\ k <= l /\ l \in 0 .. Now
  <2>1. pending' = k /\ view' = view /\ pending \in Nat /\ view \in Nat /\ k \in Nat /\ view <= Now /\ k <= Now
    BY <1>0, <1>2, <1>8
  <2> QED BY <1>0, <1>8, <1>9, <2>1 DEF Fenced
<1>11. ASSUME ~Passed(l, c.pos)
       PROVE  /\ ~Passed(Fenced, c.pos) /\ c.cursor \in {c.pos, f.at}
              /\ IF c.cursor = f.at THEN header = f.record[1] ELSE c.cursor = f.start /\ header = PADDING
  <2>1. PICK x, y : x = Fenced /\ y = c.pos
    OBVIOUS
  <2>2. x \in 0 .. Now /\ y \in Nat /\ x <= l
    BY <1>0, <1>10, <2>1, FenceView
  <2>3. ~Passed(Fenced, c.pos)
    <3>1. Passed(x, y) => Passed(l, y)
      BY <1>0, <1>10, <2>2, PassedMore
    <3> QED BY <1>11, <2>1, <3>1
  <2>4. c.cursor \in {c.pos, f.at} /\ c.cursor \in {f.start, f.at} /\ c.pos \in {f.start, f.at}
    BY <1>2, <1>4, <1>5, <2>3 DEF Reading
  <2>5. y <= c.cursor
    BY <1>0, <1>6, <2>1, <2>4
  <2>6. ASSUME NEW v, Holds(c.cursor, v, view) PROVE header = v
    <3>1. t \in 1 .. Now /\ (header = v \/ Passed(log[t].rel, c.cursor))
      BY <1>0, <1>7, <2>6, LoadsHeld
    <3>2. PICK r, z : r = log[t].rel /\ z = c.cursor
      OBVIOUS
    <3>3. r \in 0 .. Now /\ r <= l /\ z \in Nat /\ y <= z
      <4>1. r <= k /\ r \in 0 .. Now
        BY <1>8, <3>1, <3>2
      <4> QED BY <1>0, <1>8, <1>10, <2>5, <3>2, <4>1
    <3>4. Passed(r, z) => Passed(l, y)
      BY <1>0, <1>10, <2>2, <3>3, PassedMore
    <3> QED BY <1>11, <2>1, <3>1, <3>2, <3>4
  <2>7. (f.at # f.start => Holds(f.start, PADDING, view)) /\ Holds(f.at, f.record[1], view)
    BY <1>4, <1>5 DEF Reading, HoldsFrame, HoldsHeaders
  <2> QED BY <2>3, <2>4, <2>6, <2>7
<1>12. PADDING # f.record[1] /\ PADDING \in Int
  BY <1>6 DEF PADDING
<1>13. /\ c' \in Readers /\ c'.pos = c.pos /\ c'.cursor = c.cursor /\ c'.copied = {} /\ c'.tail_cache = c.tail_cache
       /\ c'.pc \in {"padding", "lapped", "copy"}
       /\ c'.pc = "padding" => header = PADDING
       /\ c'.pc = "lapped" =>
            header # PADDING /\ (header > max_message_len \/ record_len(header) > ToEnd(c.cursor))
       /\ c'.pc = "copy" => header # PADDING /\ c'.len = header
  <2>1. CASE header = PADDING
    <3>1. c' = [c EXCEPT !.pc = "padding"]
      BY <1>1, <1>7, <2>1
    <3> QED BY <1>0, <1>3, <2>1, <3>1 DEF Readers, ReadingPcs
  <2>2. CASE header # PADDING /\ (header > max_message_len \/ record_len(header) > ToEnd(c.cursor))
    <3>1. c' = [c EXCEPT !.pc = "lapped"]
      BY <1>1, <1>7, <2>2
    <3> QED BY <1>0, <1>3, <2>2, <3>1 DEF Readers
  <2>3. CASE header # PADDING /\ ~(header > max_message_len \/ record_len(header) > ToEnd(c.cursor))
    <3>1. c' = [c EXCEPT !.pc = "copy", !.len = header]
      BY <1>1, <1>7, <2>3
    <3>2. PICK h : h = [c EXCEPT !.pc = "copy"]
      OBVIOUS
    <3>3. /\ h \in Readers /\ h.pos = c.pos /\ h.cursor = c.cursor /\ h.copied = {} /\ h.tail_cache = c.tail_cache
          /\ h.pc = "copy"
      BY <1>0, <1>3, <3>2 DEF Readers, ReadingPcs
    <3>4. c' = [h EXCEPT !.len = header]
      BY <1>0, <3>1, <3>2 DEF Readers
    <3> QED BY <1>8, <2>3, <3>3, <3>4 DEF Readers
  <2> QED BY <2>1, <2>2, <2>3
<1>14. ASSUME c'.pc = "lapped" PROVE Intent > c.pos + capacity
  <2>1. Passed(l, c.pos)
    <3> SUFFICES ASSUME ~Passed(l, c.pos) PROVE FALSE
      OBVIOUS
    <3>1. c.cursor = f.at /\ header = f.record[1]
      BY <1>11, <1>13, <1>14
    <3>2. header > max_message_len \/ record_len(header) > ToEnd(c.cursor)
      BY <1>13, <1>14
    <3>3. record_len(header) <= ToEnd(c.cursor) /\ header <= max_message_len
      BY <1>6, <3>1
    <3>4. ToEnd(c.cursor) \in Nat /\ max_message_len \in Nat /\ header \in Nat /\ record_len(header) \in Nat
      BY <1>0, <1>6, <3>1, PositionType, MessageType
    <3> QED BY <3>2, <3>3, <3>4
  <2>2. PICK y : y = c.pos
    OBVIOUS
  <2>3. Intent > y + capacity
    BY <1>0, <1>10, <2>1, <2>2, PassedIntent
  <2> QED BY <2>2, <2>3
<1>15. Reading(frames[n])'
  <2>1. ~Passed(Fenced', c.pos) /\ ~Passed(Fenced, c.pos) =>
           /\ c'.pc = "window" => c'.cursor \in {c'.pos, frames[n].at}
           /\ c'.pc = "padding" => c'.cursor = frames[n].start /\ c'.cursor # frames[n].at
           /\ c'.pc \in {"skipped", "copy"} => c'.cursor = frames[n].at
           /\ c'.pc = "copy" =>
                /\ c'.len = frames[n].record[1]
                /\ \A x \in c'.copied : /\ x[1] \in PayloadLanes(frames[n].at, frames[n].record[1])
                                        /\ x[2] = frames[n].record[2]
    BY <1>5, <1>9, <1>11, <1>12, <1>13
  <2>2. view' = view /\ pending' \in 0 .. Now /\ Fenced <= Fenced'
    BY <1>2, <1>8, <1>9, <1>10
  <2>3. c'.cursor \in {frames[n].start, frames[n].at}
    BY <1>4, <1>13 DEF Reading
  <2>4. PICK j : j = view
    OBVIOUS
  <2>5. j \in 0 .. Now /\ view' = j /\ view <= j
    BY <1>0, <2>2, <2>4
  <2> QED BY <1>2, <1>4, <1>13, <2>1, <2>2, <2>3, <2>5, ReadsOn
<1>16. BytesInv'
  <2>1. PICK j : j = view
    OBVIOUS
  <2>2. j \in 0 .. Now /\ view' = j /\ view <= j
    BY <1>0, <1>2, <2>1
  <2>3. outcome' # Outcome("out", 0) /\ pending' \in 0 .. Now
    BY <1>2, <1>3, <1>8
  <2> QED BY <1>0, <1>2, <1>13, <1>14, <1>15, <2>2, <2>3, ReaderMoves DEF ReadingPcs
<1>17. UNCHANGED LossyBytes!vars
  BY <1>2, <1>13, Unseen
<1> QED BY <1>16, <1>17

\* What a fence, and the intent after it, tell the consumer.
LEMMA Revalidates ==
  ASSUME BytesInv, NEW n \in DOMAIN frames, Reading(frames[n]), view' = Fenced, pending' = 0,
         NEW t \in Visible(TailIntent), \A u \in t + 1 .. Fenced : log[u].loc # TailIntent
  PROVE  /\ Overrun(Value(t)) => Intent > c.pos + capacity
         /\ ~Overrun(Value(t)) => ~Passed(Fenced, c.pos)
         /\ Fenced' = Fenced /\ Fenced \in 0 .. Now /\ view <= Fenced /\ pending' \in 0 .. Now
<1>0. /\ LogOk /\ FramesOk /\ ReaderOk /\ Now \in Nat /\ c.pos \in Nat /\ view \in 0 .. Now /\ pending \in 0 .. Now
  BY InvFacts DEF ReaderOk
<1>1. PICK e : e = frames[n].end
  OBVIOUS
<1>2. e \in Nat /\ c.pos < e /\ Announced(view, e)
  <2>1. c.pos \in {frames[n].start, frames[n].at} /\ Announced(view, frames[n].end)
    BY DEF Reading
  <2> QED BY <1>0, <1>1, <2>1, FrameTail
<1>3. Fenced \in 0 .. Now /\ view <= Fenced
  BY <1>0, FenceView
<1>4. Fenced' = Fenced /\ pending' \in 0 .. Now
  <2>1. PICK k : k = Fenced
    OBVIOUS
  <2>2. view' = k /\ pending' = 0 /\ k \in Nat
    BY <1>0, <1>3, <2>1
  <2>3. Fenced' = k
    BY <2>2 DEF Fenced
  <2> QED BY <1>0, <2>1, <2>3
<1>5. /\ Overrun(Value(t)) => Intent > c.pos + capacity
      /\ Passed(Fenced, c.pos) => Overrun(Value(t))
  BY <1>2, LoadsIntent
<1> QED BY <1>3, <1>4, <1>5

\* Told that it was passed, it gives the frame up.
LEMMA LapsStep ==
  ASSUME BytesInv, UNCHANGED <<bytes_producer, outcome>>, view' = Fenced, pending' = 0, c.pc # "out",
         Intent > c.pos + capacity, c' = [c EXCEPT !.pc = "lapped", !.copied = {}]
  PROVE  BytesInv' /\ [LossyBytes!Next]_(LossyBytes!vars)
<1>0. /\ LogOk /\ ReaderOk /\ Now \in Nat /\ view \in 0 .. Now /\ c \in Readers /\ pending \in 0 .. Now
      /\ c.pos \in Place
  BY InvFacts DEF ReaderOk
<1>1. c' \in Readers /\ c'.pc = "lapped" /\ c'.copied = {} /\ c'.pos = c.pos /\ c'.tail_cache = c.tail_cache
  <2>1. PICK h : h = [c EXCEPT !.pc = "lapped"]
    OBVIOUS
  <2>2. h \in Readers /\ h.pc = "lapped" /\ h.pos = c.pos /\ h.tail_cache = c.tail_cache
    BY <1>0, <2>1 DEF Readers
  <2>3. c' = [h EXCEPT !.copied = {}]
    BY <1>0, <2>1 DEF Readers
  <2> QED BY <2>2, <2>3 DEF Readers
<1>2. PICK k : k = Fenced
  OBVIOUS
<1>3. k \in 0 .. Now /\ view' = k /\ view <= k /\ pending' \in 0 .. Now
  BY <1>0, <1>2, FenceView
<1>4. outcome' # Outcome("out", 0)
  BY <1>0 DEF ReaderOk
<1>5. BytesInv'
  BY <1>0, <1>1, <1>3, <1>4, ReaderMoves DEF ReadingPcs
<1>6. UNCHANGED LossyBytes!vars
  BY <1>1, Unseen
<1> QED BY <1>5, <1>6

\* read_record: over the padding.
LEMMA SkipPaddingStep ==
  ASSUME BytesInv, SkipPadding
  PROVE  BytesInv' /\ [LossyBytes!Next]_(LossyBytes!vars)
<1>0. /\ LogOk /\ FramesOk /\ ReaderOk /\ Now \in Nat /\ view \in 0 .. Now /\ c \in Readers /\ pending \in 0 .. Now
      /\ c.pos \in Place /\ c.pos \in Nat /\ c.cursor \in Nat
  BY InvFacts DEF ReaderOk, Readers
<1>1. c.pc = "padding" /\ pending' = 0 /\ UNCHANGED bytes_producer /\ view' = Fenced
  BY DEF SkipPadding, Revalidation
<1>2. PICK t \in Visible(TailIntent) :
        /\ \A u \in t + 1 .. Fenced : log[u].loc # TailIntent
        /\ IF Overrun(Value(t))
           THEN c' = [c EXCEPT !.pc = "lapped", !.copied = {}] /\ UNCHANGED outcome
           ELSE c' = [c EXCEPT !.pc = "skipped", !.cursor = @ + ToEnd(@)] /\ UNCHANGED outcome
  BY DEF SkipPadding, Revalidation
<1>3. PICK n \in DOMAIN frames : Reading(frames[n])
  BY <1>0, <1>1 DEF ReaderOk, ReadingPcs
<1>4. /\ Overrun(Value(t)) => Intent > c.pos + capacity
      /\ ~Overrun(Value(t)) => ~Passed(Fenced, c.pos)
      /\ Fenced' = Fenced /\ Fenced \in 0 .. Now /\ view <= Fenced /\ pending' \in 0 .. Now
  BY <1>1, <1>2, <1>3, Revalidates
<1>5. CASE Overrun(Value(t))
  BY <1>1, <1>2, <1>4, <1>5, LapsStep
<1>6. CASE ~Overrun(Value(t))
  <2>1. PICK f : f = frames[n]
    OBVIOUS
  <2>2. c.cursor = f.start /\ f.start # f.at /\ ~Passed(Fenced, c.pos)
    BY <1>1, <1>3, <1>4, <1>6, <2>1 DEF Reading
  <2>3. PICK to : to = c.cursor + ToEnd(c.cursor)
    OBVIOUS
  <2>4. to = f.at /\ to \in Nat
    BY <1>0, <2>1, <2>2, <2>3, FrameTail DEF LaidOut
  <2>5. c.copied = {} /\ outcome # Outcome("out", 0) /\ outcome' = outcome
    BY <1>0, <1>1, <1>2, <1>6 DEF ReaderOk
  <2>6. /\ c' \in Readers /\ c'.pc = "skipped" /\ c'.pos = c.pos /\ c'.cursor = to /\ c'.copied = {}
        /\ c'.tail_cache = c.tail_cache
    <3>1. c' = [c EXCEPT !.pc = "skipped", !.cursor = to]
      BY <1>2, <1>6, <2>3
    <3>2. PICK h : h = [c EXCEPT !.pc = "skipped"]
      OBVIOUS
    <3>3. h \in Readers /\ h.pc = "skipped" /\ h.pos = c.pos /\ h.tail_cache = c.tail_cache /\ h.copied = {}
      BY <1>0, <2>5, <3>2 DEF Readers, ReadingPcs
    <3>4. c' = [h EXCEPT !.cursor = to]
      BY <1>0, <3>1, <3>2 DEF Readers
    <3> QED BY <2>4, <3>3, <3>4 DEF Readers
  <2>7. PICK k : k = Fenced
    OBVIOUS
  <2>8. k \in 0 .. Now /\ view' = k /\ view <= k /\ Fenced <= Fenced' /\ pending' \in 0 .. Now
    <3>1. k \in Nat /\ k <= k
      BY <1>0, <1>4, <2>7
    <3> QED BY <1>1, <1>4, <2>7, <3>1
  <2>9. Reading(frames[n])'
    <3>1. c'.cursor \in {frames[n].start, frames[n].at}
      BY <2>1, <2>4, <2>6
    <3>2. ~Passed(Fenced', c.pos) /\ ~Passed(Fenced, c.pos) =>
           /\ c'.pc = "window" => c'.cursor \in {c'.pos, frames[n].at}
           /\ c'.pc = "padding" => c'.cursor = frames[n].start /\ c'.cursor # frames[n].at
           /\ c'.pc \in {"skipped", "copy"} => c'.cursor = frames[n].at
           /\ c'.pc = "copy" =>
                /\ c'.len = frames[n].record[1]
                /\ \A x \in c'.copied : /\ x[1] \in PayloadLanes(frames[n].at, frames[n].record[1])
                                        /\ x[2] = frames[n].record[2]
      BY <2>1, <2>4, <2>6
    <3> QED BY <1>1, <1>3, <2>6, <2>8, <3>1, <3>2, ReadsOn
  <2>10. BytesInv'
    BY <1>0, <1>1, <2>5, <2>6, <2>8, <2>9, ReaderMoves DEF ReadingPcs
  <2>11. UNCHANGED LossyBytes!vars
    BY <1>1, <2>5, <2>6, Unseen
  <2> QED BY <2>10, <2>11
<1> QED BY <1>5, <1>6

\* read_record: one lane of the payload.
LEMMA CopyLaneStep ==
  ASSUME BytesInv, CopyLane
  PROVE  BytesInv' /\ [LossyBytes!Next]_(LossyBytes!vars)
<1>0. /\ LogOk /\ FramesOk /\ ReaderOk /\ view \in 0 .. Now /\ c \in Readers /\ pending \in 0 .. Now
      /\ Now \in Nat /\ c.pos \in Place /\ c.pos \in Nat /\ c.cursor \in Nat /\ c.len \in Int
      /\ c.copied \subseteq Int \X Int
  BY InvFacts DEF ReaderOk, Readers
<1>1. c.pc = "copy" /\ UNCHANGED <<bytes_producer, view, outcome>>
  BY DEF CopyLane
<1>2. PICK x \in PayloadLanes(c.cursor, c.len) : \E t \in Visible(Lane(x)) :
        /\ c' = [c EXCEPT !.copied = @ \union {<<x, Value(t)>>}]
        /\ pending' = With(pending, t)
  BY DEF CopyLane
<1>3. PICK t \in Visible(Lane(x)) :
        /\ c' = [c EXCEPT !.copied = @ \union {<<x, Value(t)>>}]
        /\ pending' = With(pending, t)
  BY <1>2
<1>4. outcome # Outcome("out", 0)
  BY <1>0, <1>1 DEF ReaderOk
<1>5. PICK n \in DOMAIN frames : Reading(frames[n])
  BY <1>0, <1>1 DEF ReaderOk, ReadingPcs
<1>6. PICK f : f = frames[n]
  OBVIOUS
<1>7. /\ LaidOut(f) /\ f.at \in Nat /\ f.start \in Nat /\ f.start <= f.at /\ f.record[1] \in Nat
  BY <1>0, <1>6, FrameTail, Framed
<1>8. PICK v, k : v = Value(t) /\ k = With(pending, t)
  OBVIOUS
<1>9. t \in 0 .. Now /\ v \in Int /\ k \in 0 .. Now /\ pending <= k /\ pending' = k
      /\ (t # 0 => log[t].rel <= k /\ log[t].rel \in 0 .. Now)
  BY <1>0, <1>3, <1>8, VisibleStore, LoadView
<1>10. PICK l : l = Fenced'
  OBVIOUS
<1>11. Fenced <= l /\ k <= l /\ l \in 0 .. Now
  <2>1. pending' = k /\ view' = view /\ pending \in Nat /\ view \in Nat /\ k \in Nat /\ view <= Now /\ k <= Now
    BY <1>0, <1>1, <1>9
  <2> QED BY <1>0, <1>9, <1>10, <2>1 DEF Fenced
<1>12. x \in Int
  <2>1. PICK i \in 0 .. lanes_of(c.len) - 1 : x = c.cursor + HEADER + LANE * i
    BY <1>2 DEF PayloadLanes
  <2>2. i \in Int
    OBVIOUS
  <2> QED BY <1>0, <2>1, <2>2 DEF HEADER, LANE
<1>13. /\ c' \in Readers /\ c'.pc = "copy" /\ c'.pos = c.pos /\ c'.cursor = c.cursor /\ c'.len = c.len
       /\ c'.tail_cache = c.tail_cache /\ c'.copied = c.copied \union {<<x, v>>}
  <2>1. PICK s : s = c.copied \union {<<x, v>>}
    OBVIOUS
  <2>2. s \subseteq Int \X Int
    BY <1>0, <1>9, <1>12, <2>1
  <2>3. c' = [c EXCEPT !.copied = s]
    BY <1>0, <1>3, <1>8, <2>1 DEF Readers
  <2> QED BY <1>0, <1>1, <2>1, <2>2, <2>3 DEF Readers
<1>14. ASSUME ~Passed(l, c.pos)
       PROVE  c.cursor = f.at /\ c.len = f.record[1] /\ v = f.record[2]
              /\ \A w \in c.copied : w[1] \in PayloadLanes(f.at, f.record[1]) /\ w[2] = f.record[2]
  <2>1. PICK y, z : y = Fenced /\ z = c.pos
    OBVIOUS
  <2>2. y \in 0 .. Now /\ z \in Nat /\ y <= l
    BY <1>0, <1>11, <2>1, FenceView
  <2>3. ~Passed(Fenced, c.pos)
    <3>1. Passed(y, z) => Passed(l, z)
      BY <1>0, <1>11, <2>2, PassedMore
    <3> QED BY <1>14, <2>1, <3>1
  <2>4. /\ c.cursor = f.at /\ c.len = f.record[1] /\ c.pos \in {f.start, f.at}
        /\ \A w \in c.copied : w[1] \in PayloadLanes(f.at, f.record[1]) /\ w[2] = f.record[2]
    BY <1>1, <1>5, <1>6, <2>3 DEF Reading
  <2>5. x \in PayloadLanes(f.at, f.record[1])
    BY <1>2, <2>4
  <2>6. x \in Nat /\ z <= x
    <3>1. x \in Nat /\ f.at < x
      BY <1>7, <2>5, LaneCursor
    <3> QED BY <1>7, <2>1, <2>4, <3>1
  <2>7. Holds(x, f.record[2], view)
    BY <1>5, <1>6, <2>5 DEF Reading, HoldsFrame, HoldsPayload
  <2>8. t \in 1 .. Now /\ (v = f.record[2] \/ Passed(log[t].rel, x))
    BY <1>0, <1>8, <2>7, LoadsHeld
  <2>9. PICK r : r = log[t].rel
    OBVIOUS
  <2>10. r \in 0 .. Now /\ r <= l
    <3>1. r <= k /\ r \in 0 .. Now
      BY <1>9, <2>8, <2>9
    <3> QED BY <1>0, <1>9, <1>11, <3>1
  <2>11. Passed(r, x) => Passed(l, z)
    BY <1>0, <1>11, <2>2, <2>6, <2>10, PassedMore
  <2> QED BY <1>14, <2>1, <2>4, <2>8, <2>9, <2>11
<1>15. Reading(frames[n])'
  <2>1. ~Passed(Fenced', c.pos) /\ ~Passed(Fenced, c.pos) =>
           /\ c'.pc = "window" => c'.cursor \in {c'.pos, frames[n].at}
           /\ c'.pc = "padding" => c'.cursor = frames[n].start /\ c'.cursor # frames[n].at
           /\ c'.pc \in {"skipped", "copy"} => c'.cursor = frames[n].at
           /\ c'.pc = "copy" =>
                /\ c'.len = frames[n].record[1]
                /\ \A w \in c'.copied : /\ w[1] \in PayloadLanes(frames[n].at, frames[n].record[1])
                                        /\ w[2] = frames[n].record[2]
    BY <1>2, <1>6, <1>10, <1>13, <1>14
  <2>2. view' = view /\ pending' \in 0 .. Now /\ Fenced <= Fenced'
    BY <1>1, <1>9, <1>10, <1>11
  <2>3. c'.cursor \in {frames[n].start, frames[n].at}
    BY <1>5, <1>13 DEF Reading
  <2>4. PICK j : j = view
    OBVIOUS
  <2>5. j \in 0 .. Now /\ view' = j /\ view <= j
    BY <1>0, <2>2, <2>4
  <2> QED BY <1>1, <1>5, <1>13, <2>1, <2>2, <2>3, <2>5, ReadsOn
<1>16. BytesInv'
  <2>1. PICK j : j = view
    OBVIOUS
  <2>2. j \in 0 .. Now /\ view' = j /\ view <= j
    BY <1>0, <1>1, <2>1
  <2>3. outcome' # Outcome("out", 0) /\ pending' \in 0 .. Now
    BY <1>1, <1>4, <1>9
  <2> QED BY <1>0, <1>1, <1>13, <1>15, <2>2, <2>3, ReaderMoves DEF ReadingPcs
<1>17. UNCHANGED LossyBytes!vars
  BY <1>1, <1>13, Unseen
<1> QED BY <1>16, <1>17

\* read_record: the window once more, and the record is accepted.
LEMMA AcceptStep ==
  ASSUME BytesInv, Accept
  PROVE  BytesInv' /\ [LossyBytes!Next]_(LossyBytes!vars)
<1>0. /\ LogOk /\ FramesOk /\ ReaderOk /\ Now \in Nat /\ view \in 0 .. Now /\ c \in Readers /\ pending \in 0 .. Now
      /\ c.pos \in Place /\ c.pos \in Nat /\ c.cursor \in Nat
  BY InvFacts DEF ReaderOk, Readers
<1>1. c.pc = "copy" /\ PayloadLanes(c.cursor, c.len) = {x[1] : x \in c.copied}
      /\ pending' = 0 /\ UNCHANGED bytes_producer /\ view' = Fenced
  BY DEF Accept, Revalidation
<1>2. PICK t \in Visible(TailIntent) :
        /\ \A u \in t + 1 .. Fenced : log[u].loc # TailIntent
        /\ IF Overrun(Value(t))
           THEN c' = [c EXCEPT !.pc = "lapped", !.copied = {}] /\ UNCHANGED outcome
           ELSE /\ c' = [c EXCEPT !.pc = "idle", !.pos = c.cursor + record_len(c.len), !.len = 0, !.copied = {}]
                /\ outcome' = Outcome("item", <<c.len, {x[2] : x \in c.copied}>>)
  BY DEF Accept, Revalidation
<1>3. PICK n \in DOMAIN frames : Reading(frames[n])
  BY <1>0, <1>1 DEF ReaderOk, ReadingPcs
<1>4. /\ Overrun(Value(t)) => Intent > c.pos + capacity
      /\ ~Overrun(Value(t)) => ~Passed(Fenced, c.pos)
      /\ Fenced' = Fenced /\ Fenced \in 0 .. Now /\ view <= Fenced /\ pending' \in 0 .. Now
  BY <1>1, <1>2, <1>3, Revalidates
<1>5. CASE Overrun(Value(t))
  <2>1. UNCHANGED outcome /\ c' = [c EXCEPT !.pc = "lapped", !.copied = {}]
    BY <1>2, <1>5
  <2> QED BY <1>1, <1>4, <1>5, <2>1, LapsStep
<1>6. CASE ~Overrun(Value(t))
  <2>1. PICK f : f = frames[n]
    OBVIOUS
  <2>2. /\ c.cursor = f.at /\ c.len = f.record[1] /\ c.pos \in {f.start, f.at}
        /\ \A x \in c.copied : x[1] \in PayloadLanes(f.at, f.record[1]) /\ x[2] = f.record[2]
    BY <1>1, <1>3, <1>4, <1>6, <2>1 DEF Reading
  <2>3. LaidOut(f) /\ f.end = f.at + record_len(f.record[1]) /\ f.record[1] \in Nat /\ f.at \in Nat /\ f.end \in Nat
        /\ f.end \in FrameEnds
    BY <1>0, <2>1, FrameTail, Framed
  <2>4. c' = [c EXCEPT !.pc = "idle", !.pos = f.end, !.len = 0, !.copied = {}]
    <3>1. f.end = c.cursor + record_len(c.len)
      BY <2>2, <2>3
    <3> QED BY <1>2, <1>6, <3>1
  <2>5. /\ c' \in Readers /\ c'.pc = "idle" /\ c'.pos = f.end /\ c'.copied = {}
        /\ c'.tail_cache = c.tail_cache
    <3>1. PICK h : h = [c EXCEPT !.pc = "idle", !.pos = f.end]
      OBVIOUS
    <3>2. h \in Readers /\ h.pc = "idle" /\ h.pos = f.end /\ h.tail_cache = c.tail_cache
      BY <1>0, <2>3, <3>1 DEF Readers
    <3>3. PICK g : g = [h EXCEPT !.len = 0]
      OBVIOUS
    <3>4. g \in Readers /\ g.pc = "idle" /\ g.pos = f.end /\ g.tail_cache = c.tail_cache
      BY <3>2, <3>3 DEF Readers
    <3>5. c' = [g EXCEPT !.copied = {}]
      BY <1>0, <2>4, <3>1, <3>3 DEF Readers
    <3> QED BY <3>4, <3>5 DEF Readers
  <2>6. {x[2] : x \in c.copied} = IF f.record[1] = 0 THEN {} ELSE {f.record[2]}
    <3>1. PayloadLanes(f.at, f.record[1]) = {x[1] : x \in c.copied}
      BY <1>1, <2>2
    <3>2. lanes_of(f.record[1]) \in Nat /\ (lanes_of(f.record[1]) = 0 <=> f.record[1] = 0)
      BY <2>3, RecordLen
    <3>3. CASE f.record[1] = 0
      <4>1. PayloadLanes(f.at, f.record[1]) = {}
        BY <3>2, <3>3 DEF PayloadLanes
      <4>2. c.copied = {}
        BY <2>2, <4>1
      <4> QED BY <3>3, <4>2
    <3>4. CASE f.record[1] # 0
      <4>1. 1 \in 1 .. lanes_of(f.record[1])
        BY <3>2, <3>4
      <4>2. f.at + HEADER + LANE * (1 - 1) \in PayloadLanes(f.at, f.record[1])
        BY <2>3, <4>1, CursorLane
      <4>3. PICK x \in c.copied : TRUE
        BY <3>1, <4>2
      <4> QED BY <2>2, <3>4, <4>3
    <3> QED BY <3>3, <3>4
  <2>7. outcome' = Outcome("item", Record(f.record))
    BY <1>2, <1>6, <2>2, <2>6 DEF Record
  <2>8. PICK k : k = Fenced
    OBVIOUS
  <2>9. k \in 0 .. Now /\ view' = k /\ view <= k /\ pending' \in 0 .. Now
    BY <1>1, <1>4, <2>8
  <2>10. BytesInv'
    <3>1. outcome' # Outcome("out", 0)
      BY <2>7 DEF Outcome
    <3>2. c'.pos \in Place
      BY <2>3, <2>5 DEF Place
    <3> QED BY <1>0, <1>1, <2>5, <2>9, <3>1, <3>2, ReaderMoves DEF ReadingPcs
  <2>11. LossyBytes!Next
    BY <1>1, <2>1, <2>2, <2>5, <2>7, ReturnsAs
  <2> QED BY <2>10, <2>11
<1> QED BY <1>5, <1>6

-----------------------------------------------------------------------------
(* The byte ring: the theorems *)

\* The initial states.
LEMMA BytesInitially == BytesInit => BytesInv /\ LossyBytes!Init
<1> SUFFICES ASSUME BytesInit PROVE BytesInv /\ LossyBytes!Init
  OBVIOUS
<1>1. /\ log = << >> /\ fenced = 0 /\ view = 0 /\ pending = 0 /\ frames = << >> /\ closes = {}
      /\ pushes = 0 /\ outcome = Outcome("out", 0)
      /\ p = [pc |-> "idle", next |-> 0, intent_floor |-> 0, len |-> 0]
      /\ c = [pc |-> "out", pos |-> 0, tail_cache |-> 0, cursor |-> 0, len |-> 0, copied |-> {}]
  BY DEF BytesInit
<1>2. Now = 0 /\ Now \in Nat /\ Len(frames) = 0 /\ DOMAIN frames = {} /\ (\A t \in 1 .. Now : FALSE)
      /\ 0 .. 0 = {0} /\ 0 .. Now = {0}
  BY <1>1 DEF Now
<1>3. Committed = 0 /\ FrameEnd(0) = 0 /\ FrameEnds = {0}
  BY <1>2 DEF Committed, FrameEnd, FrameEnds
<1>4. ASSUME NEW loc PROVE Newest(loc) = 0
  <2>1. \E t \in 0 .. Now : Newest(loc) = Value(t)
    BY <1>2, NewestStore
  <2> QED BY <1>2, <2>1 DEF Value
<1>5. Intent = 0 /\ Newest(TailIntent) = 0 /\ Newest(TailCounter) = 0
  BY <1>4 DEF Intent
<1>6. LogOk
  BY <1>1, <1>2 DEF LogOk
<1>7. FramesOk
  <2>1. \A m, n \in 0 .. Len(frames) : ~(m < n)
    BY <1>2
  <2>2. frames \in Seq(ByteFrames)
    BY <1>1
  <2> QED BY <1>2, <2>1, <2>2 DEF FramesOk
<1>8. IntentOk /\ LatestOk
  BY <1>2, <1>3, <1>5 DEF IntentOk, LatestOk
<1>9. TailsOk
  BY <1>2, <1>3, <1>5 DEF TailsOk
<1>10. ClosesOk
  BY <1>1, <1>2 DEF ClosesOk
<1>11. PusherOk
  <2>1. p \in Pushers
    BY <1>1 DEF Pushers
  <2> QED BY <1>1, <1>2, <1>3, <1>5, <2>1, MessageType DEF PusherOk, Writing
<1>12. ReaderOk
  <2>1. c \in Readers
    BY <1>1 DEF Readers
  <2> QED BY <1>1, <1>2, <1>3, <2>1 DEF ReaderOk, ReadingPcs, Place
<1>13. BytesInv
  BY <1>2, <1>6, <1>7, <1>8, <1>9, <1>10, <1>11, <1>12 DEF BytesInv
<1>14. LossyBytes!Init
  <2>1. MappedFrames = << >>
    BY <1>2 DEF MappedFrames
  <2> QED BY <1>1, <1>5, <2>1 DEF LossyBytes!Init, LossyBytes!Out, LossyBytes!Nothing, Outcome, MappedFrames
<1> QED BY <1>13, <1>14

\* Every step keeps the invariant, and is one of the abstract log or is not seen.
LEMMA BytesStep ==
  ASSUME BytesInv, [BytesNext]_bytes_vars
  PROVE  BytesInv' /\ [LossyBytes!Next]_(LossyBytes!vars)
<1>1. CASE BytesProducerNext
  BY <1>1, ProducerRefines
<1>2. CASE BytesSubscribe
  BY <1>2, BytesSubscribeStep
<1>3. CASE BytesPop
  <2>1. CASE read_record
    BY <2>1, WindowCheckStep, LoadHeaderStep, SkipPaddingStep, CopyLaneStep, AcceptStep DEF read_record
  <2>2. CASE reposition
    BY <2>2, RepositionTailStep, RepositionLatestStep DEF reposition
  <2> QED BY <1>3, <2>1, <2>2, BytesRefreshStep, BytesCheckClosedStep, BytesRecheckStep DEF BytesPop
<1>4. CASE BytesSkipToLatest
  BY <1>4, BytesSkipToLatestStep
<1>5. CASE UNCHANGED bytes_vars
  <2>1. UNCHANGED <<bytes_producer, bytes_consumer>>
    BY <1>5 DEF bytes_vars
  <2>2. UNCHANGED <<log, fenced, p, frames, closes, pushes, sessions, c, view, pending, outcome>>
    BY <2>1 DEF bytes_producer, bytes_consumer
  <2>3. BytesInv'
    <3>1. LogOk /\ FramesOk /\ IntentOk /\ ReaderOk /\ Intent \in Nat
      BY InvFacts
    <3>2. LogOk' /\ Grows /\ Now' = Now /\ \A u \in Now + 1 .. Now' : FALSE
      BY <2>2, <3>1, NothingStored
    <3>3. Intent' = Intent
      BY <2>2, LogSame
    <3>4. Place \subseteq Place'
      <4>1. Intent' \in Nat /\ Intent <= Intent'
        BY <3>1, <3>3
      <4> QED BY <2>2, <3>1, <4>1, PlaceKept
    <3>5. KeepsFrames
      BY <2>2 DEF KeepsFrames
    <3>6. SparesFrames
      BY <3>2 DEF SparesFrames, Spares
    <3>7. ReaderOk'
      <4>1. Intent' \in Nat /\ Intent <= Intent' /\ closes \subseteq closes'
        BY <2>2, <3>1, <3>3
      <4> QED BY <2>1, <3>1, <3>2, <3>4, <3>5, <3>6, <4>1, ReaderKept
    <3> QED BY <2>1, <3>7, ConsumerKeeps
  <2>4. UNCHANGED LossyBytes!vars
    <3>1. c'.pos = c.pos /\ UNCHANGED outcome
      BY <2>2
    <3> QED BY <2>1, <3>1, Unseen
  <2> QED BY <2>3, <2>4
<1> QED BY <1>1, <1>2, <1>3, <1>4, <1>5 DEF BytesNext

\* The inductive invariant holds in every state: what each store to a location says,
\* where each frame lies, and what the frame being read may still be taken for.
THEOREM BytesInvariance == BytesSpec => []BytesInv
<1>1. BytesInit => BytesInv
  BY BytesInitially
<1>2. BytesInv /\ [BytesNext]_bytes_vars => BytesInv'
  BY BytesStep
<1> QED BY <1>1, <1>2, PTL DEF BytesSpec

\* What is held, and was not passed, is the last thing written there.
LEMMA HeldIsNewest ==
  ASSUME BytesInv, NEW x \in Nat, NEW v, Holds(x, v, Now), Intent <= x + capacity
  PROVE  Newest(Lane(x)) = v
<1>0. LogOk /\ FramesOk /\ IntentOk /\ Now \in Nat /\ Intent \in Nat /\ capacity \in Nat
  BY InvFacts, CapacityType
<1>1. PICK t \in 1 .. Now : /\ log[t].loc = Lane(x) /\ log[t].val = v
                            /\ \A u \in t + 1 .. Now : log[u].loc = Lane(x) => Passed(log[u].rel, x)
  BY DEF Holds
<1>2. ASSUME NEW u \in t + 1 .. Now PROVE log[u].loc # Lane(x)
  <2> SUFFICES ASSUME log[u].loc = Lane(x) PROVE FALSE
    OBVIOUS
  <2>1. PICK r : r = log[u].rel
    OBVIOUS
  <2>2. u \in 1 .. Now
    BY <1>0
  <2>3. r \in 0 .. u
    BY <1>0, <2>1, <2>2, StoreType
  <2>4. r \in 0 .. Now /\ Passed(r, x)
    BY <1>0, <1>1, <2>1, <2>2, <2>3
  <2>5. Intent > x + capacity
    BY <1>0, <2>4, PassedIntent
  <2> QED BY <1>0, <2>5
<1>3. PICK s \in 0 .. Now : /\ IsStore(s, Lane(x)) /\ \A u \in s + 1 .. Now : log[u].loc # Lane(x)
                            /\ Newest(Lane(x)) = Value(s)
  BY <1>0, NewestStore
<1>4. ~(t \in s + 1 .. Now)
  BY <1>1, <1>3
<1>5. t <= s /\ s # 0 /\ s \in Nat
  BY <1>0, <1>4
<1>6. log[s].loc = Lane(x)
  BY <1>3, <1>5 DEF IsStore
<1>7. ~(s \in t + 1 .. Now)
  BY <1>2, <1>6
<1>8. s = t
  BY <1>0, <1>5, <1>7
<1> QED BY <1>1, <1>3, <1>5, <1>8 DEF Value

\* While a committed record may still pass the window check, its header, the padding
\* before it and every lane of its payload are the last thing written there: no push,
\* of this session or of a later one, has reached them (BytesProducer::push and
\* bytes_heal_on_attach, which declare the intent before they overwrite).
THEOREM BytesWindowIsIntact == BytesSpec => []WindowIsIntact
<1>1. ASSUME BytesInv PROVE WindowIsIntact
  <2> SUFFICES ASSUME NEW i \in DOMAIN frames, Newest(TailIntent) - frames[i].start <= capacity
               PROVE  /\ frames[i].at > frames[i].start => Newest(Lane(frames[i].start)) = PADDING
                      /\ Newest(Lane(frames[i].at)) = frames[i].record[1]
                      /\ \A at \in PayloadLanes(frames[i].at, frames[i].record[1]) :
                           Newest(Lane(at)) = frames[i].record[2]
    BY DEF WindowIsIntact
  <2>0. FramesOk /\ Intent \in Nat /\ Newest(TailIntent) = Intent /\ HoldsFrame(frames[i], Now)
        /\ capacity \in Nat
    BY <1>1, InvFacts, CapacityType
  <2>1. PICK f : f = frames[i]
    OBVIOUS
  <2>2. /\ f.start \in Nat /\ f.at \in Nat /\ f.start <= f.at /\ f.record[1] \in Nat
    BY <2>0, <2>1, FrameTail, Framed
  <2>3. \A x \in Nat : f.start <= x => Intent <= x + capacity
    <3>1. Intent - f.start <= capacity
      BY <2>0, <2>1
    <3> QED BY <2>0, <2>2, <3>1
  <2>4. /\ f.at # f.start => Holds(f.start, PADDING, Now)
        /\ Holds(f.at, f.record[1], Now)
        /\ \A at \in PayloadLanes(f.at, f.record[1]) : Holds(at, f.record[2], Now)
    BY <2>0, <2>1 DEF HoldsFrame, HoldsHeaders, HoldsPayload
  <2>5. f.at > f.start => Newest(Lane(f.start)) = PADDING
    BY <1>1, <2>2, <2>3, <2>4, HeldIsNewest
  <2>6. Newest(Lane(f.at)) = f.record[1]
    BY <1>1, <2>2, <2>3, <2>4, HeldIsNewest
  <2>7. ASSUME NEW at \in PayloadLanes(f.at, f.record[1]) PROVE Newest(Lane(at)) = f.record[2]
    <3>1. at \in Nat /\ f.start <= at
      <4>1. at \in Nat /\ f.at < at
        BY <2>2, LaneCursor
      <4> QED BY <2>2, <4>1
    <3>2. Holds(at, f.record[2], Now)
      BY <2>4
    <3> QED BY <1>1, <2>3, <3>1, <3>2, HeldIsNewest
  <2> QED BY <2>1, <2>5, <2>6, <2>7
<1> QED BY <1>1, BytesInvariance, PTL

\* The byte ring is a lossy log of whole records (BytesConsumer::pop, peek and
\* skip_to_latest): a consumer is handed the record at its place, whole, or is told
\* that it lagged, by as much as it moves and only when the bytes one capacity past it
\* were claimed; it never goes back; and Closed is the truth.
THEOREM BytesRefinement == BytesSpec => ImplementsLossyRecords
<1>1. BytesInit => LossyBytes!Init
  BY BytesInitially
<1>2. BytesInv /\ [BytesNext]_bytes_vars => [LossyBytes!Next]_(LossyBytes!vars)
  BY BytesStep
<1> QED BY <1>1, <1>2, BytesInvariance, PTL DEF BytesSpec, ImplementsLossyRecords, LossyBytes!Spec
=============================================================================
