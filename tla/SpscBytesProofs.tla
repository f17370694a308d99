--------------------------- MODULE SpscBytesProofs ---------------------------
(***************************************************************************)
(* SpscBytes: the inductive invariant, and the theorems that rest on it,   *)
(* for every capacity, cursor width and set of lengths.                    *)
(*                                                                         *)
(* As in SpscRingProofs, every wrapped cursor is the remainder of a count. *)
(* Nothing in the state says where the records lie, so the invariant says  *)
(* that there is a history of frames, one for each publish: it ends at the *)
(* write cursor, the words of what is not released hold it, and the        *)
(* consumer stands at one of its frames.                                   *)
(*                                                                         *)
(* The queue of RecordQueue is decoded from the buffer by a function that  *)
(* calls itself, and the library has induction only over operators: each   *)
(* such argument here goes to the least number it would fail at.           *)
(***************************************************************************)
EXTENDS SpscBytes, RingArithProofs, SequenceTheorems, WellFoundedInduction

-----------------------------------------------------------------------------
(* The invariant *)

Places == {ALIGN * i : i \in 0 .. Capacity \div ALIGN - 1}

ToEnd(cursor) == Capacity - Position(cursor)

Frames == [start : Nat, at : Nat, end : Nat, len : Lengths, word : Words]

\* A frame as write_frame lays one out: the record in one piece, after padding
\* to the end of the buffer where it would not fit.
WellFramed(f) ==
  /\ f \in Frames
  /\ f.start % ALIGN = 0 /\ f.at % ALIGN = 0 /\ f.end % ALIGN = 0
  /\ f.at = f.start \/ (f.at = f.start + ToEnd(f.start) /\ Position(f.at) = 0)
  /\ f.end = f.at + record_len(f.len)
  /\ Position(f.at) + record_len(f.len) <= Capacity
  /\ f.end <= f.start + Capacity

\* Where the n-th frame of a history ends; the frames abut and rise up to W.
End(F, n) == IF n = 0 THEN 0 ELSE F[n].end
FramesAt(F, W) ==
  /\ F \in Seq(Frames)
  /\ \A n \in 1 .. Len(F) : WellFramed(F[n]) /\ F[n].start = End(F, n - 1)
  /\ \A m, n \in 0 .. Len(F) : m < n => End(F, m) < End(F, n)
  /\ End(F, Len(F)) = W

\* What the words of a frame hold, as long as the consumer has not released it.
HeldPadding(f, P) == f.at # f.start /\ P <= f.start => buffer[Position(f.start)] = PADDING
HeldPayload(f) == \A w \in PayloadAt(Position(f.at), f.len) : buffer[w] = f.word
HeldRecord(f, P) == P <= f.at => buffer[Position(f.at)] = f.len /\ HeldPayload(f)
Held(f, P) == HeldPadding(f, P) /\ HeldRecord(f, P)

ContentsAt(F, P) == \A n \in 1 .. Len(F) : Held(F[n], P)

\* Q, P, R, K and W are the counts behind the producer's cache of the consumer,
\* the consumer's published cursor, its own, its cache of the producer, and the
\* write cursor.
Busy == {"framed", "starved", "waiting", "granted", "filled", "written"}

CursorsAt(Q, P, R, K, W) ==
  /\ Q <= P /\ P <= R /\ R <= K /\ K <= W /\ W <= Q + Capacity
  /\ Q % ALIGN = 0 /\ P % ALIGN = 0 /\ R % ALIGN = 0 /\ K % ALIGN = 0 /\ W % ALIGN = 0
  /\ p.read_cursor_cache = Q % Modulus
  /\ read_cursor = P % Modulus /\ c.published = P % Modulus
  /\ c.read_cursor = R % Modulus /\ c.write_cursor_cache = K % Modulus
  /\ write_cursor = W % Modulus

\* The record being pushed: it fits, and its words are there when they have been written.
Pending(W, v) ==
  [start |-> W, at |-> W + Pad(p.len), end |-> W + Total(p.len), len |-> p.len, word |-> v]
ProducerAt(Q, W) ==
  /\ p.pc \in Busy => p.len \in Lengths /\ p.len <= max_message_len
  /\ p.pc \in {"granted", "filled", "written"} => W + Total(p.len) <= Q + Capacity
  /\ p.pc = "filled" => \E v \in Words : HeldPayload(Pending(W, v))
  /\ p.pc = "written" => \E v \in Words : Held(Pending(W, v), 0)

\* The consumer stands at a frame that it knows of, or has caught up with what it knows.
Stands(F, R, K) == \E n \in 1 .. Len(F) : R \in {F[n].start, F[n].at} /\ F[n].end <= K
Lent(F, R, K) == \E n \in 1 .. Len(F) : R = F[n].at /\ c.len = F[n].len /\ F[n].end <= K
CalledBack(F, P, R, K) ==
  \E n \in 1 .. Len(F) : R = F[n].end /\ c.len = F[n].len /\ P <= F[n].at /\ F[n].end <= K

ConsumerAt(F, P, R, K) ==
  /\ \E n \in 0 .. Len(F) : K = End(F, n)
  /\ c.pc \in {"idle", "dropped"} => R = K \/ Stands(F, R, K)
  /\ c.pc \in {"ready", "drain"} => Stands(F, R, K)
  /\ c.pc \in {"holding", "releasing"} => Lent(F, R, K)
  /\ c.pc = "callback" => CalledBack(F, P, R, K)

At(F, Q, P, R, K, W) ==
  /\ FramesAt(F, W) /\ ContentsAt(F, P) /\ CursorsAt(Q, P, R, K, W)
  /\ ProducerAt(Q, W) /\ ConsumerAt(F, P, R, K)

IsArray == DOMAIN buffer = Places /\ buffer = [w \in Places |-> buffer[w]]

IInv ==
  /\ TypeOK /\ IsArray
  /\ \E F \in Seq(Frames) : \E Q, P, R, K, W \in Nat : At(F, Q, P, R, K, W)

-----------------------------------------------------------------------------
(* Arithmetic *)

LEMMA CapacityType == Capacity \in Nat \ {0} /\ Capacity \in Int /\ Capacity >= 8
BY BytesAssumption DEF BytesAssumption, MIN_CAPACITY

LEMMA Sizes ==
  /\ Capacity \in Nat \ {0} /\ Capacity \in Int /\ Capacity >= 8
  /\ Modulus \in Nat \ {0} /\ Modulus \in Int /\ Modulus % Capacity = 0 /\ Modulus >= 2 * Capacity
BY BytesAssumption DEF BytesAssumption, MIN_CAPACITY

LEMMA CapacityWords == \E k \in Nat : Capacity = 8 * k
<1>1. Capacity \in Nat /\ Capacity % 8 = 0
  BY BytesAssumption DEF BytesAssumption, MIN_CAPACITY
<1> DEFINE h == Capacity \div 8
<1>2. h \in Nat /\ Capacity = 8 * h
  BY <1>1
<1> HIDE DEF h
<1> QED BY <1>2

LEMMA CapacityQuads == \E k \in Nat : Capacity = 4 * k
<1>1. PICK k \in Nat : Capacity = 8 * k
  BY CapacityWords
<1>2. 2 * k \in Nat /\ Capacity = 4 * (2 * k)
  BY <1>1
<1> QED BY <1>2

LEMMA LengthType == \A len \in Lengths : len \in Nat
BY BytesAssumption DEF BytesAssumption

\* A record takes whole words, and room for its header and its payload.
LEMMA RecordLen ==
  ASSUME NEW len \in Nat
  PROVE  /\ record_len(len) \in Nat /\ record_len(len) % 4 = 0
         /\ record_len(len) >= 4 /\ record_len(len) >= 4 + len
         /\ len <= max_message_len => 2 * record_len(len) <= Capacity
<1>1. record_len(len) = ((len + 7) \div 4) * 4 /\ len + 7 \in Nat
  BY DEF record_len, align_up, HEADER, ALIGN
<1>2. (len + 7) \div 4 \in Nat /\ (len + 7) \div 4 >= 1
  BY <1>1
<1>3. ((len + 7) \div 4) * 4 >= len + 4
  BY <1>1
<1>4. (((len + 7) \div 4) * 4) % 4 = 0
  BY <1>2
<1>5. ASSUME len <= max_message_len PROVE 2 * record_len(len) <= Capacity
  <2>1. PICK k \in Nat : Capacity = 8 * k
    BY CapacityWords
  <2>2. len <= 4 * k - 4
    BY <2>1, <1>5 DEF max_message_len, HEADER
  <2>3. (len + 7) \div 4 <= k
    BY <2>2
  <2> QED BY <1>1, <1>2, <2>1, <2>3
<1> QED BY <1>1, <1>2, <1>3, <1>4, <1>5

LEMMA PositionType ==
  ASSUME NEW x \in Nat
  PROVE  /\ Position(x) \in Nat /\ Position(x) < Capacity
         /\ ToEnd(x) \in Nat /\ 0 < ToEnd(x) /\ ToEnd(x) <= Capacity
         /\ Position(x) + ToEnd(x) = Capacity
<1>1. x \in Int
  OBVIOUS
<1>2. x % Capacity \in 0 .. Capacity - 1
  BY <1>1, CapacityType, ModInterval
<1> QED BY <1>2, CapacityType DEF Position, ToEnd

\* A cursor further on, as long as it stays in its lap, is further on in the buffer.
LEMMA PositionPlus ==
  ASSUME NEW x \in Nat, NEW k \in Nat, Position(x) + k < Capacity
  PROVE  Position(x + k) = Position(x) + k
<1>1. x \in Int /\ x + k \in Int
  OBVIOUS
<1>2. PICK q \in Int : x = Capacity * q + (x % Capacity)
  BY <1>1, CapacityType, ModInterval, Zenon
<1>3. x % Capacity \in Nat /\ (x % Capacity) + k \in 0 .. Capacity - 1
  <2>1. Position(x) \in Nat /\ Position(x) + k \in 0 .. Capacity - 1
    BY PositionType, CapacityType
  <2> QED BY <2>1 DEF Position
<1>4. Capacity * q \in Int
  BY CapacityType
<1>5. x + k = Capacity * q + ((x % Capacity) + k)
  BY <1>2, <1>3, <1>4
<1> QED BY <1>1, <1>3, <1>5, CapacityType, ModUnique DEF Position

\* The end of the buffer is the beginning of the next lap.
LEMMA PositionWrap ==
  ASSUME NEW x \in Nat
  PROVE  Position(x + ToEnd(x)) = 0
<1>1. x \in Int /\ x + ToEnd(x) \in Int
  BY PositionType
<1>2. PICK q \in Int : x = Capacity * q + (x % Capacity)
  BY <1>1, CapacityType, ModInterval, Zenon
<1>3. Capacity * q \in Int /\ x % Capacity \in Nat
  BY CapacityType, PositionType DEF Position
<1>4. x + ToEnd(x) = Capacity * q + Capacity
  BY <1>2, <1>3, CapacityType DEF ToEnd, Position
<1>5. Capacity * q + Capacity = Capacity * (q + 1) + 0
  BY CapacityType
<1>6. x + ToEnd(x) = Capacity * (q + 1) + 0
  BY <1>4, <1>5
<1>7. 0 \in 0 .. Capacity - 1 /\ q + 1 \in Int /\ Capacity \in Nat \ {0}
  BY CapacityType
<1>8. (x + ToEnd(x)) % Capacity = 0
  BY <1>1, <1>6, <1>7, ModUnique
<1> QED BY <1>8 DEF Position

\* The words are the aligned positions.
LEMMA WordType == \A w : w \in Places <=> w \in Nat /\ w % 4 = 0 /\ w < Capacity
<1> TAKE w
<1>1. PICK k \in Nat : Capacity = 4 * k
  BY CapacityQuads, CapacityType
<1>2. Capacity \div 4 = k
  BY <1>1
<1>3. ASSUME w \in Places PROVE w \in Nat /\ w % 4 = 0 /\ w < Capacity
  <2>1. PICK i \in 0 .. k - 1 : w = 4 * i
    BY <1>2, <1>3 DEF Places, ALIGN
  <2> QED BY <2>1, <1>1
<1>4. ASSUME w \in Nat, w % 4 = 0, w < Capacity PROVE w \in Places
  <2>1. w = 4 * (w \div 4) /\ w \div 4 \in Nat
    BY <1>4
  <2>2. w \div 4 < k
    BY <2>1, <1>1, <1>4
  <2>3. w \div 4 \in 0 .. k - 1
    BY <2>1, <2>2
  <2> QED BY <2>1, <2>3, <1>2 DEF Places, ALIGN
<1> QED BY <1>3, <1>4

LEMMA PositionWord ==
  ASSUME NEW x \in Nat, x % 4 = 0
  PROVE  Position(x) \in Places /\ Position(x) % 4 = 0 /\ ToEnd(x) % 4 = 0
<1>1. x \in Int
  OBVIOUS
<1>2. PICK q \in Int : x = Capacity * q + (x % Capacity)
  BY <1>1, CapacityType, ModInterval, Zenon
<1>3. PICK k \in Nat : Capacity = 4 * k
  BY CapacityQuads
<1>4. Position(x) \in Nat /\ Position(x) < Capacity /\ Position(x) = x % Capacity
  BY PositionType DEF Position
<1>5. PICK j \in Nat : x = 4 * j
  <2>1. x = 4 * (x \div 4) /\ x \div 4 \in Nat
    OBVIOUS
  <2> QED BY <2>1
<1>6. k * q \in Int /\ Capacity * q = 4 * (k * q)
  BY <1>3
<1>7. Position(x) = 4 * (j - k * q)
  BY <1>2, <1>4, <1>5, <1>6
<1>8. Position(x) % 4 = 0
  <2> DEFINE h == j - k * q
  <2>1. h \in Int /\ Position(x) = 4 * h
    BY <1>6, <1>7
  <2> HIDE DEF h
  <2> QED BY <2>1
<1>9. ToEnd(x) % 4 = 0
  BY <1>3, <1>4, <1>8 DEF ToEnd
<1> QED BY <1>4, <1>8, <1>9, WordType

\* Aligned cursors add up.
LEMMA Aligned ==
  ASSUME NEW x \in Nat, NEW y \in Nat, x % 4 = 0, y % 4 = 0
  PROVE  (x + y) % 4 = 0
OBVIOUS

\* Distinct cursors that are less than a ring apart have different positions.
LEMMA Apart ==
  ASSUME NEW x \in Nat, NEW y \in Nat, x < y, y < x + Capacity
  PROVE  Position(x) # Position(y)
<1>1. y - x < Capacity /\ Capacity \in Nat \ {0}
  BY CapacityType
<1>2. x % Capacity # y % Capacity
  BY <1>1, ModDistinct
<1> QED BY <1>2 DEF Position

-----------------------------------------------------------------------------
(* Counts and cursors *)

LEMMA CursorOfCount ==
  ASSUME NEW n \in Nat
  PROVE  /\ n % Modulus \in 0 .. Modulus - 1 /\ n % Modulus \in Nat
         /\ Position(n % Modulus) = Position(n)
         /\ n % 4 = 0 => n % Modulus \in Cursor
         /\ \A k \in Nat : Add(n % Modulus, k) = (n + k) % Modulus
<1>0. n \in Int
  OBVIOUS
<1>1. n % Modulus \in 0 .. Modulus - 1 /\ n % Modulus \in Nat
  BY <1>0, Sizes, ModInterval
<1>2. Position(n % Modulus) = Position(n)
  BY Sizes, ModOfMod DEF Position
<1>3. \A k \in Nat : Add(n % Modulus, k) = (n + k) % Modulus
  BY Sizes, WrappedAdd DEF Add
<1>4. Modulus % 4 = 0
  <2>1. PICK k \in Nat : Capacity = 4 * k
    BY CapacityQuads
  <2>2. PICK q \in Int : Modulus = Capacity * q + (Modulus % Capacity)
    BY Sizes, ModInterval, Zenon
  <2>3. Modulus = 4 * (k * q) /\ k * q \in Int
    BY <2>1, <2>2, Sizes
  <2> DEFINE h == k * q
  <2>4. h \in Int /\ Modulus = 4 * h
    BY <2>3
  <2> HIDE DEF h
  <2> QED BY <2>4, Sizes
<1>5. ASSUME n % 4 = 0 PROVE (n % Modulus) % 4 = 0
  <2>1. (n % Modulus) % 4 = n % 4
    <3>1. 4 \in Nat \ {0}
      OBVIOUS
    <3> QED BY <3>1, <1>4, Sizes, ModOfMod
  <2> QED BY <2>1, <1>5
<1> QED BY <1>1, <1>2, <1>3, <1>5 DEF Cursor, ALIGN

\* Counts less than a word apart have the distance of their cursors.
LEMMA Distance ==
  ASSUME NEW W \in Nat, NEW X \in Nat, X <= W, W - X < Modulus
  PROVE  Sub(W % Modulus, X % Modulus) = W - X
BY Sizes, WrappedSub DEF Sub

LEMMA NoItemOnCounts ==
  ASSUME NEW W \in Nat, NEW X \in Nat, X <= W, W <= X + Capacity
  PROVE  no_item(W % Modulus, X % Modulus, Modulus) <=> W = X
<1>1. W - X < Modulus
  BY Sizes
<1>2. Sub(W % Modulus, X % Modulus) = W - X
  BY <1>1, Distance
<1> QED BY <1>2 DEF no_item, Sub

\* Going back by less than the count.
LEMMA SubCount ==
  ASSUME NEW n \in Nat, NEW k \in Nat, k <= n
  PROVE  Sub(n % Modulus, k) = (n - k) % Modulus
<1>0. n \in Int /\ Modulus \in Nat \ {0} /\ Modulus \in Int
  BY Sizes
<1>1. PICK q \in Int : n = Modulus * q + (n % Modulus)
  BY <1>0, ModInterval, Zenon
<1>2. n % Modulus \in Int
  BY <1>0, ModInterval
<1> DEFINE b == (n % Modulus) - k
<1>3. b \in Int
  BY <1>2
<1>4. PICK r \in Int : b = Modulus * r + (b % Modulus)
  BY <1>0, <1>3, ModInterval, Zenon
<1>5. b % Modulus \in 0 .. Modulus - 1
  BY <1>0, <1>3, ModInterval
<1>6. Modulus * q + Modulus * r = Modulus * (q + r) /\ Modulus * q \in Int /\ Modulus * r \in Int
  BY <1>0
<1>7. n - k = Modulus * (q + r) + (b % Modulus)
  <2> DEFINE x == n % Modulus
             u == Modulus * q
  <2>0. n = u + x /\ x \in Int /\ u \in Int /\ b = x - k
    BY <1>1, <1>2, <1>6
  <2> HIDE DEF b, x, u
  <2>1. n - k = Modulus * q + b
    <3>1. n - k = u + b
      BY <2>0
    <3> QED BY <3>1 DEF u
  <2> QED BY <2>1, <1>3, <1>4, <1>5, <1>6
<1>8. (n - k) % Modulus = b % Modulus
  <2> HIDE DEF b
  <2>1. n - k \in Int /\ q + r \in Int
    OBVIOUS
  <2> QED BY <1>0, <1>5, <1>7, <2>1, ModUnique
<1> QED BY <1>8 DEF Sub, wrapping_sub

\* What a push needs is its padding and its record, and at most the ring.
LEMMA Fits ==
  ASSUME NEW W \in Nat, write_cursor = W % Modulus, W % 4 = 0, NEW len \in Nat
  PROVE  /\ Pad(len) \in Nat /\ record_len(len) \in Nat /\ record_len(len) >= 4
         /\ Total(len) \in Nat /\ Total(len) = Pad(len) + record_len(len)
         /\ \/ Pad(len) = 0 /\ record_len(len) <= ToEnd(W)
            \/ Pad(len) = ToEnd(W) /\ Pad(len) > 0 /\ ToEnd(W) < record_len(len)
         /\ len <= max_message_len => Total(len) < Capacity
<1>1. /\ record_len(len) \in Nat /\ record_len(len) >= 4 /\ record_len(len) % 4 = 0
      /\ len <= max_message_len => 2 * record_len(len) <= Capacity
  BY RecordLen
<1>2. Position(write_cursor) = Position(W)
  BY CursorOfCount
<1>3. ToEnd(W) \in Nat /\ ToEnd(W) > 0
  BY PositionType
<1>4. Pad(len) = IF record_len(len) <= ToEnd(W) THEN 0 ELSE ToEnd(W)
  BY <1>2 DEF Pad, ToEnd
<1>5. Total(len) = Pad(len) + record_len(len)
  BY DEF Total
<1>6. \/ Pad(len) = 0 /\ record_len(len) <= ToEnd(W)
      \/ Pad(len) = ToEnd(W) /\ Pad(len) > 0 /\ ToEnd(W) < record_len(len)
  BY <1>1, <1>3, <1>4
<1>7. ASSUME len <= max_message_len PROVE Total(len) < Capacity
  <2>1. 2 * record_len(len) <= Capacity /\ Capacity \in Nat
    BY <1>1, <1>7, CapacityType
  <2>2. Pad(len) \in Nat /\ Pad(len) < record_len(len)
    BY <1>1, <1>3, <1>6
  <2> QED BY <1>1, <1>5, <2>1, <2>2
<1>10. record_len(len) \in Nat /\ record_len(len) >= 4
  BY <1>1
<1>8. Pad(len) \in Nat /\ Total(len) \in Nat
  BY <1>10, <1>3, <1>5, <1>6
<1>9. len <= max_message_len => Total(len) < Capacity
  BY <1>7
<1> QED BY <1>5, <1>6, <1>8, <1>9, <1>10, Zenon

\* lacks_space fails exactly when the record overruns the reader as the cursor given shows it.
LEMMA LacksOnCounts ==
  ASSUME NEW W \in Nat, NEW X \in Nat, X <= W, W <= X + Capacity, W % 4 = 0,
         write_cursor = W % Modulus, p.len \in Nat, p.len <= max_message_len
  PROVE  Lacks(X % Modulus) <=> ~(W + Total(p.len) <= X + Capacity)
<1>1. Total(p.len) \in Nat /\ Total(p.len) < Capacity
  BY Fits
<1>2. wrapping_add(W % Modulus, Total(p.len), Modulus) = (W + Total(p.len)) % Modulus
  BY <1>1, Sizes, WrappedAdd
<1>3. W + Total(p.len) \in Nat /\ X <= W + Total(p.len) /\ (W + Total(p.len)) - X < Modulus
  BY <1>1, Sizes
<1>4. wrapping_sub((W + Total(p.len)) % Modulus, X % Modulus, Modulus) = (W + Total(p.len)) - X
  BY <1>3, Distance DEF Sub
<1>5. Lacks(X % Modulus) <=> (W + Total(p.len)) - X > Capacity
  BY <1>2, <1>4 DEF Lacks, lacks_space
<1> QED BY <1>1, <1>5, Sizes

-----------------------------------------------------------------------------
(* Frames *)

LEMMA Framed ==
  ASSUME NEW f, WellFramed(f)
  PROVE  /\ f.start \in Nat /\ f.at \in Nat /\ f.end \in Nat /\ f.len \in Nat /\ f.len \in Lengths
         /\ f.word \in Words /\ f.start % 4 = 0 /\ f.at % 4 = 0 /\ f.end % 4 = 0
         /\ f.start <= f.at /\ f.at + 4 <= f.end /\ f.end <= f.start + Capacity
         /\ record_len(f.len) \in Nat /\ record_len(f.len) >= 4 /\ f.end = f.at + record_len(f.len)
<1>1. f.start \in Nat /\ f.at \in Nat /\ f.end \in Nat /\ f.len \in Lengths /\ f.word \in Words
  BY DEF WellFramed, Frames
<1>2. f.len \in Nat
  BY <1>1, LengthType
<1>3. record_len(f.len) \in Nat /\ record_len(f.len) >= 4
  BY <1>2, RecordLen
<1>4. ToEnd(f.start) \in Nat
  BY <1>1, PositionType
<1>5. f.start <= f.at
  BY <1>1, <1>4 DEF WellFramed
<1>6. f.end = f.at + record_len(f.len) /\ f.end <= f.start + Capacity
  BY DEF WellFramed
<1>7. f.start % 4 = 0 /\ f.at % 4 = 0 /\ f.end % 4 = 0
  BY DEF WellFramed, ALIGN
<1>8. f.at + 4 <= f.end
  BY <1>1, <1>3, <1>6
<1> QED BY <1>1, <1>2, <1>3, <1>5, <1>6, <1>7, <1>8

LEMMA FrameAt ==
  ASSUME NEW F, NEW W \in Nat, FramesAt(F, W), NEW n \in 1 .. Len(F)
  PROVE  /\ WellFramed(F[n]) /\ n - 1 \in 0 .. Len(F) /\ n \in 0 .. Len(F)
         /\ F[n].start = End(F, n - 1) /\ F[n].end = End(F, n)
<1>1. Len(F) \in Nat
  BY LenProperties DEF FramesAt
<1>2. n - 1 \in 0 .. Len(F) /\ n \in 0 .. Len(F) /\ n # 0
  BY <1>1
<1> QED BY <1>2 DEF FramesAt, End

LEMMA EndType ==
  ASSUME NEW F, NEW W \in Nat, FramesAt(F, W), NEW n \in 0 .. Len(F)
  PROVE  End(F, n) \in Nat /\ End(F, n) <= W
<1>0. Len(F) \in Nat /\ End(F, Len(F)) = W
  BY LenProperties DEF FramesAt
<1>1. End(F, n) \in Nat
  <2>1. CASE n = 0
    BY <2>1 DEF End
  <2>2. CASE n # 0
    <3>1. n \in 1 .. Len(F)
      BY <2>2, <1>0
    <3>2. WellFramed(F[n]) /\ F[n].end = End(F, n)
      BY <3>1, FrameAt
    <3> QED BY <3>2, Framed
  <2> QED BY <2>1, <2>2
<1>2. End(F, n) <= W
  <2>1. CASE n = Len(F)
    BY <2>1, <1>0
  <2>2. CASE n # Len(F)
    <3>1. n < Len(F) /\ Len(F) \in 0 .. Len(F)
      BY <2>2, <1>0
    <3>2. End(F, n) < End(F, Len(F))
      BY <3>1 DEF FramesAt
    <3> QED BY <3>2, <1>0, <1>1
  <2> QED BY <2>1, <2>2
<1> QED BY <1>1, <1>2

\* Between two ends of frames, the next frame starts at the first of them.
LEMMA NextFrame ==
  ASSUME NEW F, NEW W \in Nat, FramesAt(F, W), NEW k \in 0 .. Len(F), NEW m \in 0 .. Len(F),
         End(F, k) < End(F, m)
  PROVE  /\ k + 1 \in 1 .. Len(F) /\ F[k + 1].start = End(F, k) /\ F[k + 1].end <= End(F, m)
<1>0. Len(F) \in Nat /\ k \in Nat /\ m \in Nat /\ End(F, k) \in Nat /\ End(F, m) \in Nat
  BY LenProperties, EndType DEF FramesAt
<1>1. k < m
  <2>1. CASE m < k
    <3>1. End(F, m) < End(F, k)
      BY <2>1 DEF FramesAt
    <3> QED BY <3>1, <1>0
  <2>2. CASE m = k
    BY <2>2, <1>0
  <2> QED BY <2>1, <2>2, <1>0
<1>2. k + 1 \in 1 .. Len(F) /\ k + 1 \in 0 .. Len(F) /\ (k + 1) - 1 = k
  BY <1>0, <1>1
<1>3. F[k + 1].start = End(F, k) /\ F[k + 1].end = End(F, k + 1) /\ End(F, k + 1) \in Nat
  BY <1>2, FrameAt, EndType
<1>4. End(F, k + 1) <= End(F, m)
  <2>1. CASE m = k + 1
    BY <2>1, <1>0
  <2>2. CASE m # k + 1
    <3>1. k + 1 < m
      BY <2>2, <1>0, <1>1
    <3>2. End(F, k + 1) < End(F, m)
      BY <3>1, <1>2 DEF FramesAt
    <3> QED BY <3>2, <1>0, <1>3
  <2> QED BY <2>1, <2>2
<1> QED BY <1>2, <1>3, <1>4

\* A consumer that has come to the end of a frame has caught up or stands at the next.
LEMMA Onward ==
  ASSUME NEW F, NEW W \in Nat, FramesAt(F, W), NEW R, NEW K,
         \E n \in 0 .. Len(F) : R = End(F, n), \E n \in 0 .. Len(F) : K = End(F, n), R <= K
  PROVE  R = K \/ (R < K /\ Stands(F, R, K))
<1>1. PICK k \in 0 .. Len(F) : R = End(F, k)
  OBVIOUS
<1>2. PICK m \in 0 .. Len(F) : K = End(F, m)
  OBVIOUS
<1>3. R \in Nat /\ K \in Nat
  BY <1>1, <1>2, EndType
<1>4. CASE R < K
  <2>1. k + 1 \in 1 .. Len(F) /\ F[k + 1].start = R /\ F[k + 1].end <= K
    BY <1>1, <1>2, <1>4, NextFrame
  <2> QED BY <2>1, <1>4 DEF Stands
<1> QED BY <1>3, <1>4

\* Every word of a payload is the position of a cursor within its frame.
LEMMA WordOf ==
  ASSUME NEW f, WellFramed(f), DOMAIN buffer = Places, NEW w \in PayloadAt(Position(f.at), f.len)
  PROVE  /\ w \in Places /\ w \in Nat
         /\ \E x \in Nat : f.at <= x /\ x < f.end /\ w = Position(x)
<1>1. /\ f.at \in Nat /\ f.end \in Nat /\ f.end = f.at + record_len(f.len)
      /\ record_len(f.len) \in Nat
  BY Framed
<1>2. w \in Places /\ Position(f.at) + 4 <= w /\ w < Position(f.at) + record_len(f.len)
  BY DEF PayloadAt, HEADER
<1>3. w \in Nat /\ w < Capacity /\ Position(f.at) \in Nat
  BY <1>2, WordType, <1>1, PositionType
<1> DEFINE k == w - Position(f.at)
<1>4. k \in Nat /\ k < record_len(f.len) /\ w = Position(f.at) + k
  BY <1>1, <1>2, <1>3
<1> HIDE DEF k
<1>5. Position(f.at + k) = w
  BY <1>1, <1>3, <1>4, PositionPlus
<1>6. f.at + k \in Nat /\ f.at <= f.at + k /\ f.at + k < f.end
  BY <1>1, <1>4
<1> QED BY <1>2, <1>3, <1>5, <1>6

-----------------------------------------------------------------------------
(* The record being pushed *)

LEMMA PendingFits ==
  ASSUME NEW Q \in Nat, NEW W \in Nat, NEW v \in Words, write_cursor = W % Modulus, W % 4 = 0,
         p.len \in Lengths, Q <= W, W + Total(p.len) <= Q + Capacity
  PROVE  /\ WellFramed(Pending(W, v)) /\ RecordAt = Position(W + Pad(p.len))
         /\ W + Total(p.len) \in Nat /\ Position(write_cursor) = Position(W)
         /\ W + Pad(p.len) \in Nat /\ W + Total(p.len) = (W + Pad(p.len)) + record_len(p.len)
<1> DEFINE f == Pending(W, v)
<1>0. p.len \in Nat
  BY LengthType
<1>1. /\ Pad(p.len) \in Nat /\ record_len(p.len) \in Nat /\ record_len(p.len) >= 4
      /\ Total(p.len) \in Nat /\ Total(p.len) = Pad(p.len) + record_len(p.len)
      /\ \/ Pad(p.len) = 0 /\ record_len(p.len) <= ToEnd(W)
         \/ Pad(p.len) = ToEnd(W)
  BY <1>0, Fits
<1>2. record_len(p.len) % 4 = 0
  BY <1>0, RecordLen
<1>3. RecordAt = Position(W + Pad(p.len)) /\ Position(write_cursor) = Position(W)
  <2>1. Add(W % Modulus, Pad(p.len)) = (W + Pad(p.len)) % Modulus
    BY <1>1, CursorOfCount
  <2>2. W + Pad(p.len) \in Nat
    BY <1>1
  <2> QED BY <2>1, <2>2, CursorOfCount DEF RecordAt
<1>4. f.start = W /\ f.at = W + Pad(p.len) /\ f.end = W + Total(p.len) /\ f.len = p.len /\ f.word = v
  BY DEF Pending
<1>5. f \in Frames
  <2>1. W + Pad(p.len) \in Nat /\ W + Total(p.len) \in Nat
    BY <1>1
  <2> QED BY <2>1 DEF Pending, Frames
<1>6. /\ ToEnd(W) \in Nat /\ ToEnd(W) % 4 = 0 /\ Position(W + ToEnd(W)) = 0
      /\ Position(W) \in Nat /\ Position(W) + ToEnd(W) = Capacity
  BY PositionType, PositionWord, PositionWrap
<1>7. f.end <= f.start + Capacity
  BY <1>1, <1>4, CapacityType
<1>8. f.end = f.at + record_len(f.len)
  BY <1>1, <1>4
<1>9. W + Total(p.len) \in Nat /\ W + Pad(p.len) \in Nat
      /\ W + Total(p.len) = (W + Pad(p.len)) + record_len(p.len)
  BY <1>1
<1>10. /\ Pad(p.len) % 4 = 0
       /\ \/ W + Pad(p.len) = W
          \/ W + Pad(p.len) = W + ToEnd(W) /\ Position(W + Pad(p.len)) = 0
       /\ Position(W + Pad(p.len)) + record_len(p.len) <= Capacity
  <2>1. CASE Pad(p.len) = 0 /\ record_len(p.len) <= ToEnd(W)
    <3>1. W + Pad(p.len) = W /\ Pad(p.len) % 4 = 0
      BY <2>1
    <3>2. Position(W + Pad(p.len)) = Position(W)
      BY <3>1
    <3>3. Position(W) + record_len(p.len) <= Capacity
      BY <1>1, <1>6, <2>1, CapacityType
    <3> QED BY <3>1, <3>2, <3>3
  <2>2. CASE Pad(p.len) = ToEnd(W)
    <3>1. W + Pad(p.len) = W + ToEnd(W) /\ Position(W + Pad(p.len)) = 0 /\ Pad(p.len) % 4 = 0
      BY <1>6, <2>2
    <3>2. record_len(p.len) <= Capacity
      <4> DEFINE l == record_len(p.len)
                 t == Total(p.len)
      <4>1. l \in Nat /\ t \in Nat /\ l <= t /\ W + t <= Q + Capacity
        BY <1>1
      <4> HIDE DEF l, t
      <4>2. l <= Capacity
        BY <4>1, CapacityType
      <4> QED BY <4>2 DEF l
    <3> QED BY <1>1, <3>1, <3>2
  <2> QED BY <1>1, <2>1, <2>2
<1>11. (W + Pad(p.len)) % 4 = 0 /\ (W + Total(p.len)) % 4 = 0
  <2>1. (W + Pad(p.len)) % 4 = 0
    BY <1>1, <1>10, Aligned
  <2>2. ((W + Pad(p.len)) + record_len(p.len)) % 4 = 0
    BY <2>1, <1>1, <1>2, <1>9, Aligned
  <2> QED BY <2>1, <2>2, <1>9
<1>12. WellFramed(f)
  <2> HIDE DEF f
  <2>1. f.start % 4 = 0 /\ f.at % 4 = 0 /\ f.end % 4 = 0
    BY <1>4, <1>11
  <2>2. f.at = f.start \/ (f.at = f.start + ToEnd(f.start) /\ Position(f.at) = 0)
    BY <1>4, <1>10
  <2>3. Position(f.at) + record_len(f.len) <= Capacity
    BY <1>4, <1>10
  <2> QED BY <1>5, <1>7, <1>8, <2>1, <2>2, <2>3 DEF WellFramed, ALIGN
<1> QED BY <1>3, <1>9, <1>12

\* Writing the frame in hand leaves alone what the consumer has not released.
WritesInside(W, new_end) ==
  /\ DOMAIN buffer' = Places
  /\ \A w \in Places :
       \/ buffer'[w] = buffer[w]
       \/ \E y \in Nat : W <= y /\ y < new_end /\ w = Position(y)

LEMMA WriteSpares ==
  ASSUME NEW W \in Nat, NEW E \in Nat, WritesInside(W, E),
         NEW x \in Nat, x < W, E <= x + Capacity, Position(x) \in Places
  PROVE  buffer'[Position(x)] = buffer[Position(x)]
<1>1. ASSUME NEW y \in Nat, W <= y, y < E PROVE Position(x) # Position(y)
  <2>1. x < y /\ y < x + Capacity
    BY <1>1, CapacityType
  <2> QED BY <2>1, Apart
<1> QED BY <1>1 DEF WritesInside

LEMMA HeldOver ==
  ASSUME NEW W \in Nat, NEW E \in Nat, WritesInside(W, E), DOMAIN buffer = Places,
         NEW P \in Nat, E <= P + Capacity, NEW f, WellFramed(f), f.end <= W, Held(f, P)
  PROVE  Held(f, P)'
<1>1. /\ f.start \in Nat /\ f.at \in Nat /\ f.end \in Nat /\ f.start <= f.at /\ f.at + 4 <= f.end
      /\ f.start % 4 = 0 /\ f.at % 4 = 0
  BY Framed
<1>2. HeldPadding(f, P)'
  <2> SUFFICES ASSUME f.at # f.start, P <= f.start PROVE buffer'[Position(f.start)] = PADDING
    BY DEF HeldPadding, Position
  <2>1. buffer[Position(f.start)] = PADDING
    BY DEF Held, HeldPadding
  <2>2. f.start < W /\ E <= f.start + Capacity
    BY <1>1, CapacityType
  <2>3. Position(f.start) \in Places
    BY <1>1, PositionWord
  <2> QED BY <1>1, <2>1, <2>2, <2>3, WriteSpares
<1>3. HeldRecord(f, P)'
  <2> SUFFICES ASSUME P <= f.at
               PROVE  /\ buffer'[Position(f.at)] = f.len
                      /\ \A w \in PayloadAt(Position(f.at), f.len)' : buffer'[w] = f.word
    BY DEF HeldRecord, HeldPayload, Position
  <2>1. /\ buffer[Position(f.at)] = f.len
        /\ \A w \in PayloadAt(Position(f.at), f.len) : buffer[w] = f.word
    BY DEF Held, HeldRecord, HeldPayload
  <2>2. f.at < W /\ E <= f.at + Capacity
    BY <1>1, CapacityType
  <2>3. Position(f.at) \in Places
    BY <1>1, PositionWord
  <2>4. buffer'[Position(f.at)] = buffer[Position(f.at)]
    BY <1>1, <2>2, <2>3, WriteSpares
  <2>5. PayloadAt(Position(f.at), f.len)' = PayloadAt(Position(f.at), f.len)
    BY DEF PayloadAt, WritesInside, Position
  <2>6. ASSUME NEW w \in PayloadAt(Position(f.at), f.len) PROVE buffer'[w] = buffer[w]
    <3>1. w \in Places
      BY WordOf
    <3>2. PICK x \in Nat : f.at <= x /\ x < f.end /\ w = Position(x)
      BY WordOf
    <3>3. x < W /\ E <= x + Capacity
      BY <1>1, <2>2, <3>2, CapacityType
    <3> QED BY <3>1, <3>2, <3>3, WriteSpares
  <2> QED BY <2>1, <2>4, <2>5, <2>6
<1> QED BY <1>2, <1>3 DEF Held

LEMMA ContentsOver ==
  ASSUME NEW F, NEW W \in Nat, NEW E \in Nat, NEW P \in Nat, FramesAt(F, W), ContentsAt(F, P),
         WritesInside(W, E), DOMAIN buffer = Places, E <= P + Capacity
  PROVE  ContentsAt(F, P)'
<1> SUFFICES ASSUME NEW n \in 1 .. Len(F) PROVE Held(F[n], P)'
  BY DEF ContentsAt
<1>1. PICK f : f = F[n]
  OBVIOUS
<1>2. WellFramed(f) /\ Held(f, P)
  BY <1>1, FrameAt DEF ContentsAt
<1>3. f.end <= W
  BY <1>1, FrameAt, EndType
<1>4. Held(f, P)'
  BY <1>2, <1>3, HeldOver
<1> QED BY <1>1, <1>4

\* Less is held as the consumer goes on.
LEMMA ContentsShrink ==
  ASSUME NEW F, NEW W \in Nat, NEW P \in Nat, NEW N \in Nat, P <= N, FramesAt(F, W),
         ContentsAt(F, P), UNCHANGED buffer
  PROVE  ContentsAt(F, N)'
<1> SUFFICES ASSUME NEW n \in 1 .. Len(F) PROVE Held(F[n], N)'
  BY DEF ContentsAt
<1>1. PICK f : f = F[n]
  OBVIOUS
<1>2. Held(f, P) /\ f.start \in Nat /\ f.at \in Nat
  BY <1>1, FrameAt, Framed DEF ContentsAt
<1>3. N <= f.start => P <= f.start
  BY <1>2
<1>4. N <= f.at => P <= f.at
  BY <1>2
<1>5. Held(f, N)'
  BY <1>2, <1>3, <1>4 DEF Held, HeldPadding, HeldRecord, HeldPayload, PayloadAt, Position
<1> QED BY <1>1, <1>5

-----------------------------------------------------------------------------
(* What a step leaves as it is *)

Producers ==
  [pc : {"idle", "framed", "starved", "waiting", "granted", "filled", "written", "dropped"},
   len : Lengths \union {0}, blocking : BOOLEAN, read_cursor_cache : Cursor, raised_starving : BOOLEAN]
Consumers ==
  [pc : {"idle", "ready", "holding", "releasing", "drain", "callback", "dropped"},
   len : Lengths \union {0}, read_cursor : Cursor, published : Cursor,
   write_cursor_cache : Cursor, starving : {0, 1}]

LEMMA TypeParts ==
  TypeOK <=> /\ \A w \in DOMAIN buffer : buffer[w] \in Nat \union {PADDING}
             /\ write_cursor \in Cursor /\ read_cursor \in Cursor /\ starving \in {0, 1}
             /\ p \in Producers /\ c \in Consumers
BY DEF TypeOK, Producers, Consumers

LEMMA FramesStill ==
  ASSUME NEW CONSTANT F, NEW CONSTANT W, FramesAt(F, W)
  PROVE  FramesAt(F, W)'
BY DEF FramesAt, WellFramed, End, Frames, ToEnd, Position, record_len, align_up

LEMMA ProducerStill ==
  ASSUME NEW CONSTANT Q, NEW CONSTANT W, ProducerAt(Q, W),
         UNCHANGED <<buffer, write_cursor>>, p'.pc = p.pc, p'.len = p.len
  PROVE  ProducerAt(Q, W)'
<1>1. Pad(p.len)' = Pad(p.len) /\ Total(p.len)' = Total(p.len)
  BY DEF Pad, Total, record_len, align_up, Position
<1>2. \A v \in Words : Pending(W, v)' = Pending(W, v)
  BY <1>1 DEF Pending
<1>3. p'.pc \in Busy => p'.len \in Lengths /\ p'.len <= max_message_len
  BY DEF ProducerAt
<1>4. p'.pc \in {"granted", "filled", "written"} => W + Total(p.len)' <= Q + Capacity
  BY <1>1 DEF ProducerAt
<1>5. ASSUME p.pc = "filled" PROVE \E v \in Words : HeldPayload(Pending(W, v))'
  <2>1. PICK v \in Words : HeldPayload(Pending(W, v))
    BY <1>5 DEF ProducerAt
  <2>2. HeldPayload(Pending(W, v))'
    BY <2>1, <1>2 DEF HeldPayload, PayloadAt, Position, record_len, align_up
  <2> QED BY <2>2
<1>6. ASSUME p.pc = "written" PROVE \E v \in Words : Held(Pending(W, v), 0)'
  <2>1. PICK v \in Words : Held(Pending(W, v), 0)
    BY <1>6 DEF ProducerAt
  <2>2. Held(Pending(W, v), 0)'
    BY <2>1, <1>2 DEF Held, HeldPadding, HeldRecord, HeldPayload, PayloadAt, Position, record_len, align_up
  <2> QED BY <2>2
<1> QED BY <1>3, <1>4, <1>5, <1>6 DEF ProducerAt

LEMMA ConsumerStill ==
  ASSUME NEW CONSTANT F, NEW CONSTANT P, NEW CONSTANT R, NEW CONSTANT K, ConsumerAt(F, P, R, K),
         c'.pc = c.pc, c'.len = c.len
  PROVE  ConsumerAt(F, P, R, K)'
BY DEF ConsumerAt, Stands, Lent, CalledBack, End

\* A step of the producer's that writes nothing.
LEMMA ProducerMoves ==
  ASSUME TypeOK, IsArray,
         NEW CONSTANT F, NEW CONSTANT Q \in Nat, NEW CONSTANT P \in Nat, NEW CONSTANT R \in Nat,
         NEW CONSTANT K \in Nat, NEW CONSTANT W \in Nat, At(F, Q, P, R, K, W),
         UNCHANGED <<buffer, write_cursor, read_cursor, c>>, starving' \in {0, 1},
         p' \in Producers, NEW CONSTANT N \in Nat, Q <= N, N <= P, N % ALIGN = 0,
         p'.read_cursor_cache = N % Modulus, ProducerAt(N, W)'
  PROVE  TypeOK' /\ IsArray' /\ At(F, N, P, R, K, W)'
<1>1. FramesAt(F, W)' /\ ContentsAt(F, P)' /\ ConsumerAt(F, P, R, K)'
  BY FramesStill, ContentsShrink, ConsumerStill DEF At
<1>2. CursorsAt(Q, P, R, K, W)
  BY DEF At
<1>3. W <= N + Capacity
  BY <1>2, CapacityType DEF CursorsAt
<1>4. CursorsAt(N, P, R, K, W)'
  BY <1>2, <1>3 DEF CursorsAt
<1>5. TypeOK'
  BY TypeParts DEF TypeOK, Producers, Cursor
<1>6. IsArray'
  BY DEF IsArray, Places
<1> QED BY <1>1, <1>4, <1>5, <1>6 DEF At

LEMMA FrameStep ==
  ASSUME TypeOK, IsArray,
         NEW CONSTANT F, NEW CONSTANT Q \in Nat, NEW CONSTANT P \in Nat, NEW CONSTANT R \in Nat,
         NEW CONSTANT K \in Nat, NEW CONSTANT W \in Nat, At(F, Q, P, R, K, W),
         NEW len \in Lengths, NEW blocking \in BOOLEAN, Frame(len, blocking)
  PROVE  TypeOK' /\ IsArray' /\ At(F, Q, P, R, K, W)'
<1>1. p \in Producers /\ starving \in {0, 1}
  BY TypeParts
<1>2. p'.pc = "framed" /\ p'.len = len /\ p'.read_cursor_cache = p.read_cursor_cache
  BY <1>1 DEF Frame, Producers
<1>3. p' \in Producers
  BY <1>1 DEF Frame, Producers
<1>4. ProducerAt(Q, W)'
  BY <1>2 DEF ProducerAt, Busy, Frame
<1>5. Q <= P /\ Q % ALIGN = 0 /\ p.read_cursor_cache = Q % Modulus /\ Q <= Q
  BY DEF At, CursorsAt
<1>6. UNCHANGED <<buffer, write_cursor, read_cursor, starving, c>>
  BY DEF Frame
<1> QED BY <1>1, <1>2, <1>3, <1>4, <1>5, <1>6, ProducerMoves

\* What the producer knows of itself, in the words of the actions.
LEMMA ProducerFacts ==
  ASSUME TypeOK, IsArray,
         NEW CONSTANT F, NEW CONSTANT Q \in Nat, NEW CONSTANT P \in Nat, NEW CONSTANT R \in Nat,
         NEW CONSTANT K \in Nat, NEW CONSTANT W \in Nat, At(F, Q, P, R, K, W)
  PROVE  /\ Q <= P /\ W <= Q + Capacity /\ Q <= W /\ Q % 4 = 0 /\ P % 4 = 0 /\ W % 4 = 0
         /\ p.read_cursor_cache = Q % Modulus /\ write_cursor = W % Modulus /\ read_cursor = P % Modulus
         /\ P <= W /\ W <= P + Capacity
         /\ p \in Producers /\ starving \in {0, 1} /\ DOMAIN buffer = Places
         /\ p.pc \in Busy => p.len \in Nat /\ p.len \in Lengths /\ p.len <= max_message_len
<1>1. CursorsAt(Q, P, R, K, W) /\ ProducerAt(Q, W)
  BY DEF At
<1>2. P <= W /\ Q <= W
  BY <1>1 DEF CursorsAt
<1>3. W <= P + Capacity
  BY <1>1, CapacityType DEF CursorsAt
<1>4. p \in Producers /\ starving \in {0, 1} /\ DOMAIN buffer = Places
  BY TypeParts DEF IsArray
<1>5. p.pc \in Busy => p.len \in Nat /\ p.len \in Lengths /\ p.len <= max_message_len
  BY <1>1, LengthType DEF ProducerAt
<1>6. Q <= P /\ W <= Q + Capacity /\ Q % 4 = 0 /\ P % 4 = 0 /\ W % 4 = 0
  BY <1>1 DEF CursorsAt, ALIGN
<1>7. p.read_cursor_cache = Q % Modulus /\ write_cursor = W % Modulus /\ read_cursor = P % Modulus
  BY <1>1 DEF CursorsAt
<1> QED BY <1>2, <1>3, <1>4, <1>5, <1>6, <1>7

\* A push that goes on without room granted.
LEMMA Waits ==
  ASSUME NEW CONSTANT N \in Nat, NEW CONSTANT W \in Nat,
         p'.pc \in {"framed", "starved", "waiting"}, p'.len = p.len, p.len \in Lengths, p.len <= max_message_len
  PROVE  ProducerAt(N, W)'
BY DEF ProducerAt

\* A push that has room.
LEMMA Granted ==
  ASSUME NEW CONSTANT N \in Nat, NEW CONSTANT W \in Nat, UNCHANGED write_cursor,
         p'.pc = "granted", p'.len = p.len, p.len \in Lengths, p.len <= max_message_len,
         W + Total(p.len) <= N + Capacity
  PROVE  ProducerAt(N, W)'
<1>1. Total(p.len)' = Total(p.len)
  BY DEF Pad, Total, record_len, align_up, Position
<1> QED BY <1>1 DEF ProducerAt

LEMMA HasSpaceCachedStep ==
  ASSUME TypeOK, IsArray,
         NEW CONSTANT F, NEW CONSTANT Q \in Nat, NEW CONSTANT P \in Nat, NEW CONSTANT R \in Nat,
         NEW CONSTANT K \in Nat, NEW CONSTANT W \in Nat, At(F, Q, P, R, K, W),
         HasSpaceCached
  PROVE  TypeOK' /\ IsArray' /\ At(F, Q, P, R, K, W)'
<1>1. /\ Q <= P /\ W <= Q + Capacity /\ Q <= W /\ W % 4 = 0 /\ Q % ALIGN = 0
      /\ p.read_cursor_cache = Q % Modulus /\ write_cursor = W % Modulus
      /\ p \in Producers /\ starving \in {0, 1}
      /\ p.len \in Nat /\ p.len \in Lengths /\ p.len <= max_message_len
  BY ProducerFacts DEF HasSpaceCached, Busy, ALIGN
<1>2. W + Total(p.len) <= Q + Capacity
  BY <1>1, LacksOnCounts DEF HasSpaceCached
<1>3. /\ p' = [p EXCEPT !.pc = "granted", !.raised_starving = FALSE]
      /\ UNCHANGED <<buffer, write_cursor, read_cursor, c>> /\ starving' \in {0, 1}
  BY <1>1 DEF HasSpaceCached
<1>4. p' \in Producers /\ p'.pc = "granted" /\ p'.len = p.len /\ p'.read_cursor_cache = p.read_cursor_cache
  BY <1>1, <1>3 DEF Producers
<1>5. ProducerAt(Q, W)'
  BY <1>1, <1>2, <1>3, <1>4, Granted
<1> QED BY <1>1, <1>3, <1>4, <1>5, ProducerMoves

LEMMA HasSpaceReloadStep ==
  ASSUME TypeOK, IsArray,
         NEW CONSTANT F, NEW CONSTANT Q \in Nat, NEW CONSTANT P \in Nat, NEW CONSTANT R \in Nat,
         NEW CONSTANT K \in Nat, NEW CONSTANT W \in Nat, At(F, Q, P, R, K, W),
         HasSpaceReload
  PROVE  TypeOK' /\ IsArray' /\ At(F, P, P, R, K, W)'
<1>1. /\ Q <= P /\ P <= W /\ W <= P + Capacity /\ W % 4 = 0 /\ P % ALIGN = 0 /\ P <= P
      /\ read_cursor = P % Modulus /\ write_cursor = W % Modulus
      /\ p \in Producers /\ starving \in {0, 1} /\ read_cursor \in Cursor
      /\ p.len \in Nat /\ p.len \in Lengths /\ p.len <= max_message_len
  BY ProducerFacts, TypeParts DEF HasSpaceReload, Busy, ALIGN
<1>2. Lacks(read_cursor) <=> ~(W + Total(p.len) <= P + Capacity)
  BY <1>1, LacksOnCounts
<1>3. /\ p' = [p EXCEPT !.read_cursor_cache = read_cursor,
                        !.pc = IF Lacks(read_cursor) THEN "starved" ELSE "granted"]
      /\ UNCHANGED <<buffer, write_cursor, read_cursor, c>> /\ starving' \in {0, 1}
  BY <1>1 DEF HasSpaceReload
<1>4. /\ p' \in Producers /\ p'.len = p.len /\ p'.read_cursor_cache = P % Modulus
      /\ p'.pc = IF Lacks(read_cursor) THEN "starved" ELSE "granted"
  BY <1>1, <1>3 DEF Producers
<1>5. ProducerAt(P, W)'
  <2>1. CASE Lacks(read_cursor)
    BY <1>1, <1>4, <2>1, Waits
  <2>2. CASE ~Lacks(read_cursor)
    BY <1>1, <1>2, <1>3, <1>4, <2>2, Granted
  <2> QED BY <2>1, <2>2
<1> QED BY <1>1, <1>3, <1>4, <1>5, ProducerMoves

\* A push that gives up, was never begun, or ends without its record.
LEMMA Rests ==
  ASSUME NEW CONSTANT N \in Nat, NEW CONSTANT W \in Nat, p'.pc \in {"idle", "dropped"}
  PROVE  ProducerAt(N, W)'
BY DEF ProducerAt, Busy

LEMMA RaiseStarvingStep ==
  ASSUME TypeOK, IsArray,
         NEW CONSTANT F, NEW CONSTANT Q \in Nat, NEW CONSTANT P \in Nat, NEW CONSTANT R \in Nat,
         NEW CONSTANT K \in Nat, NEW CONSTANT W \in Nat, At(F, Q, P, R, K, W),
         RaiseStarving
  PROVE  TypeOK' /\ IsArray' /\ At(F, Q, P, R, K, W)'
<1>1. /\ Q <= P /\ Q <= Q /\ Q % ALIGN = 0 /\ p.read_cursor_cache = Q % Modulus /\ p \in Producers
      /\ p.len \in Lengths /\ p.len <= max_message_len
  BY ProducerFacts DEF RaiseStarving, Busy, ALIGN
<1>2. /\ p' = [p EXCEPT !.raised_starving = TRUE, !.pc = IF p.blocking THEN "waiting" ELSE "idle"]
      /\ UNCHANGED <<buffer, write_cursor, read_cursor, c>> /\ starving' \in {0, 1}
  BY DEF RaiseStarving
<1>3. /\ p'.len = p.len /\ p'.read_cursor_cache = p.read_cursor_cache /\ p'.pc \in {"waiting", "idle"}
      /\ p' \in Producers
  BY <1>1, <1>2 DEF Producers
<1>4. ProducerAt(Q, W)'
  <2>1. CASE p'.pc = "waiting"
    BY <1>1, <1>3, <2>1, Waits
  <2>2. CASE p'.pc = "idle"
    BY <2>2, Rests
  <2> QED BY <1>3, <2>1, <2>2
<1> QED BY <1>1, <1>2, <1>3, <1>4, ProducerMoves

LEMMA AbandonStep ==
  ASSUME TypeOK, IsArray,
         NEW CONSTANT F, NEW CONSTANT Q \in Nat, NEW CONSTANT P \in Nat, NEW CONSTANT R \in Nat,
         NEW CONSTANT K \in Nat, NEW CONSTANT W \in Nat, At(F, Q, P, R, K, W),
         Abandon \/ DropProducer
  PROVE  TypeOK' /\ IsArray' /\ At(F, Q, P, R, K, W)'
<1>1. /\ Q <= P /\ Q <= Q /\ Q % ALIGN = 0 /\ p.read_cursor_cache = Q % Modulus /\ p \in Producers
      /\ starving \in {0, 1}
  BY ProducerFacts DEF ALIGN
<1>2. /\ \/ p' = [p EXCEPT !.pc = "idle", !.len = 0, !.blocking = FALSE]
         \/ p' = [p EXCEPT !.pc = "dropped"]
      /\ UNCHANGED <<buffer, write_cursor, read_cursor, starving, c>>
  BY DEF Abandon, DropProducer
<1>3. p'.read_cursor_cache = p.read_cursor_cache /\ p'.pc \in {"idle", "dropped"} /\ p' \in Producers
  BY <1>1, <1>2 DEF Producers
<1>4. ProducerAt(Q, W)'
  BY <1>3, Rests
<1> QED BY <1>1, <1>2, <1>3, <1>4, ProducerMoves

\* A step of the producer's that writes within the frame in hand.
LEMMA ProducerWrites ==
  ASSUME TypeOK, IsArray,
         NEW CONSTANT F, NEW CONSTANT Q \in Nat, NEW CONSTANT P \in Nat, NEW CONSTANT R \in Nat,
         NEW CONSTANT K \in Nat, NEW CONSTANT W \in Nat, At(F, Q, P, R, K, W),
         UNCHANGED <<write_cursor, read_cursor, starving, c>>,
         p' \in Producers, p'.read_cursor_cache = p.read_cursor_cache, ProducerAt(Q, W)',
         NEW CONSTANT E \in Nat, WritesInside(W, E), E <= Q + Capacity, IsArray',
         \A w \in Places : buffer'[w] \in Nat \union {PADDING}
  PROVE  TypeOK' /\ At(F, Q, P, R, K, W)'
<1>1. CursorsAt(Q, P, R, K, W) /\ FramesAt(F, W) /\ ContentsAt(F, P) /\ ConsumerAt(F, P, R, K)
  BY DEF At
<1>2. E <= P + Capacity /\ DOMAIN buffer = Places
  BY <1>1, CapacityType DEF CursorsAt, IsArray
<1>3. ContentsAt(F, P)'
  BY <1>1, <1>2, ContentsOver
<1>4. FramesAt(F, W)' /\ ConsumerAt(F, P, R, K)'
  BY <1>1, FramesStill, ConsumerStill
<1>5. CursorsAt(Q, P, R, K, W)'
  BY <1>1 DEF CursorsAt
<1>6. TypeOK'
  <2>1. DOMAIN buffer' = Places
    BY DEF WritesInside
  <2>2. \A w \in DOMAIN buffer' : buffer'[w] \in Nat \union {PADDING}
    BY <2>1
  <2>3. p' \in Producers /\ c' \in Consumers
    BY TypeParts
  <2> QED BY <2>2, <2>3, TypeParts DEF TypeOK, Producers, Consumers, Cursor
<1> QED BY <1>3, <1>4, <1>5, <1>6 DEF At

LEMMA WritePayloadStep ==
  ASSUME TypeOK, IsArray,
         NEW CONSTANT F, NEW CONSTANT Q \in Nat, NEW CONSTANT P \in Nat, NEW CONSTANT R \in Nat,
         NEW CONSTANT K \in Nat, NEW CONSTANT W \in Nat, At(F, Q, P, R, K, W),
         NEW v \in Words, WritePayload(v)
  PROVE  TypeOK' /\ IsArray' /\ At(F, Q, P, R, K, W)'
<1>1. /\ Q <= W /\ W % 4 = 0 /\ write_cursor = W % Modulus
      /\ p \in Producers /\ DOMAIN buffer = Places
      /\ p.len \in Nat /\ p.len \in Lengths /\ p.len <= max_message_len
  BY ProducerFacts DEF WritePayload, Busy
<1>2. W + Total(p.len) <= Q + Capacity /\ v \in Nat
  BY BytesAssumption DEF BytesAssumption, At, ProducerAt, WritePayload
<1>3. /\ p' = [p EXCEPT !.pc = "filled"] /\ UNCHANGED <<write_cursor, read_cursor, starving, c>>
      /\ DOMAIN buffer' = Places
      /\ \A w \in Places : buffer'[w] = IF w \in PayloadAt(RecordAt, p.len) THEN v ELSE buffer[w]
      /\ IsArray'
  BY <1>1 DEF WritePayload, IsArray, Places
<1>4. /\ WellFramed(Pending(W, v)) /\ RecordAt = Position(W + Pad(p.len))
      /\ W + Total(p.len) \in Nat /\ W + Pad(p.len) \in Nat
  BY <1>1, <1>2, PendingFits
<1>5. PICK f : f = Pending(W, v)
  OBVIOUS
<1>6. /\ f.start = W /\ f.at = W + Pad(p.len) /\ f.end = W + Total(p.len) /\ f.len = p.len /\ f.word = v
      /\ WellFramed(f)
  BY <1>4, <1>5 DEF Pending
<1>7. WritesInside(W, W + Total(p.len))
  <2> SUFFICES ASSUME NEW w \in PayloadAt(RecordAt, p.len)
               PROVE  \E y \in Nat : W <= y /\ y < W + Total(p.len) /\ w = Position(y)
    BY <1>3 DEF WritesInside
  <2>1. PICK y \in Nat : f.at <= y /\ y < f.end /\ w = Position(y)
    BY <1>1, <1>4, <1>6, WordOf
  <2>2. W <= f.at /\ f.at \in Nat
    BY <1>6, Framed
  <2> QED BY <1>6, <2>1, <2>2
<1>8. \A w \in Places : buffer'[w] \in Nat \union {PADDING}
  BY <1>1, <1>2, <1>3, TypeParts
<1>9. p' \in Producers /\ p'.read_cursor_cache = p.read_cursor_cache /\ p'.pc = "filled" /\ p'.len = p.len
  BY <1>1, <1>3 DEF Producers
<1>10. Pad(p.len)' = Pad(p.len) /\ Total(p.len)' = Total(p.len)
  BY <1>3, <1>9 DEF Pad, Total, record_len, align_up, Position
<1>11. Pending(W, v)' = f
  BY <1>5, <1>9, <1>10 DEF Pending
<1>12. HeldPayload(Pending(W, v))'
  <2>1. PayloadAt(Position(f.at), f.len)' = PayloadAt(RecordAt, p.len)
    BY <1>1, <1>3, <1>4, <1>6 DEF PayloadAt, Position, record_len, align_up
  <2>2. \A w \in PayloadAt(RecordAt, p.len) : w \in Places /\ buffer'[w] = v
    BY <1>1, <1>3 DEF PayloadAt
  <2>3. HeldPayload(f)'
    BY <1>6, <2>1, <2>2 DEF HeldPayload, Position
  <2> QED BY <2>3, <1>11 DEF HeldPayload, PayloadAt, Position
<1>13. ProducerAt(Q, W)'
  BY <1>1, <1>2, <1>9, <1>10, <1>12 DEF ProducerAt, Busy
<1> QED BY <1>2, <1>3, <1>4, <1>7, <1>8, <1>9, <1>13, ProducerWrites

LEMMA WriteFrameStep ==
  ASSUME TypeOK, IsArray,
         NEW CONSTANT F, NEW CONSTANT Q \in Nat, NEW CONSTANT P \in Nat, NEW CONSTANT R \in Nat,
         NEW CONSTANT K \in Nat, NEW CONSTANT W \in Nat, At(F, Q, P, R, K, W),
         WriteFrame
  PROVE  TypeOK' /\ IsArray' /\ At(F, Q, P, R, K, W)'
<1>1. /\ Q <= W /\ W % 4 = 0 /\ write_cursor = W % Modulus
      /\ p \in Producers /\ DOMAIN buffer = Places
      /\ p.len \in Nat /\ p.len \in Lengths /\ p.len <= max_message_len
  BY ProducerFacts DEF WriteFrame, Busy
<1>2. W + Total(p.len) <= Q + Capacity
  BY DEF At, ProducerAt, WriteFrame
<1>0. PICK v \in Words : HeldPayload(Pending(W, v))
  BY DEF At, ProducerAt, WriteFrame
<1>3. /\ p' = [p EXCEPT !.pc = "written"] /\ UNCHANGED <<write_cursor, read_cursor, starving, c>>
      /\ DOMAIN buffer' = Places
      /\ \A w \in Places : buffer'[w] = IF w = RecordAt THEN p.len
           ELSE IF w = Position(write_cursor) /\ Pad(p.len) > 0 THEN PADDING ELSE buffer[w]
      /\ IsArray'
  BY <1>1 DEF WriteFrame, IsArray, Places
<1>4. /\ WellFramed(Pending(W, v)) /\ RecordAt = Position(W + Pad(p.len))
      /\ W + Total(p.len) \in Nat /\ W + Pad(p.len) \in Nat /\ Position(write_cursor) = Position(W)
      /\ W + Total(p.len) = (W + Pad(p.len)) + record_len(p.len)
  BY <1>1, <1>2, PendingFits
<1>5. PICK f : f = Pending(W, v)
  OBVIOUS
<1>6. /\ f.start = W /\ f.at = W + Pad(p.len) /\ f.end = W + Total(p.len) /\ f.len = p.len /\ f.word = v
      /\ WellFramed(f)
  BY <1>4, <1>5 DEF Pending
<1>7. WritesInside(W, W + Total(p.len))
  <2>1. W <= W + Pad(p.len) /\ W + Pad(p.len) < W + Total(p.len) /\ W < W + Total(p.len)
    <3>1. f.start <= f.at /\ f.at + 4 <= f.end /\ f.start \in Nat /\ f.at \in Nat /\ f.end \in Nat
      BY <1>6, Framed
    <3>2. f.start <= f.at /\ f.at < f.end /\ f.start < f.end
      BY <3>1
    <3> QED BY <1>6, <3>2
  <2> QED BY <1>3, <1>4, <2>1 DEF WritesInside
<1>8. \A w \in Places : buffer'[w] \in Nat \union {PADDING}
  BY <1>1, <1>3, TypeParts
<1>9. p' \in Producers /\ p'.read_cursor_cache = p.read_cursor_cache /\ p'.pc = "written" /\ p'.len = p.len
  BY <1>1, <1>3 DEF Producers
<1>10. Pad(p.len)' = Pad(p.len) /\ Total(p.len)' = Total(p.len)
  BY <1>3, <1>9 DEF Pad, Total, record_len, align_up, Position
<1>11. Pending(W, v)' = f
  BY <1>5, <1>9, <1>10 DEF Pending
<1>12. /\ RecordAt \in Places /\ RecordAt \in Nat
       /\ Position(W) \in Places /\ Position(W) \in Nat
       /\ Position(W) + ToEnd(W) = Capacity /\ ToEnd(W) \in Nat
  <2>1. f.at % 4 = 0 /\ f.at \in Nat
    BY <1>6, Framed
  <2> QED BY <1>1, <1>4, <1>6, <2>1, PositionWord, PositionType
<1>13. record_len(p.len) \in Nat /\ record_len(p.len) >= 4
  BY <1>1, RecordLen
<1>14. Pad(p.len) > 0 => /\ Position(W) # RecordAt
                         /\ Position(W) \notin PayloadAt(RecordAt, p.len)
  <2> SUFFICES ASSUME Pad(p.len) > 0
               PROVE  Position(W) # RecordAt /\ Position(W) \notin PayloadAt(RecordAt, p.len)
    OBVIOUS
  <2>1. Pad(p.len) = ToEnd(W)
    BY <1>1, Fits
  <2>2. RecordAt = 0
    BY <1>4, <2>1, PositionWrap
  <2>3. record_len(p.len) <= Position(W)
    <3>1. f.end <= f.start + Capacity
      BY <1>6, Framed
    <3>2. W + Total(p.len) <= W + Capacity /\ W + Total(p.len) = (W + ToEnd(W)) + record_len(p.len)
      BY <1>4, <1>6, <2>1, <3>1
    <3> QED BY <1>4, <1>12, <1>13, <3>2, CapacityType
  <2>4. ~(Position(W) < RecordAt + record_len(p.len)) /\ Position(W) # RecordAt
    BY <1>12, <1>13, <2>2, <2>3
  <2> QED BY <2>4 DEF PayloadAt
<1>15. HeldRecord(f, 0)'
  <2>1. PayloadAt(Position(f.at), f.len)' = PayloadAt(RecordAt, p.len)
    BY <1>1, <1>3, <1>4, <1>6 DEF PayloadAt, Position, record_len, align_up
  <2>2. ASSUME NEW w \in PayloadAt(RecordAt, p.len) PROVE buffer'[w] = v
    <3>1. w \in Places /\ RecordAt + 4 <= w
      BY <1>1 DEF PayloadAt, HEADER
    <3>2. w # RecordAt
      BY <1>12, <3>1
    <3>3. ~(w = Position(write_cursor) /\ Pad(p.len) > 0)
      BY <1>4, <1>14
    <3>4. buffer'[w] = buffer[w]
      BY <1>3, <3>1, <3>2, <3>3
    <3>5. buffer[w] = v
      BY <1>0, <1>4, <1>5, <1>6 DEF HeldPayload
    <3> QED BY <3>4, <3>5
  <2>3. buffer'[RecordAt] = p.len
    BY <1>3, <1>12
  <2>4. Position(f.at) = RecordAt
    BY <1>4, <1>6
  <2> QED BY <1>6, <2>1, <2>2, <2>3, <2>4 DEF HeldRecord, HeldPayload, Position
<1>16. HeldPadding(f, 0)'
  <2> SUFFICES ASSUME W + Pad(p.len) # W PROVE buffer'[Position(W)] = PADDING
    BY <1>6 DEF HeldPadding, Position
  <2>1. Pad(p.len) > 0
    BY <1>1, Fits
  <2> QED BY <1>3, <1>4, <1>12, <1>14, <2>1
<1>17. Held(Pending(W, v), 0)'
  BY <1>11, <1>15, <1>16 DEF Held, HeldPadding, HeldRecord, HeldPayload, PayloadAt, Position
<1>18. ProducerAt(Q, W)'
  BY <1>1, <1>2, <1>9, <1>10, <1>17 DEF ProducerAt, Busy
<1> QED BY <1>2, <1>3, <1>4, <1>7, <1>8, <1>9, <1>18, ProducerWrites

\* A history goes on with the frame that is published.
LEMMA Appended ==
  ASSUME NEW CONSTANT F, NEW CONSTANT W \in Nat, FramesAt(F, W),
         NEW CONSTANT f, WellFramed(f), f.start = W, NEW CONSTANT G, G = Append(F, f)
  PROVE  /\ FramesAt(G, f.end) /\ Len(G) = Len(F) + 1 /\ Len(F) \in Nat
         /\ \A n \in 1 .. Len(F) : n \in 1 .. Len(G) /\ G[n] = F[n]
         /\ \A n \in 0 .. Len(F) : n \in 0 .. Len(G) /\ End(G, n) = End(F, n)
         /\ G[Len(F) + 1] = f
<1>1. f \in Frames /\ f.end \in Nat /\ f.start < f.end
  <2>1. f.start \in Nat /\ f.at \in Nat /\ f.end \in Nat /\ f.start <= f.at /\ f.at + 4 <= f.end
    BY Framed
  <2> QED BY <2>1 DEF WellFramed
<1>2. Len(F) \in Nat /\ F \in Seq(Frames) /\ End(F, Len(F)) = W
  BY LenProperties DEF FramesAt
<1>3. /\ G \in Seq(Frames) /\ Len(G) = Len(F) + 1 /\ G[Len(F) + 1] = f
      /\ \A n \in 1 .. Len(F) : G[n] = F[n]
  BY <1>1, <1>2, AppendProperties
<1>4. \A n \in 0 .. Len(F) : n \in 0 .. Len(G) /\ End(G, n) = End(F, n)
  <2> TAKE n \in 0 .. Len(F)
  <2>1. n \in 0 .. Len(G) /\ (n = 0 \/ n \in 1 .. Len(F))
    BY <1>2, <1>3
  <2> QED BY <1>3, <2>1 DEF End
<1>5. End(G, Len(G)) = f.end
  BY <1>2, <1>3 DEF End
<1>6. ASSUME NEW n \in 1 .. Len(G) PROVE WellFramed(G[n]) /\ G[n].start = End(G, n - 1)
  <2>1. CASE n \in 1 .. Len(F)
    <3>1. G[n] = F[n] /\ n - 1 \in 0 .. Len(F)
      BY <1>2, <1>3, <2>1
    <3>2. WellFramed(F[n]) /\ F[n].start = End(F, n - 1) /\ End(G, n - 1) = End(F, n - 1)
      BY <1>4, <2>1, <3>1 DEF FramesAt
    <3> QED BY <3>1, <3>2
  <2>2. CASE n = Len(F) + 1
    <3>1. n - 1 = Len(F) /\ Len(F) \in 0 .. Len(F)
      BY <1>2, <2>2
    <3>2. End(G, n - 1) = W
      BY <1>2, <1>4, <3>1
    <3> QED BY <1>3, <2>2, <3>2
  <2> QED BY <1>2, <1>3, <2>1, <2>2
<1>7. ASSUME NEW m \in 0 .. Len(G), NEW n \in 0 .. Len(G), m < n PROVE End(G, m) < End(G, n)
  <2>1. m \in 0 .. Len(F) /\ End(G, m) = End(F, m) /\ End(F, m) \in Nat /\ End(F, m) <= W
    <3>1. m \in 0 .. Len(F)
      BY <1>2, <1>3, <1>7
    <3> QED BY <1>4, <3>1, EndType
  <2>2. CASE n \in 0 .. Len(F)
    <3>1. End(F, m) < End(F, n) /\ End(G, n) = End(F, n)
      BY <1>4, <1>7, <2>1, <2>2 DEF FramesAt
    <3> QED BY <2>1, <3>1
  <2>3. CASE n = Len(G)
    BY <1>1, <1>5, <2>1, <2>3
  <2> QED BY <1>2, <1>3, <2>2, <2>3
<1>8. FramesAt(G, f.end)
  BY <1>3, <1>5, <1>6, <1>7 DEF FramesAt
<1>9. \A n \in 1 .. Len(F) : n \in 1 .. Len(G) /\ G[n] = F[n]
  BY <1>2, <1>3
<1> QED BY <1>2, <1>3, <1>4, <1>8, <1>9

LEMMA PublishStep ==
  ASSUME TypeOK, IsArray,
         NEW CONSTANT F, NEW CONSTANT Q \in Nat, NEW CONSTANT P \in Nat, NEW CONSTANT R \in Nat,
         NEW CONSTANT K \in Nat, NEW CONSTANT W \in Nat, At(F, Q, P, R, K, W),
         Publish
  PROVE  /\ TypeOK' /\ IsArray'
         /\ \E f \in Frames, E \in Nat : Append(F, f) \in Seq(Frames) /\ At(Append(F, f), Q, P, R, K, E)'
<1>1. /\ Q <= W /\ W % 4 = 0 /\ write_cursor = W % Modulus
      /\ p \in Producers /\ DOMAIN buffer = Places
      /\ p.len \in Nat /\ p.len \in Lengths /\ p.len <= max_message_len
  BY ProducerFacts DEF Publish, Busy
<1>2. W + Total(p.len) <= Q + Capacity
  BY DEF At, ProducerAt, Publish
<1>0. PICK v \in Words : Held(Pending(W, v), 0)
  BY DEF At, ProducerAt, Publish
<1>3. /\ p' = [p EXCEPT !.pc = "idle", !.len = 0, !.blocking = FALSE]
      /\ UNCHANGED <<buffer, read_cursor, starving, c>>
      /\ write_cursor' = Add(write_cursor, Total(p.len))
  BY DEF Publish
<1>4. WellFramed(Pending(W, v))
  BY <1>1, <1>2, PendingFits
<1>5. PICK f : f = Pending(W, v)
  OBVIOUS
<1>6. /\ f.start = W /\ f.end = W + Total(p.len) /\ f.len = p.len /\ WellFramed(f) /\ Held(f, 0)
  BY <1>0, <1>4, <1>5 DEF Pending
<1>7. /\ f.start \in Nat /\ f.at \in Nat /\ f.end \in Nat /\ f.end % 4 = 0 /\ f.start <= f.at /\ f.at + 4 <= f.end
  BY <1>6, Framed
<1>8. PICK G : G = Append(F, f)
  OBVIOUS
<1>9. CursorsAt(Q, P, R, K, W) /\ FramesAt(F, W) /\ ContentsAt(F, P) /\ ConsumerAt(F, P, R, K)
  BY DEF At
<1>10. /\ FramesAt(G, f.end) /\ Len(G) = Len(F) + 1 /\ Len(F) \in Nat
       /\ \A n \in 1 .. Len(F) : n \in 1 .. Len(G) /\ G[n] = F[n]
       /\ \A n \in 0 .. Len(F) : n \in 0 .. Len(G) /\ End(G, n) = End(F, n)
       /\ G[Len(F) + 1] = f
  <2>1. FramesAt(F, W) /\ WellFramed(f) /\ f.start = W /\ W \in Nat
    BY <1>6, <1>9
  <2>2. FramesAt(G, f.end) /\ Len(G) = Len(F) + 1 /\ Len(F) \in Nat
    BY <2>1, <1>8, Appended, Zenon
  <2>3. \A n \in 1 .. Len(F) : n \in 1 .. Len(G) /\ G[n] = F[n]
    BY <2>1, <1>8, Appended
  <2>4. ASSUME NEW n \in 0 .. Len(F) PROVE n \in 0 .. Len(G) /\ End(G, n) = End(F, n)
    <3>1. n \in 0 .. Len(G) /\ (n = 0 \/ n \in 1 .. Len(F))
      BY <2>2
    <3> QED BY <3>1, <2>3 DEF End
  <2>5. G[Len(F) + 1] = f
    BY <2>1, <1>8, Appended, SMT
  <2> QED BY <2>2, <2>3, <2>4, <2>5
<1>11. ContentsAt(G, P)'
  <2>1. ContentsAt(F, P)'
    BY <1>3, <1>9, ContentsShrink
  <2>2. Held(f, P)'
    BY <1>3, <1>6, <1>7 DEF Held, HeldPadding, HeldRecord, HeldPayload, PayloadAt, Position, record_len, align_up
  <2>3. ASSUME NEW n \in 1 .. Len(G) PROVE Held(G[n], P)'
    <3>1. CASE n \in 1 .. Len(F)
      <4>1. PICK g : g = F[n]
        OBVIOUS
      <4>2. Held(g, P)'
        BY <2>1, <3>1, <4>1 DEF ContentsAt
      <4> QED BY <1>10, <3>1, <4>1, <4>2
    <3>2. CASE n = Len(F) + 1
      BY <1>10, <2>2, <3>2
    <3> QED BY <1>10, <3>1, <3>2
  <2> QED BY <2>3 DEF ContentsAt
<1>12. CursorsAt(Q, P, R, K, f.end)'
  <2>1. write_cursor' = f.end % Modulus
    <3>1. Total(p.len) \in Nat
      BY <1>1, Fits
    <3> QED BY <1>1, <1>3, <1>6, <3>1, CursorOfCount
  <2>2. p'.read_cursor_cache = p.read_cursor_cache
    BY <1>1, <1>3 DEF Producers
  <2>3. K <= f.end /\ f.end <= Q + Capacity
    BY <1>2, <1>6, <1>7, <1>9 DEF CursorsAt
  <2> QED BY <1>3, <1>7, <1>9, <2>1, <2>2, <2>3 DEF CursorsAt, ALIGN
<1>13. ProducerAt(Q, f.end)'
  <2>1. p'.pc = "idle"
    BY <1>1, <1>3 DEF Producers
  <2> QED BY <2>1, <1>7, Rests
<1>14. ConsumerAt(G, P, R, K)
  <2>1. Stands(F, R, K) => Stands(G, R, K)
    BY <1>10 DEF Stands
  <2>2. Lent(F, R, K) => Lent(G, R, K)
    BY <1>10 DEF Lent
  <2>3. CalledBack(F, P, R, K) => CalledBack(G, P, R, K)
    BY <1>10 DEF CalledBack
  <2>4. \E n \in 0 .. Len(G) : K = End(G, n)
    BY <1>9, <1>10 DEF ConsumerAt
  <2> QED BY <1>9, <2>1, <2>2, <2>3, <2>4 DEF ConsumerAt
<1>15. ConsumerAt(G, P, R, K)' /\ FramesAt(G, f.end)'
  BY <1>3, <1>10, <1>14, ConsumerStill, FramesStill
<1>16. TypeOK'
  <2>1. write_cursor' \in Cursor
    <3>1. f.end % Modulus \in Cursor
      BY <1>7, CursorOfCount
    <3> QED BY <1>12, <3>1 DEF CursorsAt
  <2>2. p' \in Producers
    BY <1>1, <1>3 DEF Producers
  <2> QED BY <1>3, <2>1, <2>2, TypeParts DEF TypeOK, Producers, Consumers, Cursor
<1>17. IsArray'
  BY <1>3 DEF IsArray, Places
<1>18. At(G, Q, P, R, K, f.end)' /\ G \in Seq(Frames)
  BY <1>10, <1>11, <1>12, <1>13, <1>15 DEF At, FramesAt
<1> QED BY <1>7, <1>8, <1>16, <1>17, <1>18

-----------------------------------------------------------------------------
(* The consumer *)

LEMMA WordAt ==
  ASSUME NEW x \in Nat
  PROVE  Word(Position(x)) = buffer[Position(x)]
BY PositionType DEF Word

\* What decode_record finds at the start of a frame, or past its padding.
LEMMA Decode ==
  ASSUME NEW f, WellFramed(f), NEW P \in Nat, Held(f, P),
         NEW R, R \in {f.start, f.at}, P <= R
  PROVE  decode_record(R % Modulus) = [cur |-> f.at % Modulus, len |-> f.len]
<1>1. /\ f.start \in Nat /\ f.at \in Nat /\ f.len \in Nat /\ f.start <= f.at /\ R \in Nat /\ P <= f.at
  BY Framed
<1>2. buffer[Position(f.at)] = f.len
  BY <1>1 DEF Held, HeldRecord
<1>3. Position(R % Modulus) = Position(R) /\ Position(f.at % Modulus) = Position(f.at)
  BY <1>1, CursorOfCount
<1>4. Word(Position(f.at % Modulus)) = f.len
  BY <1>1, <1>2, <1>3, WordAt
<1> DEFINE skip == IF Word(Position(R % Modulus)) = PADDING
                   THEN Capacity - Position(R % Modulus) ELSE 0
<1>5. Add(R % Modulus, skip) = f.at % Modulus
  <2>1. CASE R = f.at
    <3>1. Word(Position(R % Modulus)) # PADDING
      BY <1>1, <1>4, <2>1 DEF PADDING
    <3>2. skip = 0
      BY <3>1
    <3>3. Add(R % Modulus, 0) = (R + 0) % Modulus
      BY <1>1, CursorOfCount
    <3>4. R + 0 = f.at
      BY <1>1, <2>1
    <3> QED BY <3>2, <3>3, <3>4
  <2>2. CASE R # f.at
    <3>1. R = f.start
      BY <2>2
    <3>2. buffer[Position(R)] = PADDING
      BY <2>2, <3>1 DEF Held, HeldPadding
    <3>3. Word(Position(R % Modulus)) = PADDING
      BY <1>1, <1>3, <3>2, WordAt
    <3>4. skip = ToEnd(R)
      BY <1>3, <3>3 DEF ToEnd
    <3>5. ToEnd(R) \in Nat /\ R + ToEnd(R) = f.at
      BY <1>1, <2>2, <3>1, PositionType DEF WellFramed
    <3>6. Add(R % Modulus, ToEnd(R)) = (R + ToEnd(R)) % Modulus
      BY <1>1, <3>5, CursorOfCount
    <3> QED BY <3>4, <3>5, <3>6
  <2> QED BY <2>1, <2>2
<1> QED BY <1>4, <1>5 DEF decode_record

LEMMA ConsumerFacts ==
  ASSUME TypeOK,
         NEW CONSTANT F, NEW CONSTANT Q \in Nat, NEW CONSTANT P \in Nat, NEW CONSTANT R \in Nat,
         NEW CONSTANT K \in Nat, NEW CONSTANT W \in Nat, At(F, Q, P, R, K, W)
  PROVE  /\ Q <= P /\ P <= R /\ R <= K /\ K <= W /\ W <= P + Capacity
         /\ W <= R + Capacity /\ K <= R + Capacity
         /\ P % 4 = 0 /\ R % 4 = 0 /\ K % 4 = 0 /\ W % 4 = 0
         /\ read_cursor = P % Modulus /\ c.published = P % Modulus
         /\ c.read_cursor = R % Modulus /\ c.write_cursor_cache = K % Modulus
         /\ write_cursor = W % Modulus /\ c \in Consumers /\ starving \in {0, 1}
         /\ FramesAt(F, W) /\ ContentsAt(F, P) /\ ConsumerAt(F, P, R, K)
<1>1. CursorsAt(Q, P, R, K, W) /\ FramesAt(F, W) /\ ContentsAt(F, P) /\ ConsumerAt(F, P, R, K)
  BY DEF At
<1>2. Q <= P /\ P <= R /\ R <= K /\ K <= W /\ W <= Q + Capacity
  BY <1>1 DEF CursorsAt
<1>3. W <= P + Capacity /\ W <= R + Capacity /\ K <= R + Capacity
  BY <1>2, CapacityType
<1>4. P % 4 = 0 /\ R % 4 = 0 /\ K % 4 = 0 /\ W % 4 = 0
  BY <1>1 DEF CursorsAt, ALIGN
<1>5. c \in Consumers /\ starving \in {0, 1}
  BY TypeParts
<1> QED BY <1>1, <1>2, <1>3, <1>4, <1>5 DEF CursorsAt

\* A step of the consumer's: it writes nothing, and its cursors only rise.
LEMMA ConsumerMoves ==
  ASSUME TypeOK, IsArray,
         NEW CONSTANT F, NEW CONSTANT Q \in Nat, NEW CONSTANT P \in Nat, NEW CONSTANT R \in Nat,
         NEW CONSTANT K \in Nat, NEW CONSTANT W \in Nat, At(F, Q, P, R, K, W),
         UNCHANGED <<buffer, write_cursor, starving, p>>, c' \in Consumers,
         NEW CONSTANT N \in Nat, NEW CONSTANT S \in Nat, NEW CONSTANT L \in Nat,
         P <= N, N <= S, S <= L, L <= W, N % 4 = 0, S % 4 = 0, L % 4 = 0,
         read_cursor' = N % Modulus, c'.published = N % Modulus,
         c'.read_cursor = S % Modulus, c'.write_cursor_cache = L % Modulus,
         ConsumerAt(F, N, S, L)'
  PROVE  TypeOK' /\ IsArray' /\ At(F, Q, N, S, L, W)'
<1>1. CursorsAt(Q, P, R, K, W) /\ FramesAt(F, W) /\ ContentsAt(F, P) /\ ProducerAt(Q, W)
  BY DEF At
<1>2. FramesAt(F, W)' /\ ContentsAt(F, N)' /\ ProducerAt(Q, W)'
  BY <1>1, FramesStill, ContentsShrink, ProducerStill
<1>3. CursorsAt(Q, N, S, L, W)'
  <2>1. Q <= N
    BY <1>1 DEF CursorsAt
  <2> QED BY <1>1, <2>1 DEF CursorsAt, ALIGN
<1>4. At(F, Q, N, S, L, W)'
  BY <1>2, <1>3 DEF At
<1>5. read_cursor' \in Cursor
  BY CursorOfCount
<1>6. TypeOK'
  BY <1>5, TypeParts DEF TypeOK, Producers, Consumers, Cursor
<1>7. IsArray'
  BY DEF IsArray, Places
<1> QED BY <1>4, <1>6, <1>7

\* The consumer after a fresh load of the write cursor.
LEMMA CaughtUp ==
  ASSUME NEW F, NEW P \in Nat, NEW R \in Nat, NEW K \in Nat, NEW W \in Nat,
         FramesAt(F, W), R <= K, K <= W,
         \E n \in 0 .. Len(F) : K = End(F, n), R = K \/ Stands(F, R, K)
  PROVE  /\ \E n \in 0 .. Len(F) : W = End(F, n)
         /\ R = W \/ (R < W /\ Stands(F, R, W))
<1>0. Len(F) \in Nat /\ End(F, Len(F)) = W
  BY LenProperties DEF FramesAt
<1>1. \E n \in 0 .. Len(F) : W = End(F, n)
  BY <1>0
<1>2. CASE R = K
  <2>1. \E n \in 0 .. Len(F) : R = End(F, n)
    BY <1>2
  <2> QED BY <1>1, <2>1, Onward
<1>3. CASE Stands(F, R, K)
  <2>1. PICK n \in 1 .. Len(F) : R \in {F[n].start, F[n].at} /\ F[n].end <= K
    BY <1>3 DEF Stands
  <2>2. PICK f : f = F[n]
    OBVIOUS
  <2>3. /\ f.start \in Nat /\ f.at \in Nat /\ f.end \in Nat /\ f.start <= f.at /\ f.at + 4 <= f.end
    BY <2>2, FrameAt, Framed
  <2>4. R < f.end /\ f.end <= W
    BY <2>1, <2>2, <2>3
  <2>5. R < W
    BY <2>3, <2>4
  <2>6. Stands(F, R, W)
    BY <2>1, <2>2, <2>4 DEF Stands
  <2> QED BY <1>1, <2>5, <2>6
<1> QED BY <1>2, <1>3

LEMMA has_itemStep ==
  ASSUME TypeOK, IsArray,
         NEW CONSTANT F, NEW CONSTANT Q \in Nat, NEW CONSTANT P \in Nat, NEW CONSTANT R \in Nat,
         NEW CONSTANT K \in Nat, NEW CONSTANT W \in Nat, At(F, Q, P, R, K, W),
         has_item
  PROVE  TypeOK' /\ IsArray'
         /\ \E L \in Nat : At(F, Q, P, R, L, W)'
<1>1. /\ P <= R /\ R <= K /\ K <= W /\ W <= R + Capacity /\ K <= R + Capacity
      /\ P % 4 = 0 /\ R % 4 = 0 /\ K % 4 = 0 /\ W % 4 = 0
      /\ read_cursor = P % Modulus /\ c.published = P % Modulus
      /\ c.read_cursor = R % Modulus /\ c.write_cursor_cache = K % Modulus
      /\ write_cursor = W % Modulus /\ c \in Consumers
      /\ FramesAt(F, W) /\ ConsumerAt(F, P, R, K)
  BY ConsumerFacts
<1>2. /\ \E n \in 0 .. Len(F) : K = End(F, n)
      /\ R = K \/ Stands(F, R, K)
  BY <1>1 DEF ConsumerAt, has_item
<1>3. PICK L : L = IF R = K THEN W ELSE K
  OBVIOUS
<1>4. /\ L \in Nat /\ R <= L /\ L <= W /\ L <= R + Capacity /\ L % 4 = 0
      /\ \E n \in 0 .. Len(F) : L = End(F, n)
      /\ R = L \/ Stands(F, R, L)
  <2>1. CASE R = K
    <3>1. L = W
      BY <1>3, <2>1
    <3>2. (\E n \in 0 .. Len(F) : W = End(F, n)) /\ (R = W \/ Stands(F, R, W))
      BY <1>1, <1>2, CaughtUp
    <3>3. R <= W
      BY <1>1
    <3> QED BY <1>1, <3>1, <3>2, <3>3
  <2>2. CASE R # K
    BY <1>1, <1>2, <1>3, <2>2
  <2> QED BY <2>1, <2>2
<1> DEFINE cache == IF no_item(c.write_cursor_cache, c.read_cursor, Modulus)
                    THEN write_cursor ELSE c.write_cursor_cache
<1>5. cache = L % Modulus
  <2>1. no_item(K % Modulus, R % Modulus, Modulus) <=> K = R
    BY <1>1, NoItemOnCounts
  <2> QED BY <1>1, <1>3, <2>1
<1>6. no_item(L % Modulus, R % Modulus, Modulus) <=> L = R
  BY <1>4, NoItemOnCounts
<1>7. /\ c' = [c EXCEPT !.write_cursor_cache = L % Modulus,
                        !.pc = IF L = R THEN "idle" ELSE "ready"]
      /\ UNCHANGED <<buffer, write_cursor, read_cursor, starving, p>>
  BY <1>1, <1>5, <1>6 DEF has_item
<1>8. L % Modulus \in Cursor
  BY <1>4, CursorOfCount
<1>9. /\ c' \in Consumers /\ c'.published = P % Modulus /\ c'.read_cursor = R % Modulus
      /\ c'.write_cursor_cache = L % Modulus
      /\ c'.pc = IF L = R THEN "idle" ELSE "ready"
  BY <1>1, <1>7, <1>8 DEF Consumers
<1>10. ConsumerAt(F, P, R, L)'
  BY <1>4, <1>9 DEF ConsumerAt, Stands, End
<1>11. P <= P /\ read_cursor' = P % Modulus
  BY <1>1, <1>7
<1>12. TypeOK' /\ IsArray' /\ At(F, Q, P, R, L, W)'
  BY <1>1, <1>4, <1>7, <1>9, <1>10, <1>11, ConsumerMoves
<1> QED BY <1>4, <1>12

LEMMA DrainBeginStep ==
  ASSUME TypeOK, IsArray,
         NEW CONSTANT F, NEW CONSTANT Q \in Nat, NEW CONSTANT P \in Nat, NEW CONSTANT R \in Nat,
         NEW CONSTANT K \in Nat, NEW CONSTANT W \in Nat, At(F, Q, P, R, K, W),
         DrainBegin
  PROVE  TypeOK' /\ IsArray' /\ At(F, Q, P, R, W, W)'
<1>1. /\ P <= R /\ R <= K /\ K <= W /\ R <= W /\ W <= R + Capacity
      /\ P % 4 = 0 /\ R % 4 = 0 /\ W % 4 = 0
      /\ read_cursor = P % Modulus /\ c.published = P % Modulus
      /\ c.read_cursor = R % Modulus
      /\ write_cursor = W % Modulus /\ c \in Consumers
      /\ FramesAt(F, W) /\ ConsumerAt(F, P, R, K)
  BY ConsumerFacts
<1>2. /\ \E n \in 0 .. Len(F) : K = End(F, n)
      /\ R = K \/ Stands(F, R, K)
  BY <1>1 DEF ConsumerAt, DrainBegin
<1>3. (\E n \in 0 .. Len(F) : W = End(F, n)) /\ (R = W \/ Stands(F, R, W))
  <2>1. FramesAt(F, W) /\ R <= K /\ K <= W
    BY <1>1
  <2> QED BY <2>1, <1>2, CaughtUp
<1>4. no_item(W % Modulus, R % Modulus, Modulus) <=> W = R
  BY <1>1, NoItemOnCounts
<1>5. /\ c' = [c EXCEPT !.write_cursor_cache = W % Modulus,
                        !.pc = IF W = R THEN "idle" ELSE "drain"]
      /\ UNCHANGED <<buffer, write_cursor, read_cursor, starving, p>>
  BY <1>1, <1>4 DEF DrainBegin
<1>6. W % Modulus \in Cursor
  BY <1>1, CursorOfCount
<1>7. /\ c' \in Consumers /\ c'.published = P % Modulus /\ c'.read_cursor = R % Modulus
      /\ c'.write_cursor_cache = W % Modulus
      /\ c'.pc = IF W = R THEN "idle" ELSE "drain"
  BY <1>1, <1>5, <1>6 DEF Consumers
<1>8. ConsumerAt(F, P, R, W)'
  BY <1>3, <1>7 DEF ConsumerAt, Stands, End
<1>9. P <= P /\ W <= W /\ read_cursor' = P % Modulus
  BY <1>1, <1>5
<1> QED BY <1>1, <1>5, <1>7, <1>8, <1>9, ConsumerMoves

\* The record that the consumer stands at, decoded.
Reads(F, n, P, R, K) ==
  /\ WellFramed(F[n]) /\ Held(F[n], P) /\ F[n].end = End(F, n)
  /\ R \in {F[n].start, F[n].at} /\ R <= F[n].at /\ F[n].end <= K
  /\ decode_record(c.read_cursor) = [cur |-> F[n].at % Modulus, len |-> F[n].len]
LEMMA DecodeStanding ==
  ASSUME TypeOK, IsArray,
         NEW CONSTANT F, NEW CONSTANT Q \in Nat, NEW CONSTANT P \in Nat, NEW CONSTANT R \in Nat,
         NEW CONSTANT K \in Nat, NEW CONSTANT W \in Nat, At(F, Q, P, R, K, W),
         Stands(F, R, K)
  PROVE  \E n \in 1 .. Len(F) : Reads(F, n, P, R, K)
<1>1. /\ P <= R /\ c.read_cursor = R % Modulus /\ FramesAt(F, W) /\ ContentsAt(F, P)
  BY ConsumerFacts
<1>2. PICK n \in 1 .. Len(F) : R \in {F[n].start, F[n].at} /\ F[n].end <= K
  BY DEF Stands
<1>3. PICK f : f = F[n]
  OBVIOUS
<1>4. WellFramed(f) /\ Held(f, P) /\ f.end = End(F, n)
  BY <1>1, <1>2, <1>3, FrameAt DEF ContentsAt
<1>5. R <= f.at
  BY <1>2, <1>3, <1>4, Framed
<1>6. R \in {f.start, f.at}
  BY <1>2, <1>3
<1>7. decode_record(R % Modulus) = [cur |-> f.at % Modulus, len |-> f.len]
  BY <1>1, <1>4, <1>6, Decode
<1>8. Reads(F, n, P, R, K)
  BY <1>1, <1>2, <1>3, <1>4, <1>5, <1>7 DEF Reads
<1> QED BY <1>8

\* A step to the record of a frame, over its padding if it has any; and past it.
Lends(F, Q, R, W) ==
  \E N, S, L \in Nat, n \in 1 .. Len(F) :
    At(F, Q, N, S, L, W)' /\ R \in {F[n].start, F[n].at} /\ S = F[n].at
Passes(F, Q, R, W) ==
  \E N, S, L \in Nat, n \in 1 .. Len(F) :
    At(F, Q, N, S, L, W)' /\ R \in {F[n].start, F[n].at} /\ S = F[n].end

LEMMA next_msgStep ==
  ASSUME TypeOK, IsArray,
         NEW CONSTANT F, NEW CONSTANT Q \in Nat, NEW CONSTANT P \in Nat, NEW CONSTANT R \in Nat,
         NEW CONSTANT K \in Nat, NEW CONSTANT W \in Nat, At(F, Q, P, R, K, W),
         next_msg
  PROVE  TypeOK' /\ IsArray' /\ Lends(F, Q, R, W)
<1>1. /\ P <= R /\ P % 4 = 0 /\ K % 4 = 0 /\ K <= W
      /\ read_cursor = P % Modulus /\ c.published = P % Modulus
      /\ c.write_cursor_cache = K % Modulus /\ c \in Consumers /\ ConsumerAt(F, P, R, K)
  BY ConsumerFacts
<1>2. Stands(F, R, K) /\ \E n \in 0 .. Len(F) : K = End(F, n)
  BY <1>1 DEF ConsumerAt, next_msg
<1>3. PICK n \in 1 .. Len(F) : Reads(F, n, P, R, K)
  BY <1>2, DecodeStanding
<1>0. /\ WellFramed(F[n]) /\ R <= F[n].at /\ F[n].end <= K
      /\ decode_record(c.read_cursor) = [cur |-> F[n].at % Modulus, len |-> F[n].len]
  BY <1>3 DEF Reads
<1>4. PICK S : S = F[n].at
  OBVIOUS
<1>5. PICK len : len = F[n].len
  OBVIOUS
<1>6. S \in Nat /\ S % 4 = 0 /\ len \in Lengths /\ S <= K /\ P <= S
  <2>1. /\ F[n].at \in Nat /\ F[n].end \in Nat /\ F[n].at % 4 = 0 /\ F[n].len \in Lengths
        /\ F[n].at + 4 <= F[n].end
    BY <1>0, Framed
  <2>2. F[n].at <= K /\ R <= F[n].at
    BY <1>0, <2>1
  <2>3. P <= F[n].at
    BY <1>1, <2>1, <2>2
  <2> QED BY <1>4, <1>5, <2>1, <2>2, <2>3
<1>7. /\ c' = [c EXCEPT !.read_cursor = S % Modulus, !.len = len, !.pc = "holding"]
      /\ UNCHANGED <<buffer, write_cursor, read_cursor, starving, p>>
  BY <1>0, <1>4, <1>5 DEF next_msg
<1>8. S % Modulus \in Cursor
  BY <1>6, CursorOfCount
<1>9. /\ c' \in Consumers /\ c'.published = P % Modulus /\ c'.read_cursor = S % Modulus
      /\ c'.write_cursor_cache = K % Modulus /\ c'.pc = "holding" /\ c'.len = len
  BY <1>1, <1>6, <1>7, <1>8 DEF Consumers
<1>10. ConsumerAt(F, P, S, K)'
  BY <1>0, <1>2, <1>4, <1>5, <1>9 DEF ConsumerAt, Lent, End
<1>11. P <= P /\ read_cursor' = P % Modulus
  BY <1>1, <1>7
<1>12. TypeOK' /\ IsArray' /\ At(F, Q, P, S, K, W)'
  BY <1>1, <1>6, <1>7, <1>9, <1>10, <1>11, ConsumerMoves
<1>13. R \in {F[n].start, F[n].at}
  BY <1>3 DEF Reads
<1>14. Lends(F, Q, R, W)
  BY <1>1, <1>4, <1>6, <1>12, <1>13 DEF Lends
<1> QED BY <1>12, <1>14

LEMMA ForgetStep ==
  ASSUME TypeOK, IsArray,
         NEW CONSTANT F, NEW CONSTANT Q \in Nat, NEW CONSTANT P \in Nat, NEW CONSTANT R \in Nat,
         NEW CONSTANT K \in Nat, NEW CONSTANT W \in Nat, At(F, Q, P, R, K, W),
         Forget
  PROVE  TypeOK' /\ IsArray' /\ At(F, Q, P, R, K, W)'
<1>1. /\ P <= R /\ R <= K /\ K <= W /\ K <= R + Capacity
      /\ P % 4 = 0 /\ R % 4 = 0 /\ K % 4 = 0
      /\ read_cursor = P % Modulus /\ c.published = P % Modulus
      /\ c.read_cursor = R % Modulus /\ c.write_cursor_cache = K % Modulus
      /\ c \in Consumers /\ starving \in {0, 1} /\ FramesAt(F, W) /\ ConsumerAt(F, P, R, K)
  BY ConsumerFacts
<1>2. Lent(F, R, K) /\ \E n \in 0 .. Len(F) : K = End(F, n)
  BY <1>1 DEF ConsumerAt, Forget
<1>3. Stands(F, R, K)
  BY <1>2 DEF Lent, Stands
<1>4. /\ c' = [c EXCEPT !.pc = "idle", !.len = 0]
      /\ UNCHANGED <<buffer, write_cursor, read_cursor, starving, p>>
  BY DEF Forget
<1>5. /\ c' \in Consumers /\ c'.published = P % Modulus /\ c'.read_cursor = R % Modulus
      /\ c'.write_cursor_cache = K % Modulus /\ c'.pc = "idle"
  BY <1>1, <1>4 DEF Consumers
<1>6. ConsumerAt(F, P, R, K)'
  BY <1>2, <1>3, <1>5 DEF ConsumerAt, Stands, End
<1>7. P <= P /\ read_cursor' = P % Modulus
  BY <1>1, <1>4
<1> QED BY <1>1, <1>4, <1>5, <1>6, <1>7, ConsumerMoves

LEMMA ProducerStarvingStep ==
  ASSUME TypeOK, IsArray,
         NEW CONSTANT F, NEW CONSTANT Q \in Nat, NEW CONSTANT P \in Nat, NEW CONSTANT R \in Nat,
         NEW CONSTANT K \in Nat, NEW CONSTANT W \in Nat, At(F, Q, P, R, K, W),
         ProducerStarving
  PROVE  TypeOK' /\ IsArray' /\ At(F, Q, P, R, K, W)'
<1>1. /\ P <= R /\ R <= K /\ K <= W /\ K <= R + Capacity
      /\ P % 4 = 0 /\ R % 4 = 0 /\ K % 4 = 0
      /\ read_cursor = P % Modulus /\ c.published = P % Modulus
      /\ c.read_cursor = R % Modulus /\ c.write_cursor_cache = K % Modulus
      /\ c \in Consumers /\ starving \in {0, 1} /\ FramesAt(F, W) /\ ConsumerAt(F, P, R, K)
  BY ConsumerFacts
<1>2. Lent(F, R, K) /\ \E n \in 0 .. Len(F) : K = End(F, n)
  BY <1>1 DEF ConsumerAt, ProducerStarving
<1>4. /\ c' = [c EXCEPT !.pc = "releasing", !.starving = starving]
      /\ UNCHANGED <<buffer, write_cursor, read_cursor, starving, p>>
  BY DEF ProducerStarving
<1>5. /\ c' \in Consumers /\ c'.published = P % Modulus /\ c'.read_cursor = R % Modulus
      /\ c'.write_cursor_cache = K % Modulus /\ c'.pc = "releasing" /\ c'.len = c.len
  BY <1>1, <1>4 DEF Consumers
<1>6. ConsumerAt(F, P, R, K)'
  BY <1>2, <1>5 DEF ConsumerAt, Lent, End
<1>7. P <= P /\ read_cursor' = P % Modulus
  BY <1>1, <1>4
<1> QED BY <1>1, <1>4, <1>5, <1>6, <1>7, ConsumerMoves

\* A frame that is passed ends where the cursor then is, and the consumer knows the rest.
LEMMA Passed ==
  ASSUME NEW F, NEW W \in Nat, FramesAt(F, W), NEW R \in Nat, NEW K \in Nat, R % 4 = 0,
         NEW n \in 1 .. Len(F), R <= F[n].at, F[n].end <= K,
         \E m \in 0 .. Len(F) : K = End(F, m)
  PROVE  /\ F[n].end \in Nat /\ F[n].end % 4 = 0 /\ R <= F[n].end /\ F[n].end <= K
         /\ F[n].len \in Lengths
         /\ F[n].end = K \/ Stands(F, F[n].end, K)
         /\ Add(F[n].at % Modulus, record_len(F[n].len)) = F[n].end % Modulus
         /\ F[n].end % Modulus \in Cursor
<1>1. PICK f : f = F[n]
  OBVIOUS
<1>2. WellFramed(f) /\ f.end = End(F, n) /\ n \in 0 .. Len(F)
  BY <1>1, FrameAt
<1>3. /\ f.at \in Nat /\ f.end \in Nat /\ f.end % 4 = 0 /\ f.at + 4 <= f.end /\ f.len \in Lengths
      /\ record_len(f.len) \in Nat /\ f.end = f.at + record_len(f.len)
  BY <1>2, Framed
<1>4. R <= f.at /\ f.end <= K
  BY <1>1
<1>5. R <= f.end
  BY <1>3, <1>4
<1>6. \E m \in 0 .. Len(F) : f.end = End(F, m)
  BY <1>2
<1>7. f.end = K \/ Stands(F, f.end, K)
  BY <1>4, <1>6, Onward
<1>8. Add(f.at % Modulus, record_len(f.len)) = (f.at + record_len(f.len)) % Modulus
  BY <1>3, CursorOfCount
<1>9. f.end % Modulus \in Cursor
  BY <1>3, CursorOfCount
<1> QED BY <1>1, <1>3, <1>4, <1>5, <1>7, <1>8, <1>9

LEMMA ReleaseStep ==
  ASSUME TypeOK, IsArray,
         NEW CONSTANT F, NEW CONSTANT Q \in Nat, NEW CONSTANT P \in Nat, NEW CONSTANT R \in Nat,
         NEW CONSTANT K \in Nat, NEW CONSTANT W \in Nat, At(F, Q, P, R, K, W),
         Release
  PROVE  TypeOK' /\ IsArray' /\ Passes(F, Q, R, W)
<1>1. /\ P <= R /\ R <= K /\ K <= W /\ K <= R + Capacity
      /\ P % 4 = 0 /\ R % 4 = 0 /\ K % 4 = 0
      /\ read_cursor = P % Modulus /\ c.published = P % Modulus
      /\ c.read_cursor = R % Modulus /\ c.write_cursor_cache = K % Modulus
      /\ c \in Consumers /\ starving \in {0, 1} /\ FramesAt(F, W) /\ ConsumerAt(F, P, R, K)
  BY ConsumerFacts
<1>2. Lent(F, R, K) /\ \E n \in 0 .. Len(F) : K = End(F, n)
  BY <1>1 DEF ConsumerAt, Release
<1>3. PICK n \in 1 .. Len(F) : R = F[n].at /\ c.len = F[n].len /\ F[n].end <= K
  BY <1>2 DEF Lent
<1>4. PICK S : S = F[n].end
  OBVIOUS
<1>0. R <= F[n].at
  BY <1>3
<1>5. /\ S \in Nat /\ S % 4 = 0 /\ R <= S /\ S <= K /\ (S = K \/ Stands(F, S, K))
      /\ Add(c.read_cursor, record_len(c.len)) = S % Modulus /\ S % Modulus \in Cursor
  <2>1. /\ F[n].end \in Nat /\ F[n].end % 4 = 0 /\ R <= F[n].end /\ F[n].end <= K
        /\ F[n].end = K \/ Stands(F, F[n].end, K)
        /\ Add(F[n].at % Modulus, record_len(F[n].len)) = F[n].end % Modulus
        /\ F[n].end % Modulus \in Cursor
    BY <1>0, <1>1, <1>2, <1>3, Passed
  <2> QED BY <1>1, <1>3, <1>4, <2>1
<1> DEFINE freed == [c EXCEPT !.pc = "idle", !.len = 0, !.starving = 0, !.read_cursor = S % Modulus]
<1>6. PICK N : \/ N = S /\ read_cursor' = S % Modulus /\ c' = [freed EXCEPT !.published = S % Modulus]
               \/ N = P /\ read_cursor' = read_cursor /\ c' = freed
  BY <1>5 DEF Release
<1>7. UNCHANGED <<buffer, write_cursor, starving, p>>
  BY DEF Release
<1>8. /\ N \in Nat /\ P <= N /\ N <= S /\ N % 4 = 0 /\ read_cursor' = N % Modulus
  BY <1>1, <1>5, <1>6
<1>9. freed \in Consumers /\ freed.published = P % Modulus /\ freed.read_cursor = S % Modulus
      /\ freed.write_cursor_cache = K % Modulus /\ freed.pc = "idle"
  BY <1>1, <1>5 DEF Consumers
<1> HIDE DEF freed
<1>10. /\ c' \in Consumers /\ c'.published = N % Modulus /\ c'.read_cursor = S % Modulus
       /\ c'.write_cursor_cache = K % Modulus /\ c'.pc = "idle"
  <2>1. CASE N = S /\ c' = [freed EXCEPT !.published = S % Modulus]
    BY <1>5, <1>9, <2>1 DEF Consumers
  <2>2. CASE N = P /\ c' = freed
    BY <1>9, <2>2
  <2> QED BY <1>6, <2>1, <2>2
<1>11. ConsumerAt(F, N, S, K)'
  BY <1>2, <1>5, <1>10 DEF ConsumerAt, Stands, End
<1>12. TypeOK' /\ IsArray' /\ At(F, Q, N, S, K, W)'
  BY <1>1, <1>5, <1>7, <1>8, <1>10, <1>11, ConsumerMoves
<1>13. Passes(F, Q, R, W)
  BY <1>1, <1>3, <1>4, <1>5, <1>8, <1>12 DEF Passes
<1> QED BY <1>12, <1>13

LEMMA DrainRecordStep ==
  ASSUME TypeOK, IsArray,
         NEW CONSTANT F, NEW CONSTANT Q \in Nat, NEW CONSTANT P \in Nat, NEW CONSTANT R \in Nat,
         NEW CONSTANT K \in Nat, NEW CONSTANT W \in Nat, At(F, Q, P, R, K, W),
         DrainRecord
  PROVE  TypeOK' /\ IsArray' /\ Passes(F, Q, R, W)
<1>1. /\ P <= R /\ R <= K /\ K <= W /\ K <= R + Capacity
      /\ P % 4 = 0 /\ R % 4 = 0 /\ K % 4 = 0
      /\ read_cursor = P % Modulus /\ c.published = P % Modulus
      /\ c.read_cursor = R % Modulus /\ c.write_cursor_cache = K % Modulus
      /\ c \in Consumers /\ starving \in {0, 1} /\ FramesAt(F, W) /\ ConsumerAt(F, P, R, K)
  BY ConsumerFacts
<1>2. K # R /\ \E n \in 0 .. Len(F) : K = End(F, n)
  <2>1. no_item(K % Modulus, R % Modulus, Modulus) <=> K = R
    BY <1>1, NoItemOnCounts
  <2> QED BY <1>1, <2>1 DEF DrainRecord, ConsumerAt
<1>3. Stands(F, R, K)
  <2>1. CASE c.pc = "drain"
    BY <1>1, <2>1 DEF ConsumerAt
  <2>2. CASE c.pc = "callback"
    <3>1. PICK n \in 1 .. Len(F) : R = F[n].end
      BY <1>1, <2>2 DEF ConsumerAt, CalledBack
    <3>2. n \in 0 .. Len(F) /\ R = End(F, n)
      BY <1>1, <3>1, FrameAt
    <3>3. \E m \in 0 .. Len(F) : R = End(F, m)
      BY <3>2
    <3>4. R = K \/ Stands(F, R, K)
      BY <1>1, <1>2, <3>3, Onward
    <3> QED BY <1>2, <3>4
  <2> QED BY <2>1, <2>2 DEF DrainRecord
<1>4. PICK n \in 1 .. Len(F) : Reads(F, n, P, R, K)
  BY <1>3, DecodeStanding
<1>5. PICK S : S = F[n].end
  OBVIOUS
<1>6. PICK len : len = F[n].len
  OBVIOUS
<1>7. /\ S \in Nat /\ S % 4 = 0 /\ R <= S /\ S <= K /\ len \in Lengths /\ S % Modulus \in Cursor
      /\ Add(F[n].at % Modulus, record_len(len)) = S % Modulus
  <2>1. R <= F[n].at /\ F[n].end <= K
    BY <1>4 DEF Reads
  <2>2. /\ F[n].end \in Nat /\ F[n].end % 4 = 0 /\ R <= F[n].end /\ F[n].end <= K
        /\ F[n].len \in Lengths
        /\ F[n].end = K \/ Stands(F, F[n].end, K)
        /\ Add(F[n].at % Modulus, record_len(F[n].len)) = F[n].end % Modulus
        /\ F[n].end % Modulus \in Cursor
    <3>1. FramesAt(F, W) /\ R % 4 = 0 /\ \E m \in 0 .. Len(F) : K = End(F, m)
      BY <1>1, <1>2
    <3> QED BY <2>1, <3>1, Passed, Zenon
  <2> QED BY <1>5, <1>6, <2>2
<1>8. /\ c' = [c EXCEPT !.read_cursor = S % Modulus, !.len = len, !.pc = "callback"]
      /\ UNCHANGED <<buffer, write_cursor, read_cursor, starving, p>>
  <2>1. /\ decode_record(c.read_cursor).cur = F[n].at % Modulus
        /\ decode_record(c.read_cursor).len = len
    BY <1>4, <1>6 DEF Reads
  <2> QED BY <1>7, <2>1 DEF DrainRecord
<1>9. /\ c' \in Consumers /\ c'.published = P % Modulus /\ c'.read_cursor = S % Modulus
      /\ c'.write_cursor_cache = K % Modulus /\ c'.pc = "callback" /\ c'.len = len
  BY <1>1, <1>7, <1>8 DEF Consumers
<1>10. CalledBack(F, P, S, K)'
  <2>1. WellFramed(F[n]) /\ R <= F[n].at /\ F[n].end <= K
    BY <1>4 DEF Reads
  <2>0. F[n].at \in Nat
    BY <2>1, Framed
  <2>2. P <= F[n].at
    BY <1>1, <2>0, <2>1
  <2> QED BY <1>5, <1>6, <1>9, <2>1, <2>2 DEF CalledBack
<1>11. ConsumerAt(F, P, S, K)'
  <2>1. \E m \in 0 .. Len(F) : K = End(F, m)
    BY <1>2
  <2> QED BY <2>1, <1>9, <1>10 DEF ConsumerAt, End
<1>12. P <= P /\ P <= S /\ read_cursor' = P % Modulus
  BY <1>1, <1>7, <1>8
<1>13. TypeOK' /\ IsArray' /\ At(F, Q, P, S, K, W)'
  BY <1>1, <1>7, <1>8, <1>9, <1>11, <1>12, ConsumerMoves
<1>14. R \in {F[n].start, F[n].at}
  BY <1>4 DEF Reads
<1>15. Passes(F, Q, R, W)
  BY <1>5, <1>7, <1>13, <1>14 DEF Passes
<1> QED BY <1>13, <1>15

\* drain ends, or the consumer goes: everything it has read is published.
LEMMA FlushStep ==
  ASSUME TypeOK, IsArray,
         NEW CONSTANT F, NEW CONSTANT Q \in Nat, NEW CONSTANT P \in Nat, NEW CONSTANT R \in Nat,
         NEW CONSTANT K \in Nat, NEW CONSTANT W \in Nat, At(F, Q, P, R, K, W),
         DrainEnd \/ DropConsumer
  PROVE  TypeOK' /\ IsArray' /\ At(F, Q, R, R, K, W)'
<1>1. /\ P <= R /\ R <= K /\ K <= W /\ K <= R + Capacity
      /\ P % 4 = 0 /\ R % 4 = 0 /\ K % 4 = 0
      /\ read_cursor = P % Modulus /\ c.published = P % Modulus
      /\ c.read_cursor = R % Modulus /\ c.write_cursor_cache = K % Modulus
      /\ c \in Consumers /\ starving \in {0, 1} /\ FramesAt(F, W) /\ ConsumerAt(F, P, R, K)
  BY ConsumerFacts
<1>2. /\ R = K \/ Stands(F, R, K)
      /\ \E n \in 0 .. Len(F) : K = End(F, n)
  <2>1. \E n \in 0 .. Len(F) : K = End(F, n)
    BY <1>1 DEF ConsumerAt
  <2>2. CASE c.pc = "idle"
    BY <1>1, <2>1, <2>2 DEF ConsumerAt
  <2>3. CASE c.pc = "callback"
    <3>1. PICK n \in 1 .. Len(F) : R = F[n].end
      BY <1>1, <2>3 DEF ConsumerAt, CalledBack
    <3>2. n \in 0 .. Len(F) /\ R = End(F, n)
      BY <1>1, <3>1, FrameAt
    <3>3. \E m \in 0 .. Len(F) : R = End(F, m)
      BY <3>2
    <3>4. R = K \/ Stands(F, R, K)
      BY <1>1, <2>1, <3>3, Onward
    <3> QED BY <2>1, <3>4
  <2> QED BY <2>2, <2>3 DEF DrainEnd, DropConsumer
<1>3. PICK pc \in {"idle", "dropped"} :
        c' = [c EXCEPT !.published = c.read_cursor, !.pc = pc, !.len = 0]
  BY DEF DrainEnd, DropConsumer, flush_pending
<1>4. UNCHANGED <<buffer, write_cursor, starving, p>> /\ read_cursor' = R % Modulus
  BY <1>1 DEF DrainEnd, DropConsumer, flush_pending
<1>5. /\ c' \in Consumers /\ c'.published = R % Modulus /\ c'.read_cursor = R % Modulus
      /\ c'.write_cursor_cache = K % Modulus /\ c'.pc \in {"idle", "dropped"}
  BY <1>1, <1>3 DEF Consumers
<1>6. ConsumerAt(F, R, R, K)'
  BY <1>2, <1>5 DEF ConsumerAt, Stands, End
<1>7. R <= R
  OBVIOUS
<1> QED BY <1>1, <1>4, <1>5, <1>6, <1>7, ConsumerMoves

-----------------------------------------------------------------------------
(* The invariant holds *)

LEMMA Zero == 0 % Modulus = 0 /\ 0 \in Cursor
<1>1. 0 \in Int /\ Modulus * 0 = 0 /\ 0 \in 0 .. Modulus - 1 /\ Modulus \in Nat \ {0}
  BY Sizes
<1>2. 0 = Modulus * 0 + 0
  BY <1>1
<1>3. 0 % Modulus = 0
  BY <1>1, <1>2, ModUnique
<1> QED BY <1>1, <1>3 DEF Cursor, ALIGN

LEMMA Initially == Init => IInv
<1> SUFFICES ASSUME Init PROVE IInv
  OBVIOUS
<1>1. buffer = [w \in Places |-> 0]
  BY DEF Init, Places
<1>2. DOMAIN buffer = Places /\ buffer = [w \in Places |-> buffer[w]]
  BY <1>1
<1>3. write_cursor = 0 /\ read_cursor = 0 /\ starving = 0
  BY DEF Init
<1>4. /\ p \in Producers /\ p.pc = "idle" /\ p.read_cursor_cache = 0
  BY Zero DEF Init, Producers
<1>5. /\ c \in Consumers /\ c.pc = "idle" /\ c.read_cursor = 0 /\ c.published = 0
      /\ c.write_cursor_cache = 0
  BY Zero DEF Init, Consumers
<1>6. \A w \in DOMAIN buffer : buffer[w] \in Nat \union {PADDING}
  BY <1>1
<1>7. TypeOK
  BY <1>3, <1>4, <1>5, <1>6, Zero, TypeParts
<1>8. PICK F : F = << >>
  OBVIOUS
<1>9. F \in Seq(Frames) /\ Len(F) = 0
  BY <1>8, EmptySeq
<1>10. FramesAt(F, 0)
  BY <1>9 DEF FramesAt, End
<1>11. ContentsAt(F, 0)
  BY <1>9 DEF ContentsAt
<1>12. CursorsAt(0, 0, 0, 0, 0)
  BY <1>3, <1>4, <1>5, Zero, CapacityType DEF CursorsAt, ALIGN
<1>13. ProducerAt(0, 0)
  BY <1>4 DEF ProducerAt, Busy
<1>14. ConsumerAt(F, 0, 0, 0)
  BY <1>5, <1>9 DEF ConsumerAt, End
<1>15. At(F, 0, 0, 0, 0, 0) /\ 0 \in Nat
  BY <1>10, <1>11, <1>12, <1>13, <1>14 DEF At
<1> QED BY <1>2, <1>7, <1>9, <1>15 DEF IInv, IsArray

LEMMA StutterStep ==
  ASSUME TypeOK, IsArray,
         NEW CONSTANT F, NEW CONSTANT Q \in Nat, NEW CONSTANT P \in Nat, NEW CONSTANT R \in Nat,
         NEW CONSTANT K \in Nat, NEW CONSTANT W \in Nat, At(F, Q, P, R, K, W),
         UNCHANGED vars
  PROVE  TypeOK' /\ IsArray' /\ At(F, Q, P, R, K, W)'
<1>1. /\ P <= R /\ R <= K /\ K <= W /\ P % 4 = 0 /\ R % 4 = 0 /\ K % 4 = 0
      /\ read_cursor = P % Modulus /\ c.published = P % Modulus
      /\ c.read_cursor = R % Modulus /\ c.write_cursor_cache = K % Modulus
      /\ c \in Consumers /\ ConsumerAt(F, P, R, K)
  BY ConsumerFacts
<1>2. UNCHANGED <<buffer, write_cursor, read_cursor, starving, p, c>> /\ P <= P
  BY DEF vars
<1>3. ConsumerAt(F, P, R, K)'
  BY <1>1, <1>2, ConsumerStill
<1> QED BY <1>1, <1>2, <1>3, ConsumerMoves

LEMMA Inductive == IInv /\ [Next]_vars => IInv'
<1> SUFFICES ASSUME IInv, [Next]_vars PROVE IInv'
  OBVIOUS
<1>0. TypeOK /\ IsArray
  BY DEF IInv, IsArray
<1>1. PICK F \in Seq(Frames) : \E Q, P, R, K, W \in Nat : At(F, Q, P, R, K, W)
  BY DEF IInv
<1>2. PICK Q \in Nat, P \in Nat, R \in Nat, K \in Nat, W \in Nat : At(F, Q, P, R, K, W)
  BY <1>1
<1> SUFFICES TypeOK' /\ IsArray'
             /\ \E G \in Seq(Frames) : \E N, P1, S, L, E \in Nat : At(G, N, P1, S, L, E)'
  BY DEF IInv, IsArray, Places
<1>3. ASSUME NEW len \in Lengths, NEW blocking \in BOOLEAN, Frame(len, blocking)
      PROVE  TypeOK' /\ IsArray' /\ At(F, Q, P, R, K, W)'
  BY <1>0, <1>2, <1>3, FrameStep
<1>4. ASSUME has_space PROVE TypeOK' /\ IsArray' /\ \E N \in Nat : At(F, N, P, R, K, W)'
  <2>1. CASE HasSpaceCached
    BY <1>0, <1>2, <2>1, HasSpaceCachedStep
  <2>2. CASE HasSpaceReload
    BY <1>0, <1>2, <2>2, HasSpaceReloadStep
  <2>3. CASE RaiseStarving
    BY <1>0, <1>2, <2>3, RaiseStarvingStep
  <2> QED BY <1>4, <2>1, <2>2, <2>3 DEF has_space
<1>5. ASSUME NEW v \in Words, WritePayload(v)
      PROVE  TypeOK' /\ IsArray' /\ At(F, Q, P, R, K, W)'
  BY <1>0, <1>2, <1>5, WritePayloadStep
<1>6. ASSUME WriteFrame PROVE TypeOK' /\ IsArray' /\ At(F, Q, P, R, K, W)'
  BY <1>0, <1>2, <1>6, WriteFrameStep
<1>7. ASSUME Publish
      PROVE  TypeOK' /\ IsArray' /\ \E G \in Seq(Frames), E \in Nat : At(G, Q, P, R, K, E)'
  BY <1>0, <1>2, <1>7, PublishStep
<1>8. ASSUME Abandon \/ DropProducer PROVE TypeOK' /\ IsArray' /\ At(F, Q, P, R, K, W)'
  BY <1>0, <1>2, <1>8, AbandonStep
<1>9. ASSUME has_item
      PROVE  TypeOK' /\ IsArray' /\ \E L \in Nat : At(F, Q, P, R, L, W)'
  BY <1>0, <1>2, <1>9, has_itemStep
<1>10. ASSUME next_msg
       PROVE  TypeOK' /\ IsArray' /\ \E N, S, L \in Nat : At(F, Q, N, S, L, W)'
  BY <1>0, <1>2, <1>10, next_msgStep DEF Lends
<1>11. ASSUME Forget PROVE TypeOK' /\ IsArray' /\ At(F, Q, P, R, K, W)'
  BY <1>0, <1>2, <1>11, ForgetStep
<1>12. ASSUME ProducerStarving PROVE TypeOK' /\ IsArray' /\ At(F, Q, P, R, K, W)'
  BY <1>0, <1>2, <1>12, ProducerStarvingStep
<1>13. ASSUME Release
       PROVE  TypeOK' /\ IsArray' /\ \E N, S, L \in Nat : At(F, Q, N, S, L, W)'
  BY <1>0, <1>2, <1>13, ReleaseStep DEF Passes
<1>14. ASSUME DrainBegin PROVE TypeOK' /\ IsArray' /\ At(F, Q, P, R, W, W)'
  BY <1>0, <1>2, <1>14, DrainBeginStep
<1>15. ASSUME DrainRecord
       PROVE  TypeOK' /\ IsArray' /\ \E N, S, L \in Nat : At(F, Q, N, S, L, W)'
  BY <1>0, <1>2, <1>15, DrainRecordStep DEF Passes
<1>16. ASSUME DrainEnd \/ DropConsumer PROVE TypeOK' /\ IsArray' /\ At(F, Q, R, R, K, W)'
  BY <1>0, <1>2, <1>16, FlushStep
<1>17. ASSUME UNCHANGED vars PROVE TypeOK' /\ IsArray' /\ At(F, Q, P, R, K, W)'
  BY <1>0, <1>2, <1>17, StutterStep
<1> HIDE DEF At, TypeOK, IsArray
<1>18. CASE ProducerNext
  BY <1>2, <1>18, <1>3, <1>4, <1>5, <1>6, <1>7, <1>8 DEF ProducerNext
<1>19. CASE ConsumerNext
  <2>1. CASE Drain
    BY <1>2, <2>1, <1>14, <1>15, <1>16 DEF Drain
  <2> QED BY <1>2, <1>19, <2>1, <1>9, <1>10, <1>11, <1>12, <1>13 DEF ConsumerNext
<1>20. CASE DropProducer
  BY <1>2, <1>20, <1>8
<1>21. CASE DropConsumer
  BY <1>2, <1>21, <1>16
<1>22. CASE Terminated \/ UNCHANGED vars
  BY <1>2, <1>22, <1>17 DEF Terminated
<1> QED BY <1>18, <1>19, <1>20, <1>21, <1>22 DEF Next

\* In every reachable state the ring stands at a history of whole frames, and
\* what the consumer has not released is there word for word (spsc_bytes.rs).
THEOREM Invariance == Spec => []IInv
<1>1. Init => IInv
  BY Initially
<1>2. IInv /\ [Next]_vars => IInv'
  BY Inductive
<1> QED BY <1>1, <1>2, PTL DEF Spec

\* Every field stays in its domain: no header is anything but a length or
\* PADDING, and every cursor stays on a record boundary as it wraps.
THEOREM TypeCorrect == Spec => []TypeOK
<1>1. IInv => TypeOK
  BY DEF IInv
<1> QED BY <1>1, Invariance, PTL

\* The record of a frame whose words are there.
LEMMA RecordAsWritten ==
  ASSUME NEW f, WellFramed(f), HeldPayload(f), DOMAIN buffer = Places
  PROVE  Record([cur |-> f.at % Modulus, len |-> f.len])
           = [len |-> f.len, payload |-> [i \in 1 .. (record_len(f.len) - HEADER) \div ALIGN |-> f.word]]
<1>1. /\ f.at \in Nat /\ f.at % 4 = 0 /\ f.len \in Nat /\ f.len \in Lengths /\ f.word \in Words
      /\ record_len(f.len) \in Nat /\ Position(f.at) + record_len(f.len) <= Capacity
  BY Framed DEF WellFramed
<1>3. /\ Position(f.at % Modulus) = Position(f.at)
      /\ Position(f.at) \in Nat /\ Position(f.at) % 4 = 0 /\ record_len(f.len) % 4 = 0
  BY <1>1, CursorOfCount, PositionType, PositionWord, RecordLen
<1> DEFINE words == (record_len(f.len) - HEADER) \div ALIGN
<1>4. ASSUME NEW i \in 1 .. words
      PROVE  Word(Position(f.at) + HEADER + ALIGN * (i - 1)) = f.word
  <2> DEFINE w == Position(f.at) + HEADER + ALIGN * (i - 1)
  <2>1. record_len(f.len) >= 4
    BY <1>1, RecordLen
  <2>2. i \in Nat /\ i >= 1 /\ 4 * i <= record_len(f.len) - 4
    BY <1>1, <1>4, <2>1 DEF HEADER, ALIGN
  <2>3. w = Position(f.at) + 4 * i
    BY <1>3, <2>2 DEF HEADER, ALIGN
  <2>4. w \in Nat /\ Position(f.at) + 4 <= w /\ w < Position(f.at) + record_len(f.len)
    BY <1>1, <1>3, <2>2, <2>3
  <2>5. w % 4 = 0
    <3>1. 4 * i \in Nat /\ (4 * i) % 4 = 0
      BY <2>2
    <3>2. (Position(f.at) + 4 * i) % 4 = 0
      BY <1>3, <3>1, Aligned
    <3> QED BY <2>3, <3>2
  <2> HIDE DEF w
  <2>6. w < Capacity
    BY <1>1, <1>3, <2>4, CapacityType
  <2>7. w \in PayloadAt(Position(f.at), f.len)
    <3>1. w \in Places
      BY <2>4, <2>5, <2>6, WordType
    <3> QED BY <2>4, <3>1 DEF PayloadAt, HEADER
  <2>8. buffer[w] = f.word
    BY <2>7 DEF HeldPayload
  <2>9. Word(w) = f.word
    BY <2>6, <2>8 DEF Word
  <2> QED BY <2>9 DEF w
<1>5. Payload(Position(f.at), f.len) = [i \in 1 .. words |-> f.word]
  BY <1>4 DEF Payload
<1>6. Record([cur |-> f.at % Modulus, len |-> f.len])
        = [len |-> f.len, payload |-> [i \in 1 .. words |-> f.word]]
  BY <1>3, <1>5 DEF Record
<1> QED BY <1>6

LEMMA RecordOf ==
  ASSUME NEW f, WellFramed(f), HeldPayload(f), DOMAIN buffer = Places
  PROVE  Record([cur |-> f.at % Modulus, len |-> f.len]) \in AllRecords
<1>1. f.len \in Lengths /\ f.word \in Words
  BY Framed
<1>2. Record([cur |-> f.at % Modulus, len |-> f.len])
        \in {[len |-> f.len, payload |-> [i \in 1 .. (record_len(f.len) - HEADER) \div ALIGN |-> v]]
             : v \in Words}
  BY <1>1, RecordAsWritten
<1> QED BY <1>1, <1>2 DEF AllRecords

\* The record a drain callback borrows, which the cursor has already passed, is
\* whole and unreclaimed for as long as the callback runs (BytesConsumer::drain).
THEOREM DrainedIsWhole == Spec => []DrainedIsIntact
<1>1. ASSUME IInv PROVE DrainedIsIntact
  <2> SUFFICES ASSUME c.pc = "callback"
               PROVE  LET start == Sub(c.read_cursor, record_len(c.len))
                      IN  /\ Sub(write_cursor, start) <= Capacity
                          /\ Record(decode_record(start)) \in AllRecords
                          /\ decode_record(start).len = c.len
    BY DEF DrainedIsIntact
  <2>1. PICK F \in Seq(Frames) : \E Q, P, R, K, W \in Nat : At(F, Q, P, R, K, W)
    BY <1>1 DEF IInv
  <2>2. PICK Q \in Nat, P \in Nat, R \in Nat, K \in Nat, W \in Nat : At(F, Q, P, R, K, W)
    BY <2>1
  <2>3. TypeOK /\ DOMAIN buffer = Places
    BY <1>1 DEF IInv, IsArray
  <2>4. /\ K <= W /\ W <= P + Capacity
        /\ c.read_cursor = R % Modulus /\ write_cursor = W % Modulus
        /\ FramesAt(F, W) /\ ContentsAt(F, P) /\ ConsumerAt(F, P, R, K)
    BY <2>2, <2>3, ConsumerFacts
  <2>5. PICK n \in 1 .. Len(F) :
          R = F[n].end /\ c.len = F[n].len /\ P <= F[n].at /\ F[n].end <= K
    BY <2>4 DEF ConsumerAt, CalledBack
  <2>6. PICK f : f = F[n]
    OBVIOUS
  <2>7. WellFramed(f) /\ Held(f, P)
    BY <2>4, <2>6, FrameAt DEF ContentsAt
  <2>8. /\ R = f.end /\ c.len = f.len /\ P <= f.at /\ f.end <= K
        /\ f.at \in Nat /\ f.end \in Nat /\ f.at + 4 <= f.end
        /\ record_len(f.len) \in Nat /\ f.end = f.at + record_len(f.len)
    BY <2>5, <2>6, <2>7, Framed
  <2>9. Sub(c.read_cursor, record_len(c.len)) = f.at % Modulus
    <3>1. record_len(f.len) <= R /\ R - record_len(f.len) = f.at
      BY <2>8
    <3>2. Sub(R % Modulus, record_len(f.len)) = (R - record_len(f.len)) % Modulus
      BY <2>8, <3>1, SubCount
    <3> QED BY <2>4, <2>8, <3>1, <3>2
  <2>10. Sub(write_cursor, f.at % Modulus) <= Capacity
    <3>1. f.at <= W /\ W - f.at <= Capacity
      BY <2>4, <2>8, CapacityType
    <3>2. W - f.at < Modulus
      BY <2>8, <3>1, Sizes
    <3>3. Sub(W % Modulus, f.at % Modulus) = W - f.at
      BY <2>8, <3>1, <3>2, Distance
    <3> QED BY <2>4, <3>1, <3>3
  <2>11. decode_record(f.at % Modulus) = [cur |-> f.at % Modulus, len |-> f.len]
    BY <2>7, <2>8, Decode
  <2>12. Record(decode_record(f.at % Modulus)) \in AllRecords
    <3>1. HeldPayload(f)
      BY <2>7, <2>8 DEF Held, HeldRecord
    <3>2. Record([cur |-> f.at % Modulus, len |-> f.len]) \in AllRecords
      BY <2>3, <2>7, <3>1, RecordOf
    <3> QED BY <2>11, <3>2
  <2> QED BY <2>8, <2>9, <2>10, <2>11, <2>12
<1> QED BY <1>1, Invariance, PTL

-----------------------------------------------------------------------------
(* What the recursive definitions compute *)

\* A set of naturals that is not empty has a least element.
LEMMA Least ==
  ASSUME NEW T \in SUBSET Nat, T # {}
  PROVE  \E x \in T : \A y \in T : x <= y
<1> DEFINE below == {ss \in Nat \X Nat : ss[1] < ss[2]}
<1>1. IsWellFoundedOn(below, Nat)
  BY NatLessThanWellFounded, Zenon DEF OpToRel
<1>2. PICK x \in T : \A y \in T : ~(<<y, x>> \in below)
  <2> HIDE DEF below
  <2> QED BY <1>1, WFMin, Zenon
<1>3. ASSUME NEW y \in T PROVE x <= y
  <2>1. x \in Nat /\ y \in Nat /\ ~(<<y, x>> \in below)
    BY <1>2
  <2> QED BY <2>1
<1> QED BY <1>3

\* The running sum that Used is the last of exists: a prefix of it is extended
\* by one for as long as there are records.
LEMMA SumExists ==
  ASSUME NEW N \in Nat, NEW size
  PROVE  \E u : u = [n \in 0 .. N |-> IF n = 0 THEN 0 ELSE u[n - 1] + size[n]]
<1> DEFINE Good(k) == \E u : u = [n \in 0 .. k |-> IF n = 0 THEN 0 ELSE u[n - 1] + size[n]]
           Bad == {k \in Nat : ~Good(k)}
<1>1. Bad = {}
  <2> SUFFICES ASSUME Bad # {} PROVE FALSE
    OBVIOUS
  <2>1. PICK k \in Bad : \A j \in Bad : k <= j
    <3>1. Bad \in SUBSET Nat
      OBVIOUS
    <3> HIDE DEF Bad
    <3> QED BY <3>1, Least
  <2>2. CASE k = 0
    <3> DEFINE u == [n \in 0 .. 0 |-> 0]
    <3>1. u = [n \in 0 .. 0 |-> IF n = 0 THEN 0 ELSE u[n - 1] + size[n]]
      OBVIOUS
    <3>2. Good(0)
      <4> HIDE DEF u
      <4> QED BY <3>1
    <3> QED BY <2>1, <2>2, <3>2
  <2>3. CASE k # 0
    <3>1. k \in Nat /\ k - 1 \in Nat /\ k - 1 \notin Bad
      BY <2>1, <2>3
    <3>2. PICK u : u = [n \in 0 .. k - 1 |-> IF n = 0 THEN 0 ELSE u[n - 1] + size[n]]
      BY <3>1
    <3> DEFINE v == [n \in 0 .. k |-> IF n = k THEN u[k - 1] + size[k] ELSE u[n]]
               w == [n \in 0 .. k |-> IF n = 0 THEN 0 ELSE v[n - 1] + size[n]]
    <3>3. ASSUME NEW n \in 0 .. k PROVE v[n] = w[n]
      <4>1. CASE n = k
        <5>1. n - 1 \in 0 .. k /\ n - 1 # k /\ n # 0
          BY <2>3, <3>1, <4>1
        <5> QED BY <4>1, <5>1
      <4>2. CASE n = 0
        <5>1. n \in 0 .. k - 1 /\ n # k
          BY <2>3, <3>1, <4>2
        <5>2. u[n] = 0
          BY <3>2, <4>2, <5>1
        <5> QED BY <4>2, <5>1, <5>2
      <4>3. CASE n # k /\ n # 0
        <5>1. n \in 0 .. k - 1 /\ n - 1 \in 0 .. k /\ n - 1 # k
          BY <3>1, <4>3
        <5>2. u[n] = u[n - 1] + size[n]
          BY <3>2, <4>3, <5>1
        <5> QED BY <4>3, <5>1, <5>2
      <4> QED BY <4>1, <4>2, <4>3
    <3>4. v = w
      BY <3>3
    <3>5. Good(k)
      <4> HIDE DEF v
      <4> QED BY <3>4
    <3> QED BY <2>1, <3>5
  <2> QED BY <2>2, <2>3
<1>2. N \notin Bad
  BY <1>1
<1> QED BY <1>2

\* Records that fit between places which are a record's size or more apart take
\* up no more than the last of these places.
LEMMA UsedBound ==
  ASSUME NEW q, Len(q) \in Nat, NEW place, \A n \in 0 .. Len(q) : place[n] \in Nat, place[0] = 0,
         \A n \in 1 .. Len(q) : SizeOf(q[n]) \in Nat /\ place[n - 1] + SizeOf(q[n]) <= place[n]
  PROVE  Abstract!Used(q) \in Nat /\ Abstract!Used(q) <= place[Len(q)]
<1> DEFINE used == CHOOSE u : u = [n \in 0 .. Len(q) |-> IF n = 0 THEN 0 ELSE u[n - 1] + SizeOf(q[n])]
<1>1. Abstract!Used(q) = used[Len(q)]
  BY DEF Abstract!Used
<1>2. \E u : u = [n \in 0 .. Len(q) |-> IF n = 0 THEN 0 ELSE u[n - 1] + SizeOf(q[n])]
  <2> DEFINE size == [n \in 1 .. Len(q) |-> SizeOf(q[n])]
  <2>1. PICK u : u = [n \in 0 .. Len(q) |-> IF n = 0 THEN 0 ELSE u[n - 1] + size[n]]
    <3> HIDE DEF size
    <3> QED BY SumExists
  <2> DEFINE w == [n \in 0 .. Len(q) |-> IF n = 0 THEN 0 ELSE u[n - 1] + SizeOf(q[n])]
  <2>2. ASSUME NEW n \in 0 .. Len(q) PROVE u[n] = w[n]
    <3>1. n = 0 \/ n \in 1 .. Len(q)
      OBVIOUS
    <3> QED BY <2>1, <3>1
  <2>3. u = w
    BY <2>1, <2>2
  <2> QED BY <2>3
<1>3. used = [n \in 0 .. Len(q) |-> IF n = 0 THEN 0 ELSE used[n - 1] + SizeOf(q[n])]
  BY <1>2
<1> HIDE DEF used
<1>4. used[0] = 0 /\ \A n \in 1 .. Len(q) : used[n] = used[n - 1] + SizeOf(q[n])
  <2>1. 0 \in 0 .. Len(q)
    OBVIOUS
  <2>2. used[0] = 0
    BY <1>3, <2>1
  <2>3. ASSUME NEW n \in 1 .. Len(q) PROVE used[n] = used[n - 1] + SizeOf(q[n])
    <3>1. n \in 0 .. Len(q) /\ n # 0
      OBVIOUS
    <3> QED BY <1>3, <3>1
  <2> QED BY <2>2, <2>3
<1> DEFINE Beyond_place == {n \in 0 .. Len(q) : ~(used[n] \in Nat /\ used[n] <= place[n])}
<1>5. Beyond_place = {}
  <2> SUFFICES ASSUME Beyond_place # {} PROVE FALSE
    OBVIOUS
  <2>1. PICK n \in Beyond_place : \A m \in Beyond_place : n <= m
    <3>1. Beyond_place \in SUBSET Nat
      OBVIOUS
    <3> HIDE DEF Beyond_place
    <3> QED BY <3>1, Least
  <2>2. n \in 0 .. Len(q) /\ n # 0
    BY <1>4, <2>1
  <2>3. n \in 1 .. Len(q) /\ n - 1 \in 0 .. Len(q) /\ n - 1 \notin Beyond_place
    BY <2>1, <2>2
  <2>4. used[n - 1] \in Nat /\ used[n - 1] <= place[n - 1]
    BY <2>3
  <2>5. /\ place[n - 1] \in Nat /\ place[n] \in Nat /\ SizeOf(q[n]) \in Nat
        /\ place[n - 1] + SizeOf(q[n]) <= place[n] /\ used[n] = used[n - 1] + SizeOf(q[n])
    BY <1>4, <2>3
  <2>6. used[n] \in Nat /\ used[n] <= place[n]
    BY <2>4, <2>5
  <2> QED BY <2>1, <2>6
<1>6. Len(q) \in 0 .. Len(q)
  OBVIOUS
<1> QED BY <1>1, <1>5, <1>6

\* A sequence for each number of bytes left: the first record there, and then what is
\* found with the rest of them left.
GoesDown(D, rest) ==
  \A k \in D \ {0} : rest[k] \in Int /\ rest[k] < k /\ (rest[k] < 0 \/ rest[k] \in D)
Decodes(r, D, first, rest) ==
  /\ r = [k \in D |-> r[k]]
  /\ \A k \in D : r[k] = IF k = 0 THEN << >>
                         ELSE <<first[k]>> \o (IF rest[k] < 0 THEN << >> ELSE r[rest[k]])

\* The steps of the decoder go down, so the function it defines exists.
LEMMA DecoderExists ==
  ASSUME NEW C \in Nat, NEW D \in SUBSET (0 .. C), NEW first, NEW rest,
         GoesDown(D, rest)
  PROVE  \E r : Decodes(r, D, first, rest)
<1> USE DEF GoesDown
<1> DEFINE Body(r, k) == IF k = 0 THEN << >>
                         ELSE <<first[k]>> \o (IF rest[k] < 0 THEN << >> ELSE r[rest[k]])
           Upto(j) == {k \in D : k <= j}
           Good(j) == \E r : r = [k \in Upto(j) |-> Body(r, k)]
           Bad == {j \in Nat : ~Good(j)}
<1>1. Bad = {}
  <2> SUFFICES ASSUME Bad # {} PROVE FALSE
    OBVIOUS
  <2>1. PICK j \in Bad : \A i \in Bad : j <= i
    <3>1. Bad \in SUBSET Nat
      OBVIOUS
    <3> HIDE DEF Bad
    <3> QED BY <3>1, Least
  <2>2. j \in Nat
    OBVIOUS
  <2>3. PICK r : j # 0 => r = [k \in Upto(j - 1) |-> Body(r, k)]
    <3>1. CASE j = 0
      BY <3>1
    <3>2. CASE j # 0
      <4>1. j - 1 \in Nat /\ ~(j <= j - 1)
        BY <2>2, <3>2
      <4>2. Good(j - 1)
        <5> HIDE DEF Good
        <5> QED BY <2>1, <4>1
      <4> QED BY <4>2
    <3> QED BY <3>1, <3>2
  <2> DEFINE s == [k \in Upto(j) |-> IF k = j THEN Body(r, k) ELSE r[k]]
             t == [k \in Upto(j) |-> Body(s, k)]
  <2>4. ASSUME NEW k \in Upto(j) PROVE s[k] = t[k]
    <3>0. k \in D /\ k \in Nat /\ k <= j /\ s[k] = (IF k = j THEN Body(r, k) ELSE r[k])
          /\ t[k] = Body(s, k)
      OBVIOUS
    <3>1. s[k] = Body(r, k)
      <4>1. CASE k = j
        BY <3>0, <4>1
      <4>2. CASE k # j
        <5>1. j # 0 /\ k \in Upto(j - 1)
          BY <2>2, <3>0, <4>2
        <5>2. r[k] = Body(r, k)
          <6> HIDE DEF Body, Upto
          <6> QED BY <2>3, <5>1
        <5> QED BY <3>0, <4>2, <5>2
      <4> QED BY <4>1, <4>2
    <3>2. Body(r, k) = Body(s, k)
      <4>1. CASE k # 0 /\ rest[k] >= 0
        <5>0. rest[k] \in D /\ rest[k] < k /\ rest[k] \in Int
          BY <3>0, <4>1
        <5>1. rest[k] # j /\ rest[k] \in Upto(j)
          BY <2>2, <3>0, <5>0
        <5>2. s[rest[k]] = r[rest[k]]
          BY <5>1
        <5> HIDE DEF s
        <5> QED BY <5>2
      <4>2. CASE k # 0 /\ rest[k] < 0
        <5> HIDE DEF s
        <5> QED BY <4>2
      <4>3. CASE k = 0
        <5> HIDE DEF s
        <5> QED BY <4>3
      <4>4. k # 0 => rest[k] \in Int
        BY <3>0
      <4> QED BY <4>1, <4>2, <4>3, <4>4
    <3> HIDE DEF s, t, Body
    <3> QED BY <3>0, <3>1, <3>2
  <2>5. s = t
    <3> HIDE DEF Body
    <3> QED BY <2>4
  <2>6. Good(j)
    <3> HIDE DEF s, Body, Upto
    <3> QED BY <2>5
  <2> QED BY <2>1, <2>6
<1>2. C \notin Bad
  BY <1>1
<1>3. Upto(C) = D
  <2>1. ASSUME NEW k \in D PROVE k <= C
    <3>1. k \in 0 .. C
      OBVIOUS
    <3> QED BY <3>1
  <2> QED BY <2>1
<1>4. PICK r : r = [k \in Upto(C) |-> Body(r, k)]
  BY <1>2
<1>5. r = [k \in D |-> Body(r, k)]
  <2> HIDE DEF Body, Upto
  <2> QED BY <1>3, <1>4
<1>6. \A k \in D : r[k] = Body(r, k)
  <2> HIDE DEF Body
  <2> QED BY <1>5
<1>7. r = [k \in D |-> r[k]]
  <2> HIDE DEF Body
  <2> QED BY <1>5
<1> QED BY <1>6, <1>7 DEF Decodes

-----------------------------------------------------------------------------
(* The records between the cursors *)

Lefts == {n \in 0 .. Capacity : n % ALIGN = 0}
Found(tail, left) == decode_record(Sub(tail, left))
After(tail, left) == left - Sub(Found(tail, left).cur, Sub(tail, left)) - record_len(Found(tail, left).len)

\* The difference of aligned cursors is aligned, whichever of them is ahead.
LEMMA AlignedSub ==
  ASSUME NEW a \in Nat, a % 4 = 0, NEW b \in Nat, b % 4 = 0
  PROVE  Sub(a, b) \in Nat /\ Sub(a, b) % 4 = 0 /\ Sub(a, b) < Modulus
<1>1. PICK k \in Int : Modulus = 4 * k
  <2>1. PICK i \in Nat : Capacity = 4 * i
    BY CapacityQuads
  <2>2. PICK q \in Int : Modulus = Capacity * q + (Modulus % Capacity)
    BY Sizes, ModInterval, Zenon
  <2>3. Modulus = 4 * (i * q) /\ i * q \in Int
    BY <2>1, <2>2, Sizes
  <2> QED BY <2>3
<1>2. a - b \in Int /\ Modulus \in Nat \ {0}
  BY Sizes
<1> DEFINE d == (a - b) % Modulus
<1>3. Sub(a, b) = d
  BY DEF Sub, wrapping_sub
<1>4. d \in 0 .. Modulus - 1
  BY <1>2, ModInterval
<1>5. PICK q \in Int : a - b = Modulus * q + d
  BY <1>2, ModInterval, Zenon
<1> HIDE DEF d
<1>6. Modulus * q = 4 * (k * q) /\ k * q \in Int
  BY <1>1
<1> DEFINE h == k * q
<1>7. h \in Int /\ a - b = 4 * h + d
  BY <1>5, <1>6
<1> HIDE DEF h
<1>8. d % 4 = 0
  BY <1>4, <1>7
<1> QED BY <1>2, <1>3, <1>4, <1>8

\* A length that is read from any aligned place is a length or PADDING, so the decoder goes down.
LEMMA DecoderGoesDown ==
  ASSUME TypeOK, DOMAIN buffer = Places, NEW tail \in Cursor, NEW left \in Lefts, left # 0
  PROVE  /\ After(tail, left) \in Int /\ After(tail, left) < left
         /\ After(tail, left) < 0 \/ After(tail, left) \in Lefts
<1>0. left \in Nat /\ left % 4 = 0 /\ left <= Capacity /\ tail \in Nat /\ tail % 4 = 0 /\ tail < Modulus
  BY Sizes DEF Lefts, Cursor, ALIGN
<1> DEFINE x == Sub(tail, left)
<1>3. x \in Nat /\ x % 4 = 0
  BY <1>0, AlignedSub
<1> DEFINE skip == IF Word(Position(x)) = PADDING THEN Capacity - Position(x) ELSE 0
           cur == Add(x, skip)
           len == Word(Position(cur))
<1>4. Found(tail, left) = [cur |-> cur, len |-> len]
  BY DEF Found, decode_record
<1> HIDE DEF x
<1>5. skip \in Nat /\ skip % 4 = 0
  <2>1. /\ ToEnd(x) \in Nat /\ ToEnd(x) % 4 = 0
        /\ skip = IF Word(Position(x)) = PADDING THEN ToEnd(x) ELSE 0
    BY <1>3, PositionType, PositionWord DEF ToEnd
  <2> HIDE DEF skip
  <2> QED BY <2>1
<1> HIDE DEF skip
<1>6. cur \in Nat /\ cur % 4 = 0
  <2>1. x + skip \in Nat /\ (x + skip) % 4 = 0
    BY <1>3, <1>5, Aligned
  <2>2. cur = (x + skip) % Modulus
    BY <1>3 DEF Add, wrapping_add
  <2>3. (x + skip) % Modulus \in Cursor
    BY <2>1, CursorOfCount
  <2> QED BY <2>2, <2>3, Sizes DEF Cursor, ALIGN
<1> HIDE DEF cur
<1>7. len \in Nat \union {PADDING}
  <2>1. Position(cur) \in Places
    BY <1>6, PositionWord
  <2>2. len = buffer[Position(cur)]
    BY <1>6, WordAt
  <2> QED BY <2>1, <2>2 DEF TypeOK
<1> HIDE DEF len
<1>8. record_len(len) \in Nat /\ record_len(len) % 4 = 0 /\ record_len(len) >= 4
  <2>1. CASE len \in Nat
    BY <2>1, RecordLen
  <2>2. CASE len = PADDING
    <3>1. record_len(len) = ((4 + (-1) + 4 - 1) \div 4) * 4
      BY <2>2 DEF record_len, align_up, HEADER, ALIGN, PADDING
    <3> QED BY <3>1
  <2> QED BY <1>7, <2>1, <2>2
<1>9. Sub(cur, x) \in Nat /\ Sub(cur, x) % 4 = 0
  BY <1>3, <1>6, AlignedSub
<1>10. After(tail, left) = left - Sub(cur, x) - record_len(len)
  BY <1>4 DEF After, x
<1> DEFINE a == After(tail, left)
           s == Sub(cur, x)
           l == record_len(len)
<1>11. a = left - s - l /\ s \in Nat /\ s % 4 = 0 /\ l \in Nat /\ l % 4 = 0 /\ l >= 4
  BY <1>8, <1>9, <1>10
<1> HIDE DEF a, s, l
<1>12. a \in Int /\ a < left /\ (a < 0 \/ (a \in 0 .. Capacity /\ a % 4 = 0))
  BY <1>0, <1>11, CapacityType
<1> QED BY <1>12 DEF a, Lefts, ALIGN

\* So it computes what its definition says.
LEMMA DecodedSteps ==
  ASSUME TypeOK, DOMAIN buffer = Places, NEW tail \in Cursor
  PROVE  /\ Decoded(tail)[0] = << >>
         /\ \A left \in Lefts \ {0} :
              Decoded(tail)[left] =
                <<Record(Found(tail, left))>> \o
                  (IF After(tail, left) < 0 THEN << >> ELSE Decoded(tail)[After(tail, left)])
<1> DEFINE Body(r) == [left \in Lefts |->
                         IF left = 0 THEN << >>
                         ELSE <<Record(Found(tail, left))>> \o
                                (IF After(tail, left) < 0 THEN << >> ELSE r[After(tail, left)])]
<1>1. Decoded(tail) = CHOOSE r : r = Body(r)
  BY DEF Decoded, Lefts, Found, After
<1>2. \E r : r = Body(r)
  <2> DEFINE first == [left \in Lefts |-> Record(Found(tail, left))]
             rest == [left \in Lefts |-> After(tail, left)]
  <2>1. GoesDown(Lefts, rest)
    BY DecoderGoesDown DEF GoesDown
  <2>2. Lefts \in SUBSET (0 .. Capacity) /\ Capacity \in Nat
    BY CapacityType DEF Lefts
  <2>3. PICK r : Decodes(r, Lefts, first, rest)
    <3> HIDE DEF first, rest, Body
    <3> QED BY <2>1, <2>2, DecoderExists
  <2> DEFINE s == Body(r)
  <2>4. ASSUME NEW k \in Lefts PROVE r[k] = s[k]
    BY <2>3 DEF Decodes
  <2>5. r = s
    <3>1. s = [k \in Lefts |-> s[k]]
      OBVIOUS
    <3>2. r = [k \in Lefts |-> r[k]]
      BY <2>3 DEF Decodes
    <3> HIDE DEF s
    <3> QED BY <2>4, <3>1, <3>2
  <2> QED BY <2>5
<1> DEFINE D == Decoded(tail)
<1>3. D = Body(D)
  <2> HIDE DEF Body
  <2> QED BY <1>1, <1>2
<1> HIDE DEF D
<1>4. 0 \in Lefts
  BY CapacityType DEF Lefts, ALIGN
<1>5. D[0] = << >>
  BY <1>3, <1>4
<1>6. ASSUME NEW left \in Lefts \ {0}
      PROVE  D[left] = <<Record(Found(tail, left))>> \o
                         (IF After(tail, left) < 0 THEN << >> ELSE D[After(tail, left)])
  BY <1>3
<1> QED BY <1>5, <1>6 DEF D

\* The record of a frame, and those of the frames after the m-th.
RecordIn(f) == [len |-> f.len, payload |-> [i \in 1 .. (record_len(f.len) - HEADER) \div ALIGN |-> f.word]]
Rest(F, m) == [i \in 1 .. Len(F) - m |-> RecordIn(F[m + i])]

\* A cursor that has the first m frames behind it, and perhaps the padding of the next.
StandsAfter(F, R, m) ==
  /\ m \in 0 .. Len(F)
  /\ R = End(F, m) \/ (m < Len(F) /\ R = F[m + 1].at)

LEMMA Listed ==
  ASSUME NEW T, NEW k \in Nat, NEW s, s = [i \in 1 .. k |-> s[i]], \A i \in 1 .. k : s[i] \in T
  PROVE  s \in Seq(T) /\ Len(s) = k
<1>1. s \in Seq(T)
  OBVIOUS
<1>2. Len(s) = k
  OBVIOUS
<1> QED BY <1>1, <1>2

LEMMA RestSteps ==
  ASSUME NEW F, Len(F) \in Nat, NEW m \in 0 .. Len(F)
  PROVE  /\ m = Len(F) => Rest(F, m) = << >>
         /\ m # Len(F) => Rest(F, m) = <<RecordIn(F[m + 1])>> \o Rest(F, m + 1)
         /\ Len(Rest(F, m)) = Len(F) - m
         /\ m # Len(F) => Rest(F, m) # << >> /\ Tail(Rest(F, m)) = Rest(F, m + 1)
<1>1. Rest(F, m) \in Seq({RecordIn(F[m + i]) : i \in 1 .. Len(F) - m}) /\ Len(Rest(F, m)) = Len(F) - m
  <2> DEFINE k == Len(F) - m
             all == {RecordIn(F[m + i]) : i \in 1 .. k}
             s == Rest(F, m)
  <2>1. s = [i \in 1 .. k |-> s[i]] /\ k \in Nat /\ \A i \in 1 .. k : s[i] \in all
    BY DEF Rest
  <2> HIDE DEF s, all, k
  <2>2. s \in Seq(all) /\ Len(s) = k
    BY <2>1, Listed
  <2> QED BY <2>2 DEF s, all, k
<1>2. ASSUME m = Len(F) PROVE Rest(F, m) = << >>
  BY <1>2 DEF Rest
<1>3. ASSUME m # Len(F)
      PROVE  /\ Rest(F, m) = <<RecordIn(F[m + 1])>> \o Rest(F, m + 1)
             /\ Rest(F, m) # << >> /\ Tail(Rest(F, m)) = Rest(F, m + 1)
  <2> DEFINE k == Len(F) - m
             first == RecordIn(F[m + 1])
             rest == Rest(F, m + 1)
             all == {RecordIn(F[m + i]) : i \in 1 .. k}
  <2>1. k \in Nat /\ k >= 1 /\ Len(F) - (m + 1) = k - 1
    BY <1>3
  <2>2. /\ rest = [i \in 1 .. k - 1 |-> RecordIn(F[m + 1 + i])]
        /\ Rest(F, m) = [i \in 1 .. k |-> RecordIn(F[m + i])]
    BY <2>1 DEF Rest
  <2>3. first \in all
    <3>1. 1 \in 1 .. k
      BY <2>1
    <3> QED BY <3>1
  <2>4. ASSUME NEW i \in 1 .. k - 1 PROVE rest[i] \in all /\ rest[i] = Rest(F, m)[i + 1]
    <3>1. i + 1 \in 1 .. k /\ m + 1 + i = m + (i + 1)
      BY <2>1
    <3>2. rest[i] = RecordIn(F[m + (i + 1)]) /\ Rest(F, m)[i + 1] = RecordIn(F[m + (i + 1)])
      BY <2>2, <3>1
    <3> QED BY <3>1, <3>2
  <2>5. rest \in Seq(all) /\ Len(rest) = k - 1
    <3>1. rest = [i \in 1 .. k - 1 |-> rest[i]]
      BY <2>2
    <3>2. k - 1 \in Nat
      BY <2>1
    <3> HIDE DEF rest, all
    <3> QED BY <2>4, <3>1, <3>2
  <2>6. Rest(F, m) \in Seq(all) /\ Len(Rest(F, m)) = k
    BY <1>1
  <2>7. Rest(F, m)[1] = first
    BY <2>1, <2>2
  <2> HIDE DEF first, rest, all
  <2>8. /\ <<first>> \o rest \in Seq(all) /\ Len(<<first>> \o rest) = k
        /\ \A i \in 1 .. k : (<<first>> \o rest)[i] = IF i = 1 THEN first ELSE rest[i - 1]
    <3> DEFINE one == <<first>>
    <3>1. one \in Seq(all) /\ Len(one) = 1 /\ one[1] = first
      BY <2>3
    <3> HIDE DEF one
    <3>5. /\ one \o rest \in Seq(all) /\ Len(one \o rest) = Len(one) + Len(rest)
          /\ \A i \in 1 .. Len(one) + Len(rest) :
               (one \o rest)[i] = IF i <= Len(one) THEN one[i] ELSE rest[i - Len(one)]
      BY <2>5, <3>1, ConcatProperties, Zenon
    <3>2. /\ one \o rest \in Seq(all) /\ Len(one \o rest) = 1 + (k - 1)
          /\ \A i \in 1 .. 1 + (k - 1) : (one \o rest)[i] = IF i <= 1 THEN one[i] ELSE rest[i - 1]
      BY <2>5, <3>1, <3>5, Zenon
    <3>3. 1 + (k - 1) = k /\ \A i \in 1 .. k : i <= 1 <=> i = 1
      BY <2>1
    <3>4. \A i \in 1 .. k : (one \o rest)[i] = IF i = 1 THEN first ELSE rest[i - 1]
      BY <3>1, <3>2, <3>3
    <3> QED BY <3>2, <3>3, <3>4 DEF one
  <2>9. \A i \in 1 .. k : (<<first>> \o rest)[i] = Rest(F, m)[i]
    <3> TAKE i \in 1 .. k
    <3>1. CASE i = 1
      BY <2>7, <2>8, <3>1
    <3>2. CASE i # 1
      <4>1. i - 1 \in 1 .. k - 1 /\ (i - 1) + 1 = i
        BY <2>1, <3>2
      <4>2. rest[i - 1] = Rest(F, m)[i]
        BY <2>4, <4>1
      <4> QED BY <2>8, <3>2, <4>2
    <3> QED BY <3>1, <3>2
  <2>10. Rest(F, m) = <<first>> \o rest
    BY <2>6, <2>8, <2>9, SeqEqual
  <2>11. Rest(F, m) # << >>
    BY <2>1, <2>6
  <2>12. Tail(Rest(F, m)) = rest
    <3>1. /\ Tail(Rest(F, m)) \in Seq(all) /\ Len(Tail(Rest(F, m))) = k - 1
          /\ \A i \in 1 .. k - 1 : Tail(Rest(F, m))[i] = Rest(F, m)[i + 1]
      BY <2>6, <2>11, HeadTailProperties
    <3>2. \A i \in 1 .. k - 1 : Tail(Rest(F, m))[i] = rest[i]
      BY <2>4, <3>1
    <3> QED BY <2>5, <3>1, <3>2, SeqEqual
  <2> QED BY <2>10, <2>11, <2>12 DEF first, rest
<1> QED BY <1>1, <1>2, <1>3

\* One more frame is one more record.
LEMMA RestAppended ==
  ASSUME NEW F, NEW S, F \in Seq(S), NEW f \in S, NEW m \in 0 .. Len(F)
  PROVE  Rest(Append(F, f), m) = Append(Rest(F, m), RecordIn(f))
<1>1. /\ Len(F) \in Nat /\ Len(Append(F, f)) = Len(F) + 1 /\ Append(F, f)[Len(F) + 1] = f
      /\ \A i \in 1 .. Len(F) : Append(F, f)[i] = F[i]
  BY AppendProperties, LenProperties
<1> DEFINE k == Len(F) - m
           more == Rest(Append(F, f), m)
           all == {RecordIn(g) : g \in S}
<1>2. k \in Nat /\ Len(F) + 1 - m = k + 1 /\ m + (k + 1) = Len(F) + 1
  BY <1>1
<1>3. Rest(F, m) = [i \in 1 .. k |-> RecordIn(F[m + i])]
  BY DEF Rest
<1>4. more = [i \in 1 .. k + 1 |-> RecordIn(Append(F, f)[m + i])]
  BY <1>1, <1>2 DEF Rest
<1>5. ASSUME NEW i \in 1 .. k
      PROVE  m + i \in 1 .. Len(F) /\ Append(F, f)[m + i] = F[m + i] /\ F[m + i] \in S
  <2>1. m + i \in 1 .. Len(F)
    BY <1>1
  <2> QED BY <1>1, <2>1, ElementOfSeq
<1>6. \A i \in 1 .. k : Rest(F, m)[i] \in all /\ more[i] = Rest(F, m)[i]
  <2> TAKE i \in 1 .. k
  <2>1. i \in 1 .. k + 1
    BY <1>2
  <2>2. more[i] = RecordIn(Append(F, f)[m + i]) /\ Rest(F, m)[i] = RecordIn(F[m + i])
    BY <1>3, <1>4, <2>1
  <2> QED BY <1>5, <2>2
<1>7. more[k + 1] = RecordIn(f)
  <2>1. k + 1 \in 1 .. k + 1
    BY <1>2
  <2> QED BY <1>1, <1>2, <1>4, <2>1
<1>8. RecordIn(f) \in all
  OBVIOUS
<1>9. Rest(F, m) = [i \in 1 .. k |-> Rest(F, m)[i]] /\ more = [i \in 1 .. k + 1 |-> more[i]]
  BY <1>3, <1>4
<1> DEFINE old == Rest(F, m)
           new == RecordIn(f)
<1> HIDE DEF k, more, all, old, new
<1>10. old \in Seq(all) /\ Len(old) = k
  <2>1. k \in Nat /\ old = [i \in 1 .. k |-> old[i]] /\ \A i \in 1 .. k : old[i] \in all
    BY <1>2, <1>6, <1>9 DEF old
  <2> QED BY <2>1, Listed
<1>11. /\ Append(old, new) \in Seq(all) /\ Len(Append(old, new)) = k + 1
       /\ Append(old, new)[k + 1] = new
       /\ \A i \in 1 .. k : Append(old, new)[i] = old[i]
  BY <1>8, <1>10, AppendProperties DEF new
<1>12. ASSUME NEW i \in 1 .. k + 1 PROVE more[i] \in all /\ more[i] = Append(old, new)[i]
  <2>1. CASE i = k + 1
    BY <1>7, <1>8, <1>11, <2>1 DEF new
  <2>2. CASE i # k + 1
    <3>1. i \in 1 .. k
      BY <1>2, <2>2
    <3> QED BY <1>6, <1>11, <3>1 DEF old
  <2> QED BY <2>1, <2>2
<1>13. more \in Seq(all) /\ Len(more) = k + 1
  <2>1. k + 1 \in Nat /\ more = [i \in 1 .. k + 1 |-> more[i]] /\ \A i \in 1 .. k + 1 : more[i] \in all
    BY <1>2, <1>9, <1>12
  <2> QED BY <2>1, Listed
<1>14. more = Append(old, new)
  BY <1>11, <1>12, <1>13, SeqEqual
<1> QED BY <1>14 DEF more, old, new

\* What the consumer would decode from where it stands to the write cursor.
Queue == Decoded(write_cursor)[Sub(write_cursor, c.read_cursor)]

\* From a frame on, with or without its padding, the decoder finds its record and goes on at its end.
LEMMA DecodesFrame ==
  ASSUME TypeOK, DOMAIN buffer = Places, NEW W \in Nat, write_cursor = W % Modulus, W % 4 = 0,
         NEW P \in Nat, W <= P + Capacity, NEW f, WellFramed(f), Held(f, P), f.end <= W,
         NEW R, R \in {f.start, f.at}, P <= R
  PROVE  Decoded(write_cursor)[W - R] = <<RecordIn(f)>> \o Decoded(write_cursor)[W - f.end]
<1>1. /\ f.start \in Nat /\ f.at \in Nat /\ f.end \in Nat /\ f.len \in Nat
      /\ f.start % 4 = 0 /\ f.at % 4 = 0 /\ f.start <= f.at /\ f.at + 4 <= f.end
      /\ record_len(f.len) \in Nat /\ f.end = f.at + record_len(f.len)
  BY Framed
<1>2. R \in Nat /\ R % 4 = 0 /\ R <= f.at /\ R < W /\ P <= f.at
  BY <1>1
<1>3. /\ W - R \in Lefts /\ W - R # 0 /\ W - R <= W /\ W - (W - R) = R /\ W - R \in Nat
  <2>1. W - R \in Nat /\ W - R <= Capacity /\ (W - R) % 4 = 0
    BY <1>2, CapacityType
  <2> QED BY <1>2, <2>1, CapacityType DEF Lefts, ALIGN
<1>4. Sub(write_cursor, W - R) = R % Modulus
  <2>1. Sub(W % Modulus, W - R) = (W - (W - R)) % Modulus
    BY <1>3, SubCount
  <2> QED BY <1>3, <2>1
<1>5. Found(write_cursor, W - R) = [cur |-> f.at % Modulus, len |-> f.len]
  <2>1. decode_record(R % Modulus) = [cur |-> f.at % Modulus, len |-> f.len]
    BY Decode
  <2> QED BY <1>4, <2>1 DEF Found
<1>6. After(write_cursor, W - R) = W - f.end
  <2>1. f.at - R < Modulus
    <3>1. f.at <= P + Capacity
      BY <1>1, CapacityType
    <3>3. f.at \in Nat /\ R \in Nat /\ Capacity \in Nat /\ f.at <= R + Capacity
      BY <1>1, <1>2, <3>1, CapacityType
    <3>2. f.at - R <= Capacity
      BY <3>3
    <3> QED BY <1>1, <1>2, <3>2, Sizes
  <2>2. Sub(f.at % Modulus, R % Modulus) = f.at - R
    BY <1>1, <1>2, <2>1, Distance
  <2>3. After(write_cursor, W - R) = (W - R) - (f.at - R) - record_len(f.len)
    BY <1>4, <1>5, <2>2 DEF After
  <2> QED BY <1>1, <1>2, <2>3
<1>7. Record(Found(write_cursor, W - R)) = RecordIn(f)
  <2>1. HeldPayload(f)
    BY <1>2 DEF Held, HeldRecord
  <2>2. Record([cur |-> f.at % Modulus, len |-> f.len]) = RecordIn(f)
    BY <2>1, RecordAsWritten DEF RecordIn
  <2> QED BY <1>5, <2>2
<1>8. write_cursor \in Cursor
  BY CursorOfCount
<1>9. Decoded(write_cursor)[W - R] =
        <<Record(Found(write_cursor, W - R))>> \o
          (IF After(write_cursor, W - R) < 0 THEN << >>
           ELSE Decoded(write_cursor)[After(write_cursor, W - R)])
  BY <1>3, <1>8, DecodedSteps
<1>10. ~(W - f.end < 0)
  BY <1>1
<1> QED BY <1>6, <1>7, <1>9, <1>10

\* From the end of a frame on, the decoder finds the records of the frames after it.
LEMMA DecodesRest ==
  ASSUME TypeOK, DOMAIN buffer = Places, NEW W \in Nat, write_cursor = W % Modulus, W % 4 = 0,
         NEW P \in Nat, W <= P + Capacity, NEW F, FramesAt(F, W), ContentsAt(F, P),
         NEW m \in 0 .. Len(F), P <= End(F, m)
  PROVE  Decoded(write_cursor)[W - End(F, m)] = Rest(F, m)
<1>0. Len(F) \in Nat /\ End(F, Len(F)) = W
  BY LenProperties DEF FramesAt
<1> DEFINE Right(n) == Decoded(write_cursor)[W - End(F, n)] = Rest(F, n)
           Bad == {k \in 0 .. Len(F) : P <= End(F, Len(F) - k) /\ ~Right(Len(F) - k)}
<1>1. Bad = {}
  <2> SUFFICES ASSUME Bad # {} PROVE FALSE
    OBVIOUS
  <2>1. PICK k \in Bad : \A j \in Bad : k <= j
    <3>1. Bad \in SUBSET Nat
      BY <1>0
    <3> HIDE DEF Bad
    <3> QED BY <3>1, Least
  <2>2. k \in 0 .. Len(F) /\ P <= End(F, Len(F) - k) /\ ~Right(Len(F) - k)
    BY <2>1
  <2>3. PICK n \in 0 .. Len(F) : n = Len(F) - k
    BY <1>0, <2>2
  <2> HIDE DEF Right
  <2>4. P <= End(F, n) /\ ~Right(n)
    BY <2>2, <2>3
  <2>5. n # Len(F)
    <3> SUFFICES ASSUME n = Len(F) PROVE Right(n)
      BY <2>4
    <3>1. W - End(F, n) = 0
      BY <1>0
    <3>2. write_cursor \in Cursor
      BY CursorOfCount
    <3>3. Decoded(write_cursor)[0] = << >>
      BY <3>2, DecodedSteps
    <3>4. Rest(F, n) = << >>
      BY <1>0, RestSteps
    <3> QED BY <3>1, <3>3, <3>4 DEF Right
  <2>6. n + 1 \in 1 .. Len(F) /\ n + 1 \in 0 .. Len(F) /\ (n + 1) - 1 = n
    BY <1>0, <2>5
  <2>7. PICK f : f = F[n + 1]
    OBVIOUS
  <2>8. WellFramed(f) /\ f.start = End(F, n) /\ f.end = End(F, n + 1) /\ Held(f, P) /\ f.end <= W
    BY <2>6, <2>7, FrameAt, EndType DEF ContentsAt
  <2>9. f.start \in Nat /\ f.at \in Nat /\ f.end \in Nat /\ f.start <= f.at /\ f.at + 4 <= f.end
    BY <2>8, Framed
  <2>10. Right(n + 1)
    <3>1. k - 1 \in 0 .. Len(F) /\ ~(k <= k - 1) /\ Len(F) - (k - 1) = n + 1
      BY <1>0, <2>2, <2>3, <2>5
    <3>2. P <= End(F, n + 1)
      BY <2>4, <2>8, <2>9
    <3>3. k - 1 \notin Bad
      <4> HIDE DEF Bad
      <4> QED BY <2>1, <3>1
    <3> QED BY <3>1, <3>2, <3>3
  <2>11. Decoded(write_cursor)[W - f.start] = <<RecordIn(f)>> \o Decoded(write_cursor)[W - f.end]
    <3>1. P <= f.start
      BY <2>4, <2>8
    <3> QED BY <2>8, <3>1, DecodesFrame
  <2>12. Rest(F, n) = <<RecordIn(f)>> \o Rest(F, n + 1)
    BY <1>0, <2>5, <2>7, RestSteps
  <2>13. Right(n)
    BY <2>8, <2>10, <2>11, <2>12 DEF Right
  <2> QED BY <2>4, <2>13
<1>2. Len(F) - m \in 0 .. Len(F) /\ Len(F) - (Len(F) - m) = m
  BY <1>0
<1>3. Len(F) - m \notin Bad
  BY <1>1
<1> HIDE DEF Right
<1>4. Right(m)
  BY <1>2, <1>3
<1> QED BY <1>4 DEF Right

\* The queue holds the records of the frames the consumer has not passed.
QueueIsRest ==
  \A F \in Seq(Frames) : \A Q, P, R, K, W, m \in Nat :
    At(F, Q, P, R, K, W) /\ StandsAfter(F, R, m) => Queue = Rest(F, m)

LEMMA QueueStanding ==
  ASSUME TypeOK, DOMAIN buffer = Places, NEW W \in Nat, write_cursor = W % Modulus, W % 4 = 0,
         NEW P \in Nat, W <= P + Capacity, NEW F, FramesAt(F, W), ContentsAt(F, P),
         NEW R \in Nat, P <= R, R <= W, c.read_cursor = R % Modulus, NEW m, StandsAfter(F, R, m)
  PROVE  Queue = Rest(F, m)
<1>1. Sub(write_cursor, c.read_cursor) = W - R
  <2>1. W - R <= Capacity
    BY CapacityType
  <2>2. W - R < Modulus
    BY <2>1, Sizes
  <2> QED BY <2>2, Distance
<1>2. Len(F) \in Nat /\ m \in 0 .. Len(F)
  BY LenProperties DEF FramesAt, StandsAfter
<1>3. CASE R = End(F, m)
  <2>1. Decoded(write_cursor)[W - End(F, m)] = Rest(F, m)
    BY <1>2, <1>3, DecodesRest
  <2> QED BY <1>1, <1>3, <2>1 DEF Queue
<1>4. CASE m < Len(F) /\ R = F[m + 1].at
  <2>1. m + 1 \in 1 .. Len(F) /\ m + 1 \in 0 .. Len(F)
    BY <1>2, <1>4
  <2>2. PICK f : f = F[m + 1]
    OBVIOUS
  <2>3. WellFramed(f) /\ f.end = End(F, m + 1) /\ Held(f, P) /\ f.end <= W /\ R = f.at
    BY <1>4, <2>1, <2>2, FrameAt, EndType DEF ContentsAt
  <2>4. Decoded(write_cursor)[W - R] = <<RecordIn(f)>> \o Decoded(write_cursor)[W - f.end]
    BY <2>3, DecodesFrame
  <2>5. P <= End(F, m + 1)
    <3>1. f.at \in Nat /\ f.end \in Nat /\ f.at + 4 <= f.end
      BY <2>3, Framed
    <3> QED BY <2>3, <3>1
  <2>6. Decoded(write_cursor)[W - f.end] = Rest(F, m + 1)
    BY <2>1, <2>3, <2>5, DecodesRest
  <2>7. Rest(F, m) = <<RecordIn(f)>> \o Rest(F, m + 1)
    BY <1>2, <1>4, <2>2, RestSteps
  <2> QED BY <1>1, <2>4, <2>6, <2>7 DEF Queue
<1> QED BY <1>3, <1>4 DEF StandsAfter

LEMMA QueueHolds == IInv => QueueIsRest
<1> SUFFICES ASSUME IInv,
                    NEW F \in Seq(Frames), NEW Q \in Nat, NEW P \in Nat, NEW R \in Nat,
                    NEW K \in Nat, NEW W \in Nat, NEW m \in Nat,
                    At(F, Q, P, R, K, W), StandsAfter(F, R, m)
             PROVE  Queue = Rest(F, m)
  BY DEF QueueIsRest
<1>1. TypeOK /\ DOMAIN buffer = Places
  BY DEF IInv, IsArray
<1>2. /\ P <= R /\ W <= P + Capacity /\ W % 4 = 0
      /\ c.read_cursor = R % Modulus /\ write_cursor = W % Modulus
      /\ FramesAt(F, W) /\ ContentsAt(F, P)
  BY <1>1, ConsumerFacts
<1>3. R <= W
  <2>1. R <= K /\ K <= W
    BY <1>1, ConsumerFacts
  <2> QED BY <2>1
<1> QED BY <1>1, <1>2, <1>3, QueueStanding

\* Wherever it is, the consumer stands after some of the frames.
LEMMA StandsSomewhere ==
  ASSUME TypeOK,
         NEW CONSTANT F, NEW CONSTANT Q \in Nat, NEW CONSTANT P \in Nat, NEW CONSTANT R \in Nat,
         NEW CONSTANT K \in Nat, NEW CONSTANT W \in Nat, At(F, Q, P, R, K, W)
  PROVE  \E m \in Nat : StandsAfter(F, R, m)
<1>1. c \in Consumers /\ FramesAt(F, W) /\ ConsumerAt(F, P, R, K)
  BY ConsumerFacts
<1>2. Len(F) \in Nat
  BY <1>1, LenProperties DEF FramesAt
<1>3. ASSUME NEW n \in 1 .. Len(F), R \in {F[n].start, F[n].at} PROVE \E m \in Nat : StandsAfter(F, R, m)
  <2>1. n - 1 \in 0 .. Len(F) /\ F[n].start = End(F, n - 1)
    BY <1>1, FrameAt
  <2>2. n - 1 \in Nat /\ n - 1 < Len(F) /\ (n - 1) + 1 = n
    BY <1>2
  <2>3. StandsAfter(F, R, n - 1)
    BY <1>3, <2>1, <2>2 DEF StandsAfter
  <2> QED BY <2>2, <2>3
<1>4. ASSUME NEW n \in 0 .. Len(F), R = End(F, n) PROVE \E m \in Nat : StandsAfter(F, R, m)
  <2>1. n \in Nat /\ StandsAfter(F, R, n)
    BY <1>2, <1>4 DEF StandsAfter
  <2> QED BY <2>1
<1>5. CASE R = K
  <2>1. PICK n \in 0 .. Len(F) : K = End(F, n)
    BY <1>1 DEF ConsumerAt
  <2> QED BY <1>4, <1>5, <2>1
<1>6. CASE Stands(F, R, K)
  <2>1. PICK n \in 1 .. Len(F) : R \in {F[n].start, F[n].at}
    BY <1>6 DEF Stands
  <2> QED BY <1>3, <2>1
<1>7. CASE Lent(F, R, K)
  <2>1. PICK n \in 1 .. Len(F) : R = F[n].at
    BY <1>7 DEF Lent
  <2> QED BY <1>3, <2>1
<1>8. CASE CalledBack(F, P, R, K)
  <2>1. PICK n \in 1 .. Len(F) : R = F[n].end
    BY <1>8 DEF CalledBack
  <2>2. n \in 0 .. Len(F) /\ R = End(F, n)
    BY <1>1, <2>1, FrameAt
  <2> QED BY <1>4, <2>2
<1>9. c.pc \in {"idle", "dropped", "ready", "drain", "holding", "releasing", "callback"}
  BY <1>1 DEF Consumers
<1> QED BY <1>1, <1>5, <1>6, <1>7, <1>8, <1>9 DEF ConsumerAt

-----------------------------------------------------------------------------
(* The refinement *)

\* Records that follow one another from R to the write cursor fit between them.
LEMMA RestFits ==
  ASSUME NEW F, NEW W \in Nat, FramesAt(F, W), NEW R \in Nat, R <= W, NEW m, StandsAfter(F, R, m)
  PROVE  Abstract!Used(Rest(F, m)) \in Nat /\ Abstract!Used(Rest(F, m)) <= W - R
<1>1. Len(F) \in Nat /\ End(F, Len(F)) = W /\ m \in 0 .. Len(F) /\ m \in Nat
  BY LenProperties DEF FramesAt, StandsAfter
<1> DEFINE k == Len(F) - m
           q == Rest(F, m)
           place == [n \in 0 .. k |-> IF n = 0 THEN 0 ELSE End(F, m + n) - R]
<1>2. k \in Nat /\ Len(q) = k
  <2>1. Len(Rest(F, m)) = Len(F) - m
    BY <1>1, RestSteps
  <2> QED BY <1>1, <2>1
<1>3. ASSUME NEW n \in 1 .. k
      PROVE  /\ SizeOf(q[n]) \in Nat /\ place[n - 1] \in Nat /\ place[n] \in Nat
             /\ place[n - 1] + SizeOf(q[n]) <= place[n]
  <2>1. m + n \in 1 .. Len(F) /\ (m + n) - 1 = m + (n - 1) /\ n \in 0 .. k /\ n - 1 \in 0 .. k /\ n # 0
    BY <1>1, <1>2
  <2>2. PICK f : f = F[m + n]
    OBVIOUS
  <2>3. WellFramed(f) /\ f.start = End(F, m + (n - 1)) /\ f.end = End(F, m + n)
    BY <2>1, <2>2, FrameAt
  <2>4. /\ f.start \in Nat /\ f.at \in Nat /\ f.end \in Nat /\ f.start <= f.at
        /\ record_len(f.len) \in Nat /\ f.end = f.at + record_len(f.len)
    BY <2>3, Framed
  <2>5. q[n] = RecordIn(f)
    BY <1>2, <2>2 DEF Rest
  <2>6. SizeOf(q[n]) = record_len(f.len)
    BY <2>5 DEF SizeOf, RecordIn
  <2>7. place[n] = f.end - R
    BY <2>1, <2>3
  <2>8. CASE n = 1
    <3>1. place[n - 1] = 0
      BY <1>2, <2>8
    <3>2. R <= f.at
      <4>1. CASE R = End(F, m)
        <5>1. f.start = End(F, m)
          BY <1>1, <2>3, <2>8
        <5> QED BY <2>4, <4>1, <5>1
      <4>2. CASE R = F[m + 1].at
        <5>1. R = f.at
          BY <2>2, <2>8, <4>2
        <5> QED BY <2>4, <5>1
      <4> QED BY <4>1, <4>2 DEF StandsAfter
    <3> HIDE DEF place, q
    <3> QED BY <2>4, <2>6, <2>7, <3>1, <3>2
  <2>9. CASE n # 1
    <3>1. place[n - 1] = f.start - R
      BY <2>1, <2>3, <2>9
    <3>2. R <= f.start
      <4>1. CASE R = End(F, m)
        <5>1. m < m + (n - 1) /\ m + (n - 1) \in 0 .. Len(F)
          BY <1>1, <1>2, <2>9
        <5>2. End(F, m) < End(F, m + (n - 1)) /\ End(F, m) \in Nat
          BY <1>1, <5>1, EndType DEF FramesAt
        <5> QED BY <2>3, <2>4, <4>1, <5>2
      <4>2. CASE m < Len(F) /\ R = F[m + 1].at
        <5>1. m + 1 \in 1 .. Len(F) /\ m + 1 \in 0 .. Len(F)
          BY <1>1, <4>2
        <5>2. PICK g : g = F[m + 1]
          OBVIOUS
        <5>3. WellFramed(g) /\ g.end = End(F, m + 1) /\ R = g.at
          BY <4>2, <5>1, <5>2, FrameAt
        <5>4. g.at \in Nat /\ g.end \in Nat /\ g.at + 4 <= g.end
          BY <5>3, Framed
        <5>5. End(F, m + 1) <= End(F, m + (n - 1))
          <6>1. CASE n = 2
            <7>1. m + (n - 1) = m + 1
              BY <1>1, <6>1
            <7> QED BY <5>3, <5>4, <7>1
          <6>2. CASE n # 2
            <7>1. m + 1 < m + (n - 1) /\ m + (n - 1) \in 0 .. Len(F)
              BY <1>1, <1>2, <2>9, <6>2
            <7>2. End(F, m + 1) < End(F, m + (n - 1))
              BY <5>1, <7>1 DEF FramesAt
            <7> QED BY <2>3, <2>4, <5>3, <5>4, <7>2
          <6> QED BY <6>1, <6>2
        <5> QED BY <2>3, <2>4, <5>3, <5>4, <5>5
      <4> QED BY <4>1, <4>2 DEF StandsAfter
    <3>3. f.start - R \in Nat /\ f.end - R \in Nat /\ (f.start - R) + record_len(f.len) <= f.end - R
      BY <2>4, <3>2
    <3> HIDE DEF place, q
    <3> QED BY <2>4, <2>6, <2>7, <3>1, <3>3
  <2> QED BY <2>8, <2>9
<1>4. place[0] = 0 /\ place[k] <= W - R
  <2>1. CASE k = 0
    BY <1>2, <2>1
  <2>2. CASE k # 0
    <3>1. k \in 0 .. k /\ m + k = Len(F)
      BY <1>1, <1>2
    <3> QED BY <1>1, <1>2, <2>2, <3>1
  <2> QED BY <2>1, <2>2
<1>5. \A n \in 0 .. Len(q) : place[n] \in Nat
  <2> TAKE n \in 0 .. Len(q)
  <2>1. CASE n = 0
    BY <1>4, <2>1
  <2>2. CASE n # 0
    <3>1. n \in 1 .. k
      BY <1>2, <2>2
    <3> HIDE DEF place, q, k
    <3> QED BY <1>3, <3>1
  <2> QED BY <2>1, <2>2
<1> HIDE DEF place, q, k
<1>6. \A n \in 1 .. Len(q) : SizeOf(q[n]) \in Nat /\ place[n - 1] + SizeOf(q[n]) <= place[n]
  BY <1>2, <1>3
<1>7. Len(q) \in Nat
  BY <1>2
<1>8. Abstract!Used(q) \in Nat /\ Abstract!Used(q) <= place[Len(q)]
  BY <1>4, <1>5, <1>6, <1>7, UsedBound
<1>9. Abstract!Used(q) <= W - R
  <2>1. place[k] \in Nat /\ W - R \in Nat
    BY <1>2, <1>5
  <2> QED BY <1>2, <1>4, <1>8, <2>1
<1> QED BY <1>8, <1>9 DEF q

\* Before a step, and after it.
LEMMA QueueNow ==
  ASSUME QueueIsRest, NEW CONSTANT F \in Seq(Frames), NEW CONSTANT m \in Nat,
         NEW CONSTANT Q \in Nat, NEW CONSTANT P \in Nat, NEW CONSTANT R \in Nat,
         NEW CONSTANT K \in Nat, NEW CONSTANT W \in Nat, At(F, Q, P, R, K, W),
         StandsAfter(F, R, m)
  PROVE  Queue = Rest(F, m)
  BY DEF QueueIsRest

LEMMA QueueThen ==
  ASSUME QueueIsRest', NEW CONSTANT F \in Seq(Frames), NEW CONSTANT m \in Nat,
         NEW CONSTANT Q \in Nat, NEW CONSTANT P \in Nat, NEW CONSTANT R \in Nat,
         NEW CONSTANT K \in Nat, NEW CONSTANT W \in Nat, At(F, Q, P, R, K, W)',
         StandsAfter(F, R, m)
  PROVE  Queue' = Rest(F, m)
<1>1. StandsAfter(F, R, m)'
  BY DEF StandsAfter, End
<1>2. Queue' = Rest(F, m)'
  BY <1>1 DEF QueueIsRest
<1>3. Rest(F, m)' = Rest(F, m)
  BY DEF Rest, RecordIn, record_len, align_up
<1> QED BY <1>2, <1>3

\* What a publish does to the queue.
LEMMA Enqueued ==
  ASSUME QueueIsRest, QueueIsRest', NEW CONSTANT F \in Seq(Frames), NEW CONSTANT m \in Nat,
         NEW CONSTANT Q \in Nat, NEW CONSTANT P \in Nat, NEW CONSTANT R \in Nat,
         NEW CONSTANT K \in Nat, NEW CONSTANT W \in Nat, NEW CONSTANT E \in Nat,
         At(F, Q, P, R, K, W), StandsAfter(F, R, m), NEW CONSTANT f \in Frames,
         Append(F, f) \in Seq(Frames), At(Append(F, f), Q, P, R, K, E)'
  PROVE  Abstract!Enqueue(Queue, Queue')
<1>1. PICK G : G = Append(F, f)
  OBVIOUS
<1>2. /\ G \in Seq(Frames) /\ Len(F) \in Nat /\ Len(G) = Len(F) + 1 /\ m \in 0 .. Len(F)
      /\ \A i \in 1 .. Len(F) : G[i] = F[i]
  BY <1>1, AppendProperties, LenProperties DEF StandsAfter
<1>3. StandsAfter(G, R, m)
  <2>1. m \in 0 .. Len(G) /\ m <= Len(F)
    BY <1>2
  <2>2. CASE R = End(F, m)
    <3>1. End(G, m) = End(F, m)
      BY <1>2 DEF End
    <3> QED BY <2>1, <2>2, <3>1 DEF StandsAfter
  <2>3. CASE m < Len(F) /\ R = F[m + 1].at
    <3>1. m + 1 \in 1 .. Len(F) /\ m < Len(G)
      BY <1>2, <2>3
    <3> QED BY <1>2, <2>1, <2>3, <3>1 DEF StandsAfter
  <2> QED BY <2>2, <2>3 DEF StandsAfter
<1>4. At(G, Q, P, R, K, E)'
  BY <1>1
<1>5. Queue = Rest(F, m)
  BY QueueNow
<1>6. Queue' = Rest(G, m)
  BY <1>2, <1>3, <1>4, QueueThen
<1>7. Queue' = Append(Queue, RecordIn(f))
  BY <1>1, <1>2, <1>5, <1>6, RestAppended
<1>8. RecordIn(f) \in AllRecords
  <2>1. f.len \in Lengths /\ f.word \in Words
    BY DEF Frames
  <2>2. RecordIn(f) \in {[len |-> f.len, payload |-> [i \in 1 .. (record_len(f.len) - HEADER) \div ALIGN |-> v]]
                         : v \in Words}
    BY <2>1 DEF RecordIn
  <2> QED BY <2>1, <2>2 DEF AllRecords
<1>9. Abstract!Used(Queue') <= Capacity
  <2>1. FramesAt(G, E)
    <3>1. FramesAt(G, E)'
      BY <1>4 DEF At
    <3> QED BY <3>1 DEF FramesAt, End, WellFramed, ToEnd, Position, record_len, align_up
  <2>2. Q <= P /\ P <= R /\ R <= K /\ K <= E /\ E <= Q + Capacity
    BY <1>4 DEF At, CursorsAt
  <2>3. R <= E /\ E - R <= Capacity
    BY <2>2, CapacityType
  <2>4. Abstract!Used(Rest(G, m)) <= E - R
    BY <1>3, <2>1, <2>3, RestFits
  <2>5. Abstract!Used(Rest(G, m)) \in Int
    BY <1>3, <2>1, <2>3, RestFits
  <2> QED BY <1>6, <2>3, <2>4, <2>5, CapacityType
<1> QED BY <1>7, <1>8, <1>9 DEF Abstract!Enqueue

\* A step that leaves the consumer after the same frames leaves the queue as it is.
LEMMA QueueStays ==
  ASSUME QueueIsRest, QueueIsRest', NEW CONSTANT F \in Seq(Frames), NEW CONSTANT m \in Nat,
         NEW CONSTANT Q \in Nat, NEW CONSTANT P \in Nat, NEW CONSTANT R \in Nat,
         NEW CONSTANT K \in Nat, NEW CONSTANT W \in Nat, At(F, Q, P, R, K, W),
         NEW CONSTANT M \in Nat, NEW CONSTANT N \in Nat, NEW CONSTANT S \in Nat,
         NEW CONSTANT L \in Nat, At(F, M, N, S, L, W)', StandsAfter(F, R, m), StandsAfter(F, S, m)
  PROVE  Queue' = Queue
<1>1. Queue = Rest(F, m)
  BY QueueNow
<1>2. Queue' = Rest(F, m)
  BY QueueThen
<1> QED BY <1>1, <1>2

\* What passing a record does to it.
LEMMA Dequeued ==
  ASSUME QueueIsRest, QueueIsRest', NEW CONSTANT F \in Seq(Frames), NEW CONSTANT n \in 1 .. Len(F),
         NEW CONSTANT Q \in Nat, NEW CONSTANT P \in Nat, NEW CONSTANT R \in Nat,
         NEW CONSTANT K \in Nat, NEW CONSTANT W \in Nat, At(F, Q, P, R, K, W),
         NEW CONSTANT N \in Nat, NEW CONSTANT S \in Nat, NEW CONSTANT L \in Nat,
         At(F, Q, N, S, L, W)', R \in {F[n].start, F[n].at}, S = F[n].end
  PROVE  Abstract!Dequeue(Queue, Queue')
<1>1. FramesAt(F, W) /\ Len(F) \in Nat
  BY LenProperties DEF At, FramesAt
<1>2. n - 1 \in 0 .. Len(F) /\ n \in 0 .. Len(F) /\ F[n].start = End(F, n - 1) /\ F[n].end = End(F, n)
  BY <1>1, FrameAt
<1>3. n - 1 \in Nat /\ n \in Nat /\ n - 1 < Len(F) /\ (n - 1) + 1 = n
  BY <1>1
<1>4. StandsAfter(F, R, n - 1) /\ StandsAfter(F, S, n)
  BY <1>2, <1>3 DEF StandsAfter
<1>5. Queue = Rest(F, n - 1)
  BY <1>3, <1>4, QueueNow
<1>6. Queue' = Rest(F, n)
  <2>1. S \in Nat
    OBVIOUS
  <2> QED BY <1>3, <1>4, <2>1, QueueThen
<1>7. Rest(F, n - 1) # << >> /\ Tail(Rest(F, n - 1)) = Rest(F, n)
  <2>1. n - 1 # Len(F)
    BY <1>3
  <2>2. Rest(F, n - 1) # << >> /\ Tail(Rest(F, n - 1)) = Rest(F, (n - 1) + 1)
    BY <1>1, <1>2, <2>1, RestSteps
  <2> QED BY <1>3, <2>2
<1> QED BY <1>5, <1>6, <1>7 DEF Abstract!Dequeue

\* Publish pushes, Release and DrainRecord pop, and nothing else moves the queue.
LEMMA QueueStep ==
  ASSUME IInv, QueueIsRest, QueueIsRest', [Next]_vars
  PROVE  Abstract!Enqueue(Queue, Queue') \/ Abstract!Dequeue(Queue, Queue') \/ Queue' = Queue
<1>0. TypeOK /\ IsArray
  BY DEF IInv, IsArray
<1>1. PICK F \in Seq(Frames) : \E Q, P, R, K, W \in Nat : At(F, Q, P, R, K, W)
  BY DEF IInv
<1>2. PICK Q \in Nat, P \in Nat, R \in Nat, K \in Nat, W \in Nat : At(F, Q, P, R, K, W)
  BY <1>1
<1>3. PICK m \in Nat : StandsAfter(F, R, m)
  BY <1>0, <1>2, StandsSomewhere
<1>4. ASSUME NEW CONSTANT M \in Nat, NEW CONSTANT N \in Nat, NEW CONSTANT L \in Nat,
             At(F, M, N, R, L, W)'
      PROVE  Queue' = Queue
  BY <1>2, <1>3, <1>4, QueueStays
<1>5. ASSUME ProducerNext, ~Publish PROVE Queue' = Queue
  <2>1. CASE \E len \in Lengths, blocking \in BOOLEAN : Frame(len, blocking)
    <3>1. PICK len \in Lengths, blocking \in BOOLEAN : Frame(len, blocking)
      BY <2>1
    <3>2. At(F, Q, P, R, K, W)'
      BY <1>0, <1>2, <3>1, FrameStep
    <3> QED BY <1>4, <3>2
  <2>2. CASE HasSpaceCached \/ HasSpaceReload \/ RaiseStarving
    <3>1. \E N \in Nat : At(F, N, P, R, K, W)'
      <4>1. CASE HasSpaceCached
        BY <1>0, <1>2, <4>1, HasSpaceCachedStep
      <4>2. CASE HasSpaceReload
        BY <1>0, <1>2, <4>2, HasSpaceReloadStep
      <4>3. CASE RaiseStarving
        BY <1>0, <1>2, <4>3, RaiseStarvingStep
      <4> QED BY <2>2, <4>1, <4>2, <4>3
    <3> QED BY <1>4, <3>1
  <2>3. CASE \E v \in Words : WritePayload(v)
    <3>1. At(F, Q, P, R, K, W)'
      BY <1>0, <1>2, <2>3, WritePayloadStep
    <3> QED BY <1>4, <3>1
  <2>4. CASE WriteFrame
    <3>1. At(F, Q, P, R, K, W)'
      BY <1>0, <1>2, <2>4, WriteFrameStep
    <3> QED BY <1>4, <3>1
  <2>5. CASE Abandon
    <3>1. At(F, Q, P, R, K, W)'
      BY <1>0, <1>2, <2>5, AbandonStep
    <3> QED BY <1>4, <3>1
  <2> QED BY <1>5, <2>1, <2>2, <2>3, <2>4, <2>5 DEF ProducerNext, has_space
<1>6. ASSUME Publish PROVE Abstract!Enqueue(Queue, Queue')
  <2>1. PICK f \in Frames, E \in Nat :
          Append(F, f) \in Seq(Frames) /\ At(Append(F, f), Q, P, R, K, E)'
    BY <1>0, <1>2, <1>6, PublishStep
  <2> QED BY <1>2, <1>3, <2>1, Enqueued
<1>7. ASSUME has_item \/ Forget \/ ProducerStarving \/ DrainBegin PROVE Queue' = Queue
  <2>1. \E L \in Nat : At(F, Q, P, R, L, W)'
    <3>1. CASE has_item
      BY <1>0, <1>2, <3>1, has_itemStep
    <3>2. CASE Forget
      BY <1>0, <1>2, <3>2, ForgetStep
    <3>3. CASE ProducerStarving
      BY <1>0, <1>2, <3>3, ProducerStarvingStep
    <3>4. CASE DrainBegin
      BY <1>0, <1>2, <3>4, DrainBeginStep
    <3> QED BY <1>7, <3>1, <3>2, <3>3, <3>4
  <2> QED BY <1>4, <2>1
<1>8. ASSUME next_msg PROVE Queue' = Queue
  <2>0. Lends(F, Q, R, W)
    BY <1>0, <1>2, <1>8, next_msgStep
  <2>1. PICK N \in Nat, S \in Nat, L \in Nat, n \in 1 .. Len(F) :
          At(F, Q, N, S, L, W)' /\ R \in {F[n].start, F[n].at} /\ S = F[n].at
    BY <2>0 DEF Lends
  <2>2. FramesAt(F, W) /\ Len(F) \in Nat
    BY <1>2, LenProperties DEF At, FramesAt
  <2>3. n - 1 \in 0 .. Len(F) /\ F[n].start = End(F, n - 1)
    BY <2>2, FrameAt
  <2>4. n - 1 \in Nat /\ n - 1 < Len(F) /\ (n - 1) + 1 = n
    BY <2>2
  <2>5. StandsAfter(F, R, n - 1) /\ StandsAfter(F, S, n - 1)
    BY <2>1, <2>3, <2>4 DEF StandsAfter
  <2> QED BY <1>2, <2>1, <2>4, <2>5, QueueStays
<1>9. ASSUME Release \/ DrainRecord PROVE Abstract!Dequeue(Queue, Queue')
  <2>1. Passes(F, Q, R, W)
    <3>1. CASE Release
      BY <1>0, <1>2, <3>1, ReleaseStep
    <3>2. CASE DrainRecord
      BY <1>0, <1>2, <3>2, DrainRecordStep
    <3> QED BY <1>9, <3>1, <3>2
  <2>2. PICK N \in Nat, S \in Nat, L \in Nat, n \in 1 .. Len(F) :
          At(F, Q, N, S, L, W)' /\ R \in {F[n].start, F[n].at} /\ S = F[n].end
    BY <2>1 DEF Passes
  <2> QED BY <1>2, <2>2, Dequeued
<1>10. ASSUME DrainEnd \/ DropConsumer PROVE Queue' = Queue
  <2>1. At(F, Q, R, R, K, W)'
    BY <1>0, <1>2, <1>10, FlushStep
  <2> QED BY <1>4, <2>1
<1>11. ASSUME DropProducer PROVE Queue' = Queue
  <2>1. At(F, Q, P, R, K, W)'
    BY <1>0, <1>2, <1>11, AbandonStep
  <2> QED BY <1>4, <2>1
<1>12. ASSUME UNCHANGED vars PROVE Queue' = Queue
  <2>1. At(F, Q, P, R, K, W)'
    BY <1>0, <1>2, <1>12, StutterStep
  <2> QED BY <1>4, <2>1
<1> HIDE DEF Queue
<1>13. CASE ProducerNext
  BY <1>5, <1>6, <1>13
<1>14. CASE ConsumerNext
  BY <1>7, <1>8, <1>9, <1>10, <1>14 DEF ConsumerNext, Drain
<1>15. CASE DropProducer \/ DropConsumer
  BY <1>10, <1>11, <1>15
<1>16. CASE Terminated \/ UNCHANGED vars
  BY <1>12, <1>16 DEF Terminated
<1> QED BY <1>13, <1>14, <1>15, <1>16 DEF Next

\* The ring is a queue of whole records that fit its capacity: what the consumer decodes
\* from where it stands grows by a record at the publish of a push, loses the first when
\* its Msg is dropped or drain passes it, and is left alone by all else (spsc_bytes.rs).
THEOREM ImplementsQueue == Spec => ImplementsRecordQueue
<1>1. Init => Abstract!Init
  <2> SUFFICES ASSUME Init PROVE Queue = << >>
    BY DEF Abstract!Init, Queue
  <2>1. TypeOK /\ DOMAIN buffer = Places
    BY Initially DEF IInv, IsArray
  <2>2. write_cursor = 0 /\ c.read_cursor = 0
    BY DEF Init
  <2>3. Sub(0, 0) = 0
    BY Zero DEF Sub, wrapping_sub
  <2>4. Decoded(0)[0] = << >>
    BY <2>1, Zero, DecodedSteps
  <2> QED BY <2>2, <2>3, <2>4 DEF Queue
<1>2. IInv => QueueIsRest
  BY QueueHolds
<1>3. IInv /\ QueueIsRest /\ QueueIsRest' /\ [Next]_vars
        => Abstract!Next \/ UNCHANGED Decoded(write_cursor)[Sub(write_cursor, c.read_cursor)]
  BY QueueStep DEF Abstract!Next, Abstract!Step, Queue
<1> QED BY <1>1, <1>2, <1>3, Invariance, PTL DEF Spec, ImplementsRecordQueue, Abstract!Spec

\* A push that waits has its flag up: only the push itself lowers it again.
WaitingIsFlagged == p.pc = "waiting" => starving = 1

LEMMA FlagStep == TypeOK /\ WaitingIsFlagged /\ [Next]_vars => WaitingIsFlagged'
<1> SUFFICES ASSUME TypeOK, WaitingIsFlagged, [Next]_vars PROVE WaitingIsFlagged'
  OBVIOUS
<1> USE DEF WaitingIsFlagged
<1>1. p \in Producers
  BY TypeParts
<1>2. ASSUME NEW len \in Lengths, NEW blocking \in BOOLEAN, Frame(len, blocking)
      PROVE  WaitingIsFlagged'
  BY <1>1, <1>2 DEF Frame, Producers
<1>3. CASE HasSpaceCached
  BY <1>1, <1>3 DEF HasSpaceCached, Producers
<1>4. CASE HasSpaceReload
  BY <1>1, <1>4 DEF HasSpaceReload, Producers
<1>5. CASE RaiseStarving
  BY <1>1, <1>5 DEF RaiseStarving, Producers
<1>6. ASSUME NEW v \in Words, WritePayload(v)
      PROVE  WaitingIsFlagged'
  BY <1>1, <1>6 DEF WritePayload, Producers
<1>7. CASE WriteFrame \/ Publish \/ Abandon \/ DropProducer
  BY <1>1, <1>7 DEF WriteFrame, Publish, Abandon, DropProducer, Producers
<1>8. CASE ConsumerNext \/ DropConsumer
  BY <1>8 DEF ConsumerNext, DropConsumer, Drain, has_item, next_msg, Forget, ProducerStarving,
       Release, DrainBegin, DrainRecord, DrainEnd
<1>9. CASE Terminated \/ UNCHANGED vars
  BY <1>9 DEF Terminated, vars
<1> QED BY <1>2, <1>3, <1>4, <1>5, <1>6, <1>7, <1>8, <1>9 DEF Next, ProducerNext, has_space

LEMMA ReleaseHandsOver ==
  ASSUME TypeOK, WaitingIsFlagged, Next,
         c.pc = "releasing", c'.pc = "idle", p.pc = "waiting", c.starving = starving
  PROVE  read_cursor' = c'.read_cursor
<1>1. c \in Consumers /\ c.starving = 1
  BY TypeParts DEF WaitingIsFlagged
<1>2. c' # c
  OBVIOUS
<1>3. Release
  BY <1>2 DEF Next, ProducerNext, Frame, has_space, HasSpaceCached, HasSpaceReload, RaiseStarving,
       WritePayload, WriteFrame, Publish, Abandon, DropProducer, ConsumerNext, DropConsumer, Drain,
       has_item, next_msg, Forget, ProducerStarving, DrainBegin, DrainRecord, DrainEnd, Terminated,
       vars
<1>4. MustPublish(Add(c.read_cursor, record_len(c.len)))
  BY <1>1 DEF MustPublish
<1> QED BY <1>1, <1>3, <1>4 DEF Release, Consumers

\* A release that saw the flag of the push that waits hands over all that was read, so
\* that no deferral outlasts the raise of the flag (ProducerCore::has_space, Msg::drop).
THEOREM ReleasesTheStarved == Spec => StarvedIsReleased
<1>1. Init => WaitingIsFlagged
  BY DEF Init, WaitingIsFlagged
<1>2. TypeOK /\ WaitingIsFlagged /\ [Next]_vars
        => [(c.pc = "releasing" /\ c'.pc = "idle" /\ p.pc = "waiting" /\ c.starving = starving)
             => read_cursor' = c'.read_cursor]_vars
  <2> SUFFICES ASSUME TypeOK, WaitingIsFlagged, [Next]_vars,
                      c.pc = "releasing", c'.pc = "idle", p.pc = "waiting", c.starving = starving
               PROVE  read_cursor' = c'.read_cursor
    OBVIOUS
  <2>1. Next
    BY DEF vars
  <2> QED BY <2>1, ReleaseHandsOver
<1> QED BY <1>1, <1>2, FlagStep, TypeCorrect, PTL DEF Spec, StarvedIsReleased
=============================================================================
