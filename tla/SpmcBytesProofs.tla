-------------------------- MODULE SpmcBytesProofs --------------------------
(***************************************************************************)
(* SpmcBytes: the inductive invariant, and the theorems that rest on it.   *)
(* It holds for every capacity that is a multiple of the alignment, every  *)
(* set of consumers and any number of records.                             *)
(***************************************************************************)
EXTENDS SpmcBytes, RingArithProofs, SequenceTheorems, FiniteSetTheorems, WellFoundedInduction

-----------------------------------------------------------------------------
(* The invariant *)

Quiet == {"idle", "lacking", "starved", "waiting"}
Sized == {"lacking", "starved", "waiting", "granted"}
Free == {"live", "empty", "closed"}

Words == {ALIGN * i : i \in 0 .. Capacity \div ALIGN - 1}

Producers ==
  [pc : Quiet \union {"granted", "gone"}, len : Nat, cached_min : Int, raised_starving : BOOLEAN]
Handles ==
  [pc : Free \union {"out", "holding", "releasing", "callback", "gone"}, read_cursor : Nat,
   published : Nat, write_cache : Nat, len : Nat, limit : Nat, span : Nat]

TypeOK ==
  /\ buffer \in [Words -> Int]
  /\ write_cursor \in Nat /\ closed \in BOOLEAN /\ starving \in Nat
  /\ slots \in [Consumers -> Nat \union {DETACHED}]
  /\ p \in Producers
  /\ cached_cursors \in [Consumers -> Nat] /\ fence_seq \in Nat
  /\ c \in [Consumers -> Handles]
  /\ log \in Seq(AllRecords) /\ ends \in Seq(Nat)

\* The frames of the log: where each starts, where its record does, and where it ends.
End(n) == IF n = 0 THEN 0 ELSE ends[n]
Ends == {End(n) : n \in 0 .. Len(ends)}
frames ==
  [n \in DOMAIN ends |-> [start |-> End(n - 1), at |-> End(n) - record_len(log[n][1]), end |-> End(n),
                          record |-> log[n]]]

ToEnd(cursor) == Capacity - Position(cursor)

\* A frame as write_frame lays one out: the record in one piece, after padding
\* to the end of the buffer where it would not fit.
WellFramed(f) ==
  /\ f \in [start : Nat, at : Nat, end : Nat, record : AllRecords]
  /\ f.start % ALIGN = 0 /\ f.at % ALIGN = 0 /\ f.end % ALIGN = 0
  /\ f.at = f.start \/ (f.at = f.start + ToEnd(f.start) /\ Position(f.at) = 0)
  /\ f.end = f.at + record_len(f.record[1])
  /\ Position(f.at) + record_len(f.record[1]) <= Capacity
  /\ f.end <= f.start + Capacity

FramesInv ==
  /\ Len(log) = Len(ends) /\ Len(log) <= MaxPushes
  /\ \A n \in DOMAIN frames : WellFramed(frames[n])
  /\ \A m, n \in 0 .. Len(ends) : m < n => End(m) < End(n)
  /\ write_cursor = End(Len(ends))

\* What the words of a frame hold, as long as the gate keeps the producer out of it:
\* a consumer has not released it yet, or one that joins now may still find it.
Gated(cursor) == fence_seq <= cursor \/ \E i \in Consumers : Live(i) /\ slots[i] <= cursor
HeldPadding(f) == f.at # f.start /\ Gated(f.start) => buffer[Position(f.start)] = PADDING
HeldRecord(f) ==
  Gated(f.at) =>
    <<buffer[Position(f.at)], {buffer[w] : w \in PayloadAt(Position(f.at), f.record[1])}>> = f.record
Held(f) == HeldPadding(f) /\ HeldRecord(f)

ContentsInv == \A n \in DOMAIN frames : Held(frames[n])

\* What the producer knows of the consumers is never ahead of them.
GateOk(i) == Live(i) => /\ cached_cursors[i] <= slots[i] /\ slots[i] <= write_cursor
                        /\ p.cached_min <= slots[i]
GateInv ==
  /\ p.cached_min <= fence_seq /\ fence_seq <= write_cursor
  /\ \A i \in Consumers : GateOk(i)

\* What the push in hand needs, what it was granted, and what it shows while it waits.
RecordStart == write_cursor + Pad(p.len)
NewEnd == write_cursor + Needed(p.len)
Pending == [start |-> write_cursor, at |-> RecordStart, end |-> NewEnd, record |-> Record(Len(log) + 1, p.len)]

ProducerInv ==
  /\ p.pc \in Sized => Len(log) < MaxPushes /\ p.len \in AllLengths
  /\ p.pc = "granted" => NewEnd <= p.cached_min + Capacity
  /\ p.pc = "waiting" => starving = Needed(p.len)

\* The consumers stand at the records.
StandsAt(h, n) ==
  /\ h.published <= frames[n].start /\ frames[n].end <= h.write_cache
  /\ \/ h.pc \in Free /\ h.read_cursor \in {frames[n].start, frames[n].at}
     \/ /\ h.pc \in {"holding", "releasing"} /\ h.read_cursor = frames[n].at
        /\ h.len = frames[n].record[1]
     \/ /\ h.pc = "callback" /\ h.read_cursor = frames[n].end /\ h.limit <= h.write_cache
        /\ h.len = frames[n].record[1]
CaughtUp(h) == h.pc \in Free /\ h.read_cursor = h.write_cache /\ h.published <= h.read_cursor
Placed(h) == CaughtUp(h) \/ \E n \in DOMAIN frames : StandsAt(h, n)

ConsumerOk(i) ==
  /\ Live(i) <=> c[i].pc \notin {"out", "gone"}
  /\ Live(i) => /\ slots[i] = c[i].published
                /\ c[i].published \in Ends /\ c[i].write_cache \in Ends
                /\ Placed(c[i])
ConsumerInv == \A i \in Consumers : ConsumerOk(i)

IInv == TypeOK /\ FramesInv /\ ContentsInv /\ GateInv /\ ProducerInv /\ ConsumerInv

-----------------------------------------------------------------------------
(* Arithmetic *)

LEMMA CapacityType == Capacity \in Nat \ {0} /\ Capacity \in Int /\ Capacity >= 8
BY SpmcBytesAssumption DEF MIN_CAPACITY

LEMMA CapacityWords == \E k \in Nat : Capacity = 4 * k
<1>1. Capacity \in Nat /\ Capacity % 4 = 0
  BY SpmcBytesAssumption DEF ALIGN
<1> DEFINE h == Capacity \div 4
<1>2. h \in Nat /\ Capacity = 4 * h
  BY <1>1
<1> HIDE DEF h
<1> QED BY <1>2

\* A record takes whole words, and room for its header and its payload.
LEMMA RecordLen ==
  ASSUME NEW len \in Nat
  PROVE  /\ record_len(len) \in Nat /\ record_len(len) % 4 = 0
         /\ record_len(len) >= 4 /\ record_len(len) >= 4 + len /\ (len = 0 => record_len(len) = 4)
<1>1. record_len(len) = ((len + 7) \div 4) * 4 /\ len + 7 \in Nat
  BY DEF record_len, HEADER, ALIGN
<1>2. (len + 7) \div 4 \in Nat /\ (len + 7) \div 4 >= 1
  BY <1>1
<1>3. ((len + 7) \div 4) * 4 >= len + 4
  BY <1>1
<1>4. (((len + 7) \div 4) * 4) % 4 = 0
  BY <1>2
<1>5. len = 0 => (len + 7) \div 4 = 1
  OBVIOUS
<1> QED BY <1>1, <1>2, <1>3, <1>4, <1>5

LEMMA PositionType ==
  ASSUME NEW x \in Nat
  PROVE  /\ Position(x) \in Nat /\ Position(x) < Capacity
         /\ ToEnd(x) \in Nat /\ 0 < ToEnd(x) /\ ToEnd(x) <= Capacity
         /\ Position(x) + ToEnd(x) = Capacity
<1>1. x \in Int
  OBVIOUS
<1>2. x % Capacity \in 0 .. Capacity - 1
  BY <1>1, CapacityType, ModInterval
<1> QED BY <1>2, CapacityType DEF Position, ToEnd

\* A cursor further on, as long as it stays in its lap, is further on in the buffer.
LEMMA PositionPlus ==
  ASSUME NEW x \in Nat, NEW k \in Nat, Position(x) + k < Capacity
  PROVE  Position(x + k) = Position(x) + k
<1>1. x \in Int /\ x + k \in Int
  OBVIOUS
<1>2. PICK q \in Int : x = Capacity * q + (x % Capacity)
  BY <1>1, CapacityType, ModInterval, Zenon
<1>3. x % Capacity \in Nat /\ (x % Capacity) + k \in 0 .. Capacity - 1
  <2>1. Position(x) \in Nat /\ Position(x) + k \in 0 .. Capacity - 1
    BY PositionType, CapacityType
  <2> QED BY <2>1 DEF Position
<1>4. Capacity * q \in Int
  BY CapacityType
<1>5. x + k = Capacity * q + ((x % Capacity) + k)
  BY <1>2, <1>3, <1>4
<1> QED BY <1>1, <1>3, <1>5, CapacityType, ModUnique DEF Position

\* The end of the buffer is the beginning of the next lap.
LEMMA PositionWrap ==
  ASSUME NEW x \in Nat
  PROVE  Position(x + ToEnd(x)) = 0
<1>1. x \in Int /\ x + ToEnd(x) \in Int
  BY PositionType
<1>2. PICK q \in Int : x = Capacity * q + (x % Capacity)
  BY <1>1, CapacityType, ModInterval, Zenon
<1>3. Capacity * q \in Int /\ x % Capacity \in Nat
  BY CapacityType, PositionType DEF Position
<1>4. x + ToEnd(x) = Capacity * q + Capacity
  BY <1>2, <1>3, CapacityType DEF ToEnd, Position
<1>5. Capacity * q + Capacity = Capacity * (q + 1) + 0
  BY CapacityType
<1>6. x + ToEnd(x) = Capacity * (q + 1) + 0
  BY <1>4, <1>5
<1>7. 0 \in 0 .. Capacity - 1 /\ q + 1 \in Int /\ Capacity \in Nat \ {0}
  BY CapacityType
<1>8. (x + ToEnd(x)) % Capacity = 0
  BY <1>1, <1>6, <1>7, ModUnique
<1> QED BY <1>8 DEF Position

\* The words are the aligned positions.
LEMMA WordType == \A w : w \in Words <=> w \in Nat /\ w % 4 = 0 /\ w < Capacity
<1> TAKE w
<1>1. PICK k \in Nat : Capacity = 4 * k
  BY CapacityWords, CapacityType
<1>2. Capacity \div 4 = k
  BY <1>1
<1>3. ASSUME w \in Words PROVE w \in Nat /\ w % 4 = 0 /\ w < Capacity
  <2>1. PICK i \in 0 .. k - 1 : w = 4 * i
    BY <1>2, <1>3 DEF Words, ALIGN
  <2> QED BY <2>1, <1>1
<1>4. ASSUME w \in Nat, w % 4 = 0, w < Capacity PROVE w \in Words
  <2>1. w = 4 * (w \div 4) /\ w \div 4 \in Nat
    BY <1>4
  <2>2. w \div 4 < k
    BY <2>1, <1>1, <1>4
  <2>3. w \div 4 \in 0 .. k - 1
    BY <2>1, <2>2
  <2> QED BY <2>1, <2>3, <1>2 DEF Words, ALIGN
<1> QED BY <1>3, <1>4

LEMMA PositionWord ==
  ASSUME NEW x \in Nat, x % 4 = 0
  PROVE  Position(x) \in Words /\ Position(x) % 4 = 0 /\ ToEnd(x) % 4 = 0
<1>1. x \in Int
  OBVIOUS
<1>2. PICK q \in Int : x = Capacity * q + (x % Capacity)
  BY <1>1, CapacityType, ModInterval, Zenon
<1>3. PICK k \in Nat : Capacity = 4 * k
  BY CapacityWords
<1>4. Position(x) \in Nat /\ Position(x) < Capacity /\ Position(x) = x % Capacity
  BY PositionType DEF Position
<1>5. PICK j \in Nat : x = 4 * j
  <2>1. x = 4 * (x \div 4) /\ x \div 4 \in Nat
    OBVIOUS
  <2> QED BY <2>1
<1>6. k * q \in Int /\ Capacity * q = 4 * (k * q)
  BY <1>3
<1>7. Position(x) = 4 * (j - k * q)
  BY <1>2, <1>4, <1>5, <1>6
<1>8. Position(x) % 4 = 0
  <2> DEFINE h == j - k * q
  <2>1. h \in Int /\ Position(x) = 4 * h
    BY <1>6, <1>7
  <2> HIDE DEF h
  <2> QED BY <2>1
<1>9. ToEnd(x) % 4 = 0
  BY <1>3, <1>4, <1>8 DEF ToEnd
<1> QED BY <1>4, <1>8, <1>9, WordType

\* Aligned cursors add up.
LEMMA Aligned ==
  ASSUME NEW x \in Nat, NEW y \in Nat, x % 4 = 0, y % 4 = 0
  PROVE  (x + y) % 4 = 0
OBVIOUS

\* Distinct cursors that are less than a ring apart have different positions.
LEMMA Apart ==
  ASSUME NEW x \in Nat, NEW y \in Nat, x < y, y < x + Capacity
  PROVE  Position(x) # Position(y)
<1>1. y - x < Capacity /\ Capacity \in Nat \ {0}
  BY CapacityType
<1>2. x % Capacity # y % Capacity
  BY <1>1, ModDistinct
<1> QED BY <1>2 DEF Position

\* A set of integers that is bounded from below has a least element.
LEMMA Least ==
  ASSUME NEW S \in SUBSET Nat, S # {}
  PROVE  \E x \in S : \A y \in S : x <= y
<1> DEFINE R == {ss \in Nat \X Nat : ss[1] < ss[2]}
<1>1. IsWellFoundedOn(R, Nat)
  BY NatLessThanWellFounded, Zenon DEF OpToRel
<1>2. PICK x \in S : \A y \in S : ~(<<y, x>> \in R)
  <2> HIDE DEF R
  <2> QED BY <1>1, WFMin, Zenon
<1>3. ASSUME NEW y \in S PROVE x <= y
  <2>1. x \in Nat /\ y \in Nat /\ ~(<<y, x>> \in R)
    BY <1>2
  <2>2. ~(y < x)
    BY <2>1
  <2> QED BY <2>1, <2>2
<1> QED BY <1>3

LEMMA MinLeast ==
  ASSUME NEW S \in SUBSET Int, S # {}, NEW b \in Nat, \A x \in S : -b <= x
  PROVE  Min(S) \in S /\ \A y \in S : Min(S) <= y
<1> DEFINE T == {x + b : x \in S}
<1>1. T \in SUBSET Nat /\ T # {}
  <2>1. ASSUME NEW x \in S PROVE x + b \in Nat
    BY <2>1
  <2> QED BY <2>1
<1>2. PICK t \in T : \A y \in T : t <= y
  <2> HIDE DEF T
  <2> QED BY <1>1, Least
<1>3. PICK x \in S : t = x + b
  <2>1. t \in T
    <3> HIDE DEF T
    <3> QED BY <1>2
  <2> QED BY <2>1
<1>4. \A y \in S : x <= y
  <2> TAKE y \in S
  <2>1. y + b \in T
    OBVIOUS
  <2>2. t <= y + b
    <3> HIDE DEF T
    <3> QED BY <1>2, <2>1
  <2>3. x \in Int /\ y \in Int
    BY <1>3
  <2> QED BY <1>3, <2>2, <2>3
<1>5. \E z \in S : \A y \in S : z <= y
  BY <1>3, <1>4
<1> QED BY <1>5 DEF Min

LEMMA MinOf ==
  ASSUME NEW x \in Int, NEW y \in Int
  PROVE  Min({x, y}) = IF x <= y THEN x ELSE y
<1>1. \E z \in {x, y} : \A w \in {x, y} : z <= w
  OBVIOUS
<1> QED BY <1>1 DEF Min

-----------------------------------------------------------------------------
(* Frames *)

LEMMA LengthType == \A len \in AllLengths : len \in Nat
<1> TAKE len \in AllLengths
<1>1. PICK n \in 1 .. MaxPushes : len \in Lengths[n]
  BY SpmcBytesAssumption DEF AllLengths, Range
<1> QED BY <1>1, SpmcBytesAssumption

LEMMA RecordType ==
  ASSUME NEW r \in AllRecords
  PROVE  r[1] \in Nat /\ r = <<r[1], r[2]>>
<1>1. PICK n \in 1 .. MaxPushes, len \in AllLengths : r = Record(n, len)
  BY DEF AllRecords
<1>2. r[1] = len /\ r[2] = IF len = 0 THEN {} ELSE {n}
  BY <1>1 DEF Record
<1> QED BY <1>1, <1>2, LengthType DEF Record

LEMMA Framed ==
  ASSUME NEW f, WellFramed(f)
  PROVE  /\ f.start \in Nat /\ f.at \in Nat /\ f.end \in Nat /\ f.record[1] \in Nat
         /\ f.record \in AllRecords /\ f.record = <<f.record[1], f.record[2]>>
         /\ f.start <= f.at /\ f.at + 4 <= f.end /\ f.end <= f.start + Capacity
         /\ record_len(f.record[1]) \in Nat /\ record_len(f.record[1]) >= 4
         /\ f.end = f.at + record_len(f.record[1])
<1>1. f.start \in Nat /\ f.at \in Nat /\ f.end \in Nat /\ f.record \in AllRecords
  BY DEF WellFramed
<1>2. f.record[1] \in Nat /\ f.record = <<f.record[1], f.record[2]>>
  BY <1>1, RecordType, Zenon
<1>3. record_len(f.record[1]) \in Nat /\ record_len(f.record[1]) >= 4
  BY <1>2, RecordLen
<1>4. ToEnd(f.start) \in Nat
  BY <1>1, PositionType
<1>5. f.start <= f.at
  BY <1>1, <1>4 DEF WellFramed
<1>6. f.end = f.at + record_len(f.record[1]) /\ f.end <= f.start + Capacity
  BY DEF WellFramed
<1> QED BY <1>1, <1>2, <1>3, <1>5, <1>6

LEMMA FrameIndex ==
  ASSUME TypeOK, FramesInv
  PROVE  /\ Len(ends) \in Nat /\ DOMAIN ends = 1 .. Len(ends) /\ DOMAIN frames = 1 .. Len(ends)
         /\ DOMAIN log = 1 .. Len(ends) /\ Len(log) = Len(ends)
         /\ \A n \in DOMAIN frames : /\ n \in Nat /\ n > 0 /\ n <= Len(ends)
                                     /\ n - 1 \in 0 .. Len(ends) /\ n \in 0 .. Len(ends)
                                     /\ frames[n].start = End(n - 1) /\ frames[n].end = End(n)
                                     /\ frames[n].end = ends[n]
                                     /\ frames[n].record = log[n] /\ WellFramed(frames[n])
<1>1. Len(ends) \in Nat /\ DOMAIN ends = 1 .. Len(ends)
  BY LenProperties DEF TypeOK
<1>2. DOMAIN frames = 1 .. Len(ends)
  BY <1>1 DEF frames
<1>3. Len(log) = Len(ends) /\ DOMAIN log = 1 .. Len(ends)
  BY LenProperties DEF TypeOK, FramesInv
<1>4. ASSUME NEW n \in DOMAIN frames
      PROVE  /\ n \in Nat /\ n > 0 /\ n <= Len(ends) /\ n - 1 \in 0 .. Len(ends) /\ n \in 0 .. Len(ends)
             /\ frames[n].start = End(n - 1) /\ frames[n].end = End(n) /\ frames[n].end = ends[n]
             /\ frames[n].record = log[n] /\ WellFramed(frames[n])
  <2>1. /\ n \in Nat /\ n > 0 /\ n <= Len(ends) /\ n - 1 \in 0 .. Len(ends) /\ n \in 0 .. Len(ends)
    BY <1>1, <1>2
  <2>2. /\ frames[n].start = End(n - 1) /\ frames[n].end = End(n) /\ frames[n].record = log[n]
    BY <1>1, <1>2 DEF frames
  <2>3. frames[n].end = ends[n]
    BY <2>1, <2>2 DEF End
  <2> QED BY <2>1, <2>2, <2>3 DEF FramesInv
<1> QED BY <1>1, <1>2, <1>3, <1>4

LEMMA EndType ==
  ASSUME TypeOK, FramesInv, NEW n \in 0 .. Len(ends)
  PROVE  End(n) \in Nat /\ End(n) % 4 = 0 /\ End(n) <= write_cursor /\ End(n) \in Ends
<1>0. PICK N \in Nat : N = Len(ends) /\ DOMAIN frames = 1 .. N
  BY FrameIndex
<1>1. ASSUME NEW m \in 0 .. N PROVE End(m) \in Nat /\ End(m) % 4 = 0
  <2>1. CASE m = 0
    BY <2>1 DEF End
  <2>2. CASE m # 0
    <3>1. m \in DOMAIN frames
      BY <2>2, <1>0
    <3>2. WellFramed(frames[m]) /\ frames[m].end = End(m)
      BY <3>1, FrameIndex
    <3> QED BY <3>2 DEF WellFramed, ALIGN
  <2> QED BY <2>1, <2>2
<1>2. CASE n = N
  BY <1>0, <1>1, <1>2 DEF FramesInv, Ends
<1>3. CASE n # N
  <2>1. n < N /\ N \in 0 .. N
    BY <1>0, <1>3
  <2>2. End(n) < End(N) /\ write_cursor = End(N)
    BY <1>0, <2>1 DEF FramesInv
  <2>3. End(n) \in Nat /\ End(n) % 4 = 0 /\ End(N) \in Nat
    BY <1>0, <1>1, <2>1
  <2> QED BY <2>2, <2>3 DEF Ends
<1> QED BY <1>2, <1>3

LEMMA EndsType ==
  ASSUME TypeOK, FramesInv
  PROVE  /\ \A e \in Ends : e \in Nat /\ e % 4 = 0 /\ e <= write_cursor
         /\ write_cursor \in Ends /\ write_cursor \in Nat /\ write_cursor % 4 = 0 /\ 0 \in Ends
<1>1. \A e \in Ends : e \in Nat /\ e % 4 = 0 /\ e <= write_cursor
  <2> TAKE e \in Ends
  <2>1. PICK n \in 0 .. Len(ends) : e = End(n)
    BY DEF Ends
  <2> QED BY <2>1, EndType
<1>2. Len(ends) \in 0 .. Len(ends) /\ 0 \in 0 .. Len(ends) /\ write_cursor = End(Len(ends)) /\ 0 = End(0)
  BY FrameIndex DEF FramesInv, End
<1> QED BY <1>1, <1>2 DEF Ends

\* Where no record has begun yet, the log ends; elsewhere the next record starts.
LEMMA NextFrame ==
  ASSUME TypeOK, FramesInv, NEW x \in Ends, NEW e \in Ends, x < e
  PROVE  \E n \in DOMAIN frames : frames[n].start = x /\ frames[n].end <= e
<1>0. Len(ends) \in Nat /\ DOMAIN frames = 1 .. Len(ends)
  BY FrameIndex
<1>1. PICK k \in 0 .. Len(ends) : x = End(k)
  BY DEF Ends
<1>2. PICK m \in 0 .. Len(ends) : e = End(m)
  BY DEF Ends
<1>3. x \in Nat /\ e \in Nat
  BY EndsType
<1>4. k < m
  <2>1. CASE m < k
    <3>1. End(m) < End(k)
      BY <2>1 DEF FramesInv
    <3> QED BY <3>1, <1>1, <1>2, <1>3
  <2>2. CASE m = k
    BY <2>2, <1>1, <1>2, <1>3
  <2> QED BY <2>1, <2>2
<1>5. k + 1 \in DOMAIN frames /\ k + 1 \in 0 .. Len(ends) /\ (k + 1) - 1 = k
  BY <1>0, <1>4
<1>6. frames[k + 1].start = x /\ frames[k + 1].end = End(k + 1)
  BY <1>5, <1>1, FrameIndex
<1>7. End(k + 1) <= e
  <2>1. CASE m = k + 1
    BY <2>1, <1>2, <1>3
  <2>2. CASE m # k + 1
    <3>1. k + 1 < m
      BY <2>2, <1>4
    <3>2. End(k + 1) < End(m)
      BY <3>1, <1>5 DEF FramesInv
    <3> QED BY <3>2, <1>2, <1>3, EndType, <1>5
  <2> QED BY <2>1, <2>2
<1> QED BY <1>5, <1>6, <1>7

LEMMA FrameEnds ==
  ASSUME TypeOK, FramesInv, NEW n \in DOMAIN frames
  PROVE  /\ WellFramed(frames[n]) /\ frames[n].end <= write_cursor
         /\ frames[n].start \in Ends /\ frames[n].end \in Ends
<1>1. /\ n - 1 \in 0 .. Len(ends) /\ n \in 0 .. Len(ends)
      /\ frames[n].start = End(n - 1) /\ frames[n].end = End(n)
      /\ WellFramed(frames[n])
  BY FrameIndex
<1> QED BY <1>1, EndType

\* What depends on the log alone, as long as it does not grow.
LEMMA FramesKept ==
  ASSUME FramesInv, UNCHANGED <<log, ends, write_cursor>>
  PROVE  FramesInv' /\ Ends' = Ends /\ frames' = frames
<1>1. \A n : End(n)' = End(n)
  BY DEF End
<1>2. frames' = frames
  BY <1>1 DEF frames
<1>3. Ends' = Ends
  BY <1>1 DEF Ends
<1> QED BY <1>1, <1>2, <1>3 DEF FramesInv, WellFramed

-----------------------------------------------------------------------------
(* The record being pushed *)

LEMMA ProducerType ==
  ASSUME TypeOK
  PROVE  /\ p.len \in Nat /\ p.cached_min \in Int /\ write_cursor \in Nat /\ fence_seq \in Nat
         /\ p.pc \in Quiet \union {"granted", "gone"}
         /\ p.raised_starving \in BOOLEAN /\ DOMAIN buffer = Words /\ buffer \in [Words -> Int]
         /\ c \in [Consumers -> Handles] /\ DOMAIN c = Consumers
BY DEF TypeOK, Producers

LEMMA Fits ==
  ASSUME TypeOK, NEW len \in Nat
  PROVE  /\ Pad(len) \in Nat /\ record_len(len) \in Nat /\ record_len(len) >= 4
         /\ Needed(len) \in Nat /\ Needed(len) = Pad(len) + record_len(len)
         /\ \/ Pad(len) = 0 /\ record_len(len) <= ToEnd(write_cursor)
            \/ Pad(len) = ToEnd(write_cursor) /\ Pad(len) > 0
<1>1. record_len(len) \in Nat /\ record_len(len) >= 4
  BY RecordLen
<1>2. ToEnd(write_cursor) \in Nat /\ ToEnd(write_cursor) > 0
  BY ProducerType, PositionType
<1>3. Pad(len) = IF record_len(len) <= ToEnd(write_cursor) THEN 0 ELSE ToEnd(write_cursor)
  BY DEF Pad, ToEnd
<1> QED BY <1>1, <1>2, <1>3 DEF Needed

LEMMA PendingType ==
  ASSUME TypeOK
  PROVE  /\ RecordStart \in Nat /\ NewEnd \in Nat /\ write_cursor <= RecordStart /\ RecordStart + 4 <= NewEnd
         /\ RecordStart = write_cursor + Pad(p.len) /\ NewEnd = RecordStart + record_len(p.len)
         /\ RecordAt = Position(RecordStart)
         /\ Pending.start = write_cursor /\ Pending.at = RecordStart /\ Pending.end = NewEnd
         /\ Pending.record = Record(Len(log) + 1, p.len)
         /\ Pending.record[1] = p.len /\ Pending.record[2] = IF p.len = 0 THEN {} ELSE {Len(log) + 1}
<1>1. write_cursor \in Nat /\ p.len \in Nat
  BY ProducerType
<1>2. /\ Pad(p.len) \in Nat /\ record_len(p.len) \in Nat /\ record_len(p.len) >= 4
      /\ Needed(p.len) = Pad(p.len) + record_len(p.len)
  BY <1>1, Fits
<1>3. RecordStart = write_cursor + Pad(p.len) /\ NewEnd = write_cursor + Needed(p.len)
  BY DEF RecordStart, NewEnd
<1>4. RecordAt = Position(RecordStart)
  BY DEF RecordAt, RecordStart
<1>5. /\ Pending.start = write_cursor /\ Pending.at = RecordStart /\ Pending.end = NewEnd
      /\ Pending.record = Record(Len(log) + 1, p.len)
  BY DEF Pending
<1>6. /\ Record(Len(log) + 1, p.len)[1] = p.len
      /\ Record(Len(log) + 1, p.len)[2] = IF p.len = 0 THEN {} ELSE {Len(log) + 1}
  BY DEF Record
<1> QED BY <1>1, <1>2, <1>3, <1>4, <1>5, <1>6

LEMMA PendingFramed ==
  ASSUME TypeOK, FramesInv, GateInv, ProducerInv, p.pc = "granted"
  PROVE  /\ WellFramed(Pending) /\ NewEnd <= p.cached_min + Capacity /\ Len(log) < MaxPushes
         /\ Len(log) + 1 \in 1 .. MaxPushes /\ Record(Len(log) + 1, p.len) \in AllRecords
<1>1. /\ Len(log) < MaxPushes /\ p.len \in AllLengths /\ NewEnd <= p.cached_min + Capacity
      /\ p.cached_min <= fence_seq /\ fence_seq <= write_cursor
  BY DEF ProducerInv, Sized, GateInv
<1>2. /\ write_cursor \in Nat /\ p.len \in Nat /\ p.cached_min \in Int /\ fence_seq \in Nat
      /\ Len(log) \in Nat /\ MaxPushes \in Nat
  BY ProducerType, SpmcBytesAssumption, LenProperties DEF TypeOK
<1>3. Len(log) + 1 \in 1 .. MaxPushes
  BY <1>1, <1>2
<1>4. Record(Len(log) + 1, p.len) \in AllRecords
  BY <1>1, <1>3 DEF AllRecords
<1>5. /\ RecordStart \in Nat /\ NewEnd \in Nat /\ write_cursor <= RecordStart /\ RecordStart + 4 <= NewEnd
      /\ RecordStart = write_cursor + Pad(p.len) /\ NewEnd = RecordStart + record_len(p.len)
  BY PendingType
<1>14. /\ Pending.start = write_cursor /\ Pending.at = RecordStart /\ Pending.end = NewEnd
       /\ Pending.record = Record(Len(log) + 1, p.len) /\ Pending.record[1] = p.len
  BY PendingType
<1>6. record_len(p.len) \in Nat /\ record_len(p.len) % 4 = 0 /\ record_len(p.len) >= 4
  BY <1>2, RecordLen
<1>7. NewEnd <= write_cursor + Capacity
  BY <1>1, <1>2, <1>5, CapacityType
<1>8. write_cursor % 4 = 0 /\ ToEnd(write_cursor) % 4 = 0
  BY <1>2, EndsType, PositionWord
<1>9. /\ Position(write_cursor) \in Nat /\ ToEnd(write_cursor) \in Nat
      /\ Position(write_cursor) + ToEnd(write_cursor) = Capacity
      /\ Position(write_cursor + ToEnd(write_cursor)) = 0
  BY <1>2, PositionType, PositionWrap
<1>10. Pending \in [start : Nat, at : Nat, end : Nat, record : AllRecords]
  BY <1>2, <1>4, <1>5, <1>14 DEF Pending
<1>15. PICK f : f = Pending
  OBVIOUS
<1>16. /\ f.start = write_cursor /\ f.at = RecordStart /\ f.end = NewEnd /\ f.record[1] = p.len
       /\ f \in [start : Nat, at : Nat, end : Nat, record : AllRecords]
  BY <1>10, <1>14, <1>15
<1>17. f.end = f.at + record_len(f.record[1]) /\ f.end <= f.start + Capacity
  BY <1>5, <1>7, <1>16
<1>11. CASE Pad(p.len) = 0 /\ record_len(p.len) <= ToEnd(write_cursor)
  <2>1. RecordStart = write_cursor
    BY <1>11, <1>2, <1>5
  <2>2. Position(RecordStart) + record_len(p.len) <= Capacity
    <3>1. Position(RecordStart) = Position(write_cursor)
      BY <2>1
    <3>2. Position(write_cursor) + record_len(p.len) <= Capacity
      BY <1>6, <1>9, <1>11, CapacityType
    <3> QED BY <3>1, <3>2
  <2>3. RecordStart % 4 = 0 /\ NewEnd % 4 = 0
    BY <2>1, <1>2, <1>5, <1>6, <1>8, Aligned
  <2>4. f.start % 4 = 0 /\ f.at % 4 = 0 /\ f.end % 4 = 0 /\ f.at = f.start
    BY <1>8, <1>16, <2>1, <2>3
  <2>5. Position(f.at) + record_len(f.record[1]) <= Capacity
    BY <1>16, <2>2
  <2>6. WellFramed(f)
    BY <1>16, <1>17, <2>4, <2>5 DEF WellFramed, ALIGN
  <2> QED BY <1>1, <1>3, <1>4, <1>15, <2>6
<1>12. CASE Pad(p.len) = ToEnd(write_cursor)
  <2>1. RecordStart = write_cursor + ToEnd(write_cursor)
    BY <1>12, <1>5
  <2>2. Position(RecordStart) = 0
    BY <2>1, <1>9
  <2>3. Position(RecordStart) + record_len(p.len) <= Capacity
    <3>1. NewEnd = (write_cursor + ToEnd(write_cursor)) + record_len(p.len)
      BY <2>1, <1>5
    <3>2. ToEnd(write_cursor) \in Nat /\ record_len(p.len) \in Nat /\ write_cursor \in Nat /\ Capacity \in Nat
      BY <1>2, <1>6, <1>9, CapacityType
    <3>3. record_len(p.len) <= Capacity
      BY <3>1, <3>2, <1>7
    <3> QED BY <3>3, <2>2, <1>6
  <2>4. RecordStart % 4 = 0
    BY <2>1, <1>2, <1>8, <1>9, Aligned
  <2>5. NewEnd % 4 = 0
    BY <2>4, <1>5, <1>6, Aligned
  <2>6. f.start % 4 = 0 /\ f.at % 4 = 0 /\ f.end % 4 = 0
    BY <1>8, <1>16, <2>4, <2>5
  <2>7. /\ f.at = f.start + ToEnd(f.start) /\ Position(f.at) = 0
        /\ Position(f.at) + record_len(f.record[1]) <= Capacity
    BY <1>16, <2>1, <2>2, <2>3
  <2>8. WellFramed(f)
    BY <1>16, <1>17, <2>6, <2>7 DEF WellFramed, ALIGN
  <2> QED BY <1>1, <1>3, <1>4, <1>15, <2>8
<1>13. \/ Pad(p.len) = 0 /\ record_len(p.len) <= ToEnd(write_cursor)
       \/ Pad(p.len) = ToEnd(write_cursor)
  BY <1>2, Fits
<1> QED BY <1>11, <1>12, <1>13

\* Every word of a record is the position of a cursor within its frame.
LEMMA WordOf ==
  ASSUME NEW f, WellFramed(f), DOMAIN buffer = Words, NEW w \in PayloadAt(Position(f.at), f.record[1])
  PROVE  /\ w \in Words /\ w \in Nat
         /\ \E x \in Nat : f.at <= x /\ x < f.end /\ w = Position(x)
<1>1. /\ f.at \in Nat /\ f.end \in Nat /\ f.end = f.at + record_len(f.record[1])
      /\ record_len(f.record[1]) \in Nat
  BY Framed
<1>2. w \in Words /\ Position(f.at) + 4 <= w /\ w < Position(f.at) + record_len(f.record[1])
  BY DEF PayloadAt, HEADER
<1>3. w \in Nat /\ w < Capacity /\ Position(f.at) \in Nat
  BY <1>2, WordType, <1>1, PositionType
<1> DEFINE k == w - Position(f.at)
<1>4. k \in Nat /\ k < record_len(f.record[1]) /\ w = Position(f.at) + k
  BY <1>1, <1>2, <1>3
<1> HIDE DEF k
<1>5. Position(f.at + k) = w
  BY <1>1, <1>3, <1>4, PositionPlus
<1>6. f.at + k \in Nat /\ f.at <= f.at + k /\ f.at + k < f.end
  BY <1>1, <1>4
<1> QED BY <1>2, <1>3, <1>5, <1>6

\* The words that a push may write, whether it is committed or abandoned.
WritesInside ==
  /\ DOMAIN buffer' = Words /\ buffer' \in [Words -> Int]
  /\ \A w \in Words : \/ buffer'[w] = buffer[w]
                      \/ w \in {RecordAt, Position(write_cursor)} \union PayloadAt(RecordAt, p.len)

LEMMA CommitWrites ==
  ASSUME TypeOK, write_frame
  PROVE  WritesInside
<1>1. /\ DOMAIN buffer = Words /\ buffer \in [Words -> Int] /\ p.len \in Int /\ PADDING \in Int
      /\ Len(log) + 1 \in Int
  BY ProducerType, LenProperties DEF PADDING, TypeOK
<1>2. /\ DOMAIN buffer' = Words
      /\ \A w \in Words : buffer'[w] =
           IF w = RecordAt THEN p.len
           ELSE IF w = Position(write_cursor) /\ Pad(p.len) > 0 THEN PADDING
           ELSE IF w \in PayloadAt(RecordAt, p.len) THEN Len(log) + 1 ELSE buffer[w]
  BY <1>1 DEF write_frame, WithPayload
<1>3. \A w \in Words : buffer'[w] \in Int
  BY <1>1, <1>2
<1>4. buffer' = [w \in Words |-> buffer'[w]]
  BY <1>1 DEF write_frame
<1>5. buffer' \in [Words -> Int]
  BY <1>3, <1>4
<1> QED BY <1>2, <1>5 DEF WritesInside

LEMMA AbandonWrites ==
  ASSUME TypeOK, Abandon
  PROVE  WritesInside
<1>1. DOMAIN buffer = Words /\ buffer \in [Words -> Int] /\ Len(log) + 1 \in Int
  BY ProducerType, LenProperties DEF TypeOK
<1>2. /\ DOMAIN buffer' = Words
      /\ \A w \in Words : buffer'[w] = IF w \in PayloadAt(RecordAt, p.len) THEN Len(log) + 1 ELSE buffer[w]
  BY <1>1 DEF Abandon, WithPayload
<1>3. \A w \in Words : buffer'[w] \in Int
  BY <1>1, <1>2
<1>4. buffer' = [w \in Words |-> buffer'[w]]
  BY <1>1 DEF Abandon, WithPayload
<1>5. buffer' \in [Words -> Int]
  BY <1>3, <1>4
<1> QED BY <1>2, <1>5 DEF WritesInside

LEMMA WriteSpares ==
  ASSUME TypeOK, WellFramed(Pending), WritesInside,
         NEW x \in Nat, x < write_cursor, NewEnd <= x + Capacity, Position(x) \in Words
  PROVE  buffer'[Position(x)] = buffer[Position(x)]
<1>1. /\ write_cursor \in Nat /\ DOMAIN buffer = Words
      /\ RecordStart \in Nat /\ NewEnd \in Nat /\ write_cursor <= RecordStart /\ RecordStart + 4 <= NewEnd
      /\ RecordAt = Position(RecordStart)
  BY ProducerType, PendingType
<1>2. ASSUME NEW y \in Nat, write_cursor <= y, y < NewEnd PROVE Position(x) # Position(y)
  <2>1. x < y /\ y < x + Capacity
    BY <1>1, <1>2, CapacityType
  <2> QED BY <2>1, Apart
<1>3. Position(x) # RecordAt /\ Position(x) # Position(write_cursor)
  <2>1. RecordStart < NewEnd /\ write_cursor < NewEnd
    BY <1>1
  <2> QED BY <1>1, <1>2, <2>1
<1>4. Position(x) \notin PayloadAt(RecordAt, p.len)
  <2> SUFFICES ASSUME Position(x) \in PayloadAt(RecordAt, p.len) PROVE FALSE
    OBVIOUS
  <2>1. Pending.at = RecordStart /\ Pending.end = NewEnd /\ Pending.record[1] = p.len
    BY PendingType
  <2>2. Position(x) \in PayloadAt(Position(Pending.at), Pending.record[1])
    BY <1>1, <2>1
  <2>3. PICK y \in Nat : Pending.at <= y /\ y < Pending.end /\ Position(x) = Position(y)
    BY <1>1, <2>2, WordOf
  <2>4. write_cursor <= y /\ y < NewEnd
    BY <1>1, <2>1, <2>3
  <2> QED BY <1>2, <2>3, <2>4
<1> QED BY <1>3, <1>4 DEF WritesInside

\* The record's payload is as it was if each of its words is.
LEMMA SamePayload ==
  ASSUME NEW position, NEW len, DOMAIN buffer' = DOMAIN buffer,
         \A w \in PayloadAt(position, len) : buffer'[w] = buffer[w]
  PROVE  /\ PayloadAt(position, len)' = PayloadAt(position, len)
         /\ {buffer'[w] : w \in PayloadAt(position, len)'} = {buffer[w] : w \in PayloadAt(position, len)}
<1>1. PayloadAt(position, len)' = PayloadAt(position, len)
  BY DEF PayloadAt
<1> QED BY <1>1

\* The gate is at or below every cursor that it guards.
LEMMA GatedAbove ==
  ASSUME TypeOK, GateInv, NEW x \in Nat, Gated(x)
  PROVE  p.cached_min <= x
<1>1. p.cached_min \in Int /\ fence_seq \in Nat /\ p.cached_min <= fence_seq
  BY ProducerType DEF GateInv
<1>2. CASE fence_seq <= x
  BY <1>1, <1>2
<1>3. CASE \E i \in Consumers : Live(i) /\ slots[i] <= x
  <2>1. PICK i \in Consumers : Live(i) /\ slots[i] <= x
    BY <1>3
  <2>2. slots[i] \in Nat /\ p.cached_min <= slots[i]
    BY <2>1 DEF GateInv, GateOk, Live, TypeOK
  <2> QED BY <1>1, <2>1, <2>2
<1> QED BY <1>2, <1>3 DEF Gated

LEMMA HeldOver ==
  ASSUME TypeOK, GateInv, WellFramed(Pending), WritesInside, NewEnd <= p.cached_min + Capacity,
         UNCHANGED <<slots, fence_seq>>,
         NEW f, WellFramed(f), f.end <= write_cursor, Held(f)
  PROVE  Held(f)'
<1>1. /\ f.start \in Nat /\ f.at \in Nat /\ f.end \in Nat /\ f.start <= f.at /\ f.at + 4 <= f.end
      /\ f.start % 4 = 0 /\ f.at % 4 = 0
  BY Framed DEF WellFramed, ALIGN
<1>2. NewEnd \in Nat /\ write_cursor \in Nat /\ p.cached_min \in Int
  BY ProducerType, PendingType
<1>0. \A x : Gated(x)' = Gated(x)
  BY DEF Gated, Live
<1>3. HeldPadding(f)'
  <2> SUFFICES ASSUME f.at # f.start, Gated(f.start) PROVE buffer'[Position(f.start)] = PADDING
    BY <1>0 DEF HeldPadding, Position
  <2>1. buffer[Position(f.start)] = PADDING
    BY DEF Held, HeldPadding
  <2>2. p.cached_min <= f.start
    BY <1>1, GatedAbove
  <2>3. f.start < write_cursor /\ NewEnd <= f.start + Capacity
    BY <1>1, <1>2, <2>2, CapacityType
  <2>4. Position(f.start) \in Words
    BY <1>1, PositionWord
  <2> QED BY <1>1, <2>1, <2>3, <2>4, WriteSpares
<1>4. HeldRecord(f)'
  <2> SUFFICES ASSUME Gated(f.at)
               PROVE  <<buffer'[Position(f.at)],
                        {buffer'[w] : w \in PayloadAt(Position(f.at), f.record[1])'}>> = f.record
    BY <1>0 DEF HeldRecord, Position
  <2>1. <<buffer[Position(f.at)], {buffer[w] : w \in PayloadAt(Position(f.at), f.record[1])}>> = f.record
    BY DEF Held, HeldRecord
  <2>2. p.cached_min <= f.at
    BY <1>1, GatedAbove
  <2>3. f.at < write_cursor /\ NewEnd <= f.at + Capacity
    BY <1>1, <1>2, <2>2, CapacityType
  <2>4. Position(f.at) \in Words
    BY <1>1, PositionWord
  <2>5. buffer'[Position(f.at)] = buffer[Position(f.at)]
    BY <1>1, <2>3, <2>4, WriteSpares
  <2>6. \A w \in PayloadAt(Position(f.at), f.record[1]) : buffer'[w] = buffer[w]
    <3> TAKE w \in PayloadAt(Position(f.at), f.record[1])
    <3>1. w \in Words
      BY ProducerType, WordOf
    <3>2. PICK x \in Nat : f.at <= x /\ x < f.end /\ w = Position(x)
      BY ProducerType, WordOf
    <3>3. x < write_cursor /\ NewEnd <= x + Capacity
      BY <1>1, <1>2, <2>3, <3>2, CapacityType
    <3> QED BY <3>1, <3>2, <3>3, WriteSpares
  <2>7. {buffer'[w] : w \in PayloadAt(Position(f.at), f.record[1])'}
          = {buffer[w] : w \in PayloadAt(Position(f.at), f.record[1])}
    <3>1. DOMAIN buffer' = DOMAIN buffer
      BY ProducerType DEF WritesInside
    <3> QED BY <3>1, <2>6, SamePayload
  <2> QED BY <2>1, <2>5, <2>7
<1> QED BY <1>3, <1>4 DEF Held

\* What was written is what is held.
LEMMA HeldNow ==
  ASSUME TypeOK, WellFramed(Pending), write_frame, NEW f, f = Pending
  PROVE  Held(f)'
<1>0. /\ write_cursor \in Nat /\ p.len \in Nat /\ DOMAIN buffer = Words /\ DOMAIN buffer' = Words
      /\ RecordStart \in Nat /\ NewEnd \in Nat /\ RecordStart = write_cursor + Pad(p.len)
      /\ NewEnd = RecordStart + record_len(p.len) /\ RecordAt = Position(RecordStart)
  BY ProducerType, PendingType, CommitWrites DEF WritesInside
<1>1. /\ f.start = write_cursor /\ f.at = RecordStart /\ f.end = NewEnd /\ f.record[1] = p.len
      /\ f.record = <<p.len, IF p.len = 0 THEN {} ELSE {Len(log) + 1}>>
  BY PendingType DEF Record
<1>2. /\ RecordStart % 4 = 0 /\ write_cursor % 4 = 0
      /\ Position(RecordStart) + record_len(p.len) <= Capacity /\ NewEnd <= write_cursor + Capacity
  BY <1>1 DEF WellFramed, ALIGN
<1>3. /\ record_len(p.len) \in Nat /\ record_len(p.len) >= 4 /\ record_len(p.len) >= 4 + p.len
      /\ p.len = 0 => record_len(p.len) = 4
  BY <1>0, RecordLen
<1>4. /\ RecordAt \in Words /\ RecordAt \in Nat /\ RecordAt % 4 = 0
      /\ Position(write_cursor) \in Words /\ Position(write_cursor) \in Nat
  BY <1>0, <1>2, PositionWord, PositionType
<1>5. \A w \in Words : buffer'[w] =
        IF w = RecordAt THEN p.len
        ELSE IF w = Position(write_cursor) /\ Pad(p.len) > 0 THEN PADDING
        ELSE IF w \in PayloadAt(RecordAt, p.len) THEN Len(log) + 1 ELSE buffer[w]
  BY <1>0 DEF write_frame, WithPayload
<1>6. PayloadAt(RecordAt, p.len)
        = {w \in Words : RecordAt + 4 <= w /\ w < RecordAt + record_len(p.len)}
  BY <1>0 DEF PayloadAt, HEADER
<1>7. Pad(p.len) > 0 => /\ RecordAt = 0 /\ record_len(p.len) <= Position(write_cursor)
                        /\ Position(write_cursor) # RecordAt
                        /\ Position(write_cursor) \notin PayloadAt(RecordAt, p.len)
  <2> SUFFICES ASSUME Pad(p.len) > 0
               PROVE  /\ RecordAt = 0 /\ record_len(p.len) <= Position(write_cursor)
                      /\ Position(write_cursor) # RecordAt
                      /\ Position(write_cursor) \notin PayloadAt(RecordAt, p.len)
    OBVIOUS
  <2>1. Pad(p.len) = ToEnd(write_cursor)
    BY <1>0, Fits
  <2>2. RecordAt = 0
    BY <1>0, <2>1, PositionWrap
  <2>3. record_len(p.len) <= Position(write_cursor)
    <3>1. Position(write_cursor) + ToEnd(write_cursor) = Capacity /\ ToEnd(write_cursor) \in Nat
      BY <1>0, PositionType
    <3> QED BY <3>1, <1>0, <1>2, <1>3, <1>4, <2>1, CapacityType
  <2>4. ~(Position(write_cursor) < RecordAt + record_len(p.len))
    BY <1>3, <1>4, <2>2, <2>3
  <2>5. Position(write_cursor) # RecordAt
    BY <1>3, <1>4, <2>2, <2>3
  <2> QED BY <1>6, <2>2, <2>3, <2>4, <2>5
<1>8. \A w \in PayloadAt(RecordAt, p.len) : buffer'[w] = Len(log) + 1
  <2> TAKE w \in PayloadAt(RecordAt, p.len)
  <2>1. w \in Words /\ w \in Nat /\ RecordAt + 4 <= w
    BY <1>6, WordType
  <2>2. w # RecordAt
    BY <1>4, <2>1
  <2>3. ~(w = Position(write_cursor) /\ Pad(p.len) > 0)
    BY <1>7
  <2> QED BY <1>5, <2>1, <2>2, <2>3
<1>9. {buffer'[w] : w \in PayloadAt(RecordAt, p.len)} = IF p.len = 0 THEN {} ELSE {Len(log) + 1}
  <2>1. CASE p.len = 0
    <3>1. \A w \in Words : ~(RecordAt + 4 <= w /\ w < RecordAt + record_len(p.len))
      BY <2>1, WordType, <1>3, <1>4
    <3>2. PayloadAt(RecordAt, p.len) = {}
      BY <3>1, <1>6
    <3> QED BY <2>1, <3>2
  <2>2. CASE p.len # 0
    <3>1. RecordAt + 4 \in Nat /\ (RecordAt + 4) % 4 = 0
      BY <1>4
    <3>2. RecordAt + 4 < Capacity /\ RecordAt + 4 < RecordAt + record_len(p.len)
      BY <2>2, <1>0, <1>2, <1>3, <1>4, CapacityType
    <3>3. RecordAt + 4 \in Words
      BY <3>1, <3>2, WordType
    <3>4. RecordAt + 4 \in PayloadAt(RecordAt, p.len)
      BY <1>4, <1>6, <3>2, <3>3
    <3> QED BY <2>2, <3>4, <1>8
  <2> QED BY <2>1, <2>2
<1>10. HeldRecord(f)'
  <2>1. buffer'[RecordAt] = p.len
    BY <1>4, <1>5
  <2>2. PayloadAt(Position(f.at), f.record[1])' = PayloadAt(RecordAt, p.len)
    BY <1>0, <1>1 DEF PayloadAt, Position, record_len
  <2>3. <<buffer'[RecordAt], {buffer'[w] : w \in PayloadAt(RecordAt, p.len)}>> = f.record
    BY <1>1, <1>9, <2>1
  <2>4. Position(f.at) = RecordAt
    BY <1>0, <1>1
  <2> QED BY <2>2, <2>3, <2>4 DEF HeldRecord, Position
<1>11. HeldPadding(f)'
  <2> SUFFICES ASSUME RecordStart # write_cursor PROVE buffer'[Position(write_cursor)] = PADDING
    BY <1>1 DEF HeldPadding, Position
  <2>1. Pad(p.len) > 0
    BY <1>0, Fits
  <2> QED BY <1>4, <1>5, <1>7, <2>1
<1> QED BY <1>10, <1>11 DEF Held

-----------------------------------------------------------------------------
(* What a step leaves as it is *)

\* Fewer cursors are gated as the fence and the slots move on.
LEMMA HeldStill ==
  ASSUME NEW f, Held(f), UNCHANGED buffer, Gated(f.start)' => Gated(f.start), Gated(f.at)' => Gated(f.at)
  PROVE  Held(f)'
BY DEF Held, HeldPadding, HeldRecord, PayloadAt, Position

LEMMA LogStill ==
  ASSUME TypeOK, FramesInv, ContentsInv, UNCHANGED <<buffer, log, ends, write_cursor>>,
         \A x \in Nat : Gated(x)' => Gated(x)
  PROVE  FramesInv' /\ ContentsInv' /\ Ends' = Ends /\ frames' = frames
<1>1. FramesInv' /\ Ends' = Ends /\ frames' = frames
  BY FramesKept
<1>2. ASSUME NEW n \in DOMAIN frames PROVE Held(frames[n])'
  <2>1. PICK f : f = frames[n]
    OBVIOUS
  <2>2. WellFramed(f) /\ Held(f)
    BY <2>1 DEF FramesInv, ContentsInv
  <2>3. Held(f)'
    BY <2>2, HeldStill DEF WellFramed
  <2>4. f = frames'[n]
    BY <1>1, <2>1
  <2> QED BY <2>3, <2>4 DEF Held, HeldPadding, HeldRecord
<1> QED BY <1>1, <1>2 DEF ContentsInv

LEMMA ConsumerStill ==
  ASSUME NEW i \in Consumers, ConsumerOk(i), UNCHANGED <<log, ends, c[i], slots[i]>>
  PROVE  ConsumerOk(i)'
<1>1. \A n : End(n)' = End(n)
  BY DEF End
<1>2. frames' = frames /\ Ends' = Ends
  BY <1>1 DEF frames, Ends
<1> QED BY <1>2 DEF ConsumerOk, StandsAt, CaughtUp, Placed, Live

LEMMA ConsumersStill ==
  ASSUME ConsumerInv, UNCHANGED <<log, ends, c, slots>>
  PROVE  ConsumerInv'
BY ConsumerStill DEF ConsumerInv


-----------------------------------------------------------------------------
(* The gate *)

\* The steps of a push before its record is written: the log, the buffer and
\* the consumers stay as they are, and the fence is where it was or further on.
LEMMA GateStep ==
  ASSUME IInv, UNCHANGED <<buffer, write_cursor, slots, log, ends, c>>, fence_seq <= fence_seq',
         TypeOK', GateInv', ProducerInv'
  PROVE  IInv'
<1>1. \A x \in Nat : Gated(x)' => Gated(x)
  <2>1. fence_seq \in Nat /\ fence_seq' \in Nat
    BY DEF IInv, TypeOK
  <2> QED BY <2>1 DEF Gated, Live
<1>2. FramesInv' /\ ContentsInv'
  BY <1>1, LogStill DEF IInv
<1>3. ConsumerInv'
  BY ConsumersStill DEF IInv
<1> QED BY <1>2, <1>3 DEF IInv

LEMMA NeedsType ==
  ASSUME TypeOK, NEW n \in Nat, NEW m \in Int
  PROVE  Lacks(n, m) <=> write_cursor + n > m + Capacity
BY ProducerType, CapacityType DEF Lacks

LEMMA FrameInv ==
  ASSUME IInv, NEW len \in AllLengths, Frame(len)
  PROVE  IInv'
<1>1. /\ p.pc = "idle" /\ Len(log) < MaxPushes
      /\ UNCHANGED <<buffer, write_cursor, closed, slots, cached_cursors, fence_seq, log, ends, c>>
      /\ IF Lacks(Needed(len), p.cached_min)
         THEN p' = [p EXCEPT !.pc = "lacking", !.len = len] /\ UNCHANGED starving
         ELSE Granted(len)
  BY DEF Frame
<1>2. len \in Nat /\ Needed(len) \in Nat
  BY LengthType, Fits DEF IInv
<1>3. \/ p' = [p EXCEPT !.pc = "lacking", !.len = len]
      \/ p' = [p EXCEPT !.pc = "granted", !.len = len, !.raised_starving = FALSE]
  BY <1>1 DEF Granted
<1>4. starving' \in Nat
  BY <1>1 DEF Granted, IInv, TypeOK
<1>5. TypeOK'
  <2>1. p \in Producers
    BY DEF IInv, TypeOK
  <2>2. p' \in Producers
    BY <1>2, <1>3, <2>1 DEF Producers, Quiet
  <2> QED BY <1>1, <1>4, <2>2 DEF IInv, TypeOK
<1>6. /\ p'.len = len /\ p'.cached_min = p.cached_min
      /\ p'.pc = "lacking" \/ (p'.pc = "granted" /\ ~Lacks(Needed(len), p.cached_min))
  BY <1>1 DEF IInv, TypeOK, Producers, Granted
<1>7. GateInv'
  BY <1>1, <1>6 DEF IInv, GateInv, GateOk, Live
<1>8. NewEnd' = write_cursor + Needed(len)
  BY <1>1, <1>6 DEF NewEnd, Needed, Pad, Position, record_len
<1>9. p'.pc = "granted" => NewEnd' <= p'.cached_min + Capacity
  BY <1>2, <1>6, <1>8, NeedsType, ProducerType, CapacityType DEF IInv
<1>10. ProducerInv'
  BY <1>1, <1>6, <1>9 DEF ProducerInv
<1>11. fence_seq <= fence_seq'
  BY <1>1 DEF IInv, TypeOK
<1> QED BY <1>1, <1>5, <1>7, <1>10, <1>11, GateStep

\* What a scan of the registry finds, and the minimum taken from it.
LEMMA ScanFinds ==
  ASSUME TypeOK, GateInv, NEW needed \in Nat, NEW cursors, NEW min,
         cursors = Scanned(needed), min = NewMin(cursors)
  PROVE  /\ cursors \in [Consumers -> Nat]
         /\ \A i \in Consumers : Live(i) => cursors[i] <= slots[i] /\ min <= slots[i]
         /\ min \in Int /\ min <= write_cursor
<1>1. \A i \in Consumers : /\ Live(i) => /\ slots[i] \in Nat /\ slots[i] <= write_cursor
                                         /\ cached_cursors[i] <= slots[i]
                           /\ cached_cursors[i] \in Nat
  BY DEF TypeOK, GateInv, GateOk, Live
<1>2. write_cursor \in Nat
  BY DEF TypeOK
<1>3. \A i \in Consumers :
        cursors[i] = IF Live(i) /\ Lacks(needed, cached_cursors[i]) THEN slots[i] ELSE cached_cursors[i]
  BY DEF Scanned
<1>4. cursors \in [Consumers -> Nat]
  BY <1>1 DEF Scanned
<1>5. \A i \in Consumers : Live(i) => cursors[i] <= slots[i]
  BY <1>1, <1>3
<1>6. CASE \E i \in Consumers : Live(i)
  <2> DEFINE S == {cursors[i] : i \in {i \in Consumers : Live(i)}}
  <2>1. S \in SUBSET Int /\ S # {} /\ \A x \in S : -0 <= x
    BY <1>4, <1>6
  <2>2. Min(S) \in S /\ \A y \in S : Min(S) <= y
    <3> HIDE DEF S
    <3> QED BY <2>1, MinLeast
  <2>3. min = Min(S)
    BY <1>6 DEF NewMin
  <2>4. PICK j \in Consumers : Live(j) /\ min = cursors[j]
    BY <2>2, <2>3
  <2>5. min \in Int /\ min <= write_cursor
    BY <2>4, <1>1, <1>2, <1>4, <1>5
  <2>6. ASSUME NEW i \in Consumers, Live(i) PROVE min <= slots[i]
    <3>1. cursors[i] \in S
      BY <2>6
    <3>2. min <= cursors[i]
      <4> HIDE DEF S
      <4> QED BY <3>1, <2>2, <2>3
    <3> QED BY <3>2, <1>1, <1>4, <1>5, <2>5, <2>6
  <2> QED BY <1>4, <1>5, <2>5, <2>6
<1>7. CASE ~ \E i \in Consumers : Live(i)
  <2>1. min = write_cursor - 1
    BY <1>7 DEF NewMin
  <2> QED BY <1>2, <1>4, <1>5, <1>7, <2>1
<1> QED BY <1>6, <1>7

\* A scan after its fence: the gate is where the consumers are.
LEMMA ScanGate ==
  ASSUME IInv, NEW cursors, NEW min, cursors = Scanned(Needed(p.len)), min = NewMin(cursors),
         cached_cursors' = cursors, fence_seq' = write_cursor, p'.cached_min = min,
         UNCHANGED <<write_cursor, slots>>
  PROVE  /\ cursors \in [Consumers -> Nat] /\ min \in Int
         /\ GateInv' /\ fence_seq <= fence_seq'
<1>1. Needed(p.len) \in Nat
  BY Fits, ProducerType DEF IInv
<1>2. /\ cursors \in [Consumers -> Nat]
      /\ \A i \in Consumers : Live(i) => cursors[i] <= slots[i] /\ min <= slots[i]
      /\ min \in Int /\ min <= write_cursor
  BY <1>1, ScanFinds DEF IInv
<1>3. \A i \in Consumers : GateOk(i)'
  <2> TAKE i \in Consumers
  <2>1. GateOk(i)
    BY DEF IInv, GateInv
  <2> QED BY <1>2, <2>1 DEF GateOk, Live
<1>4. write_cursor \in Nat
  BY DEF IInv, TypeOK
<1>5. fence_seq <= fence_seq'
  BY DEF IInv, GateInv
<1> QED BY <1>2, <1>3, <1>4, <1>5 DEF GateInv

LEMMA RescanInv ==
  ASSUME IInv, Rescan
  PROVE  IInv'
<1> DEFINE cursors == Scanned(Needed(p.len))
           min == NewMin(cursors)
<1>1. /\ p.pc = "lacking" /\ cached_cursors' = cursors /\ fence_seq' = write_cursor
      /\ p' = [p EXCEPT !.cached_min = min,
                        !.pc = IF Lacks(Needed(p.len), min) THEN "starved" ELSE "granted"]
      /\ UNCHANGED <<buffer, write_cursor, closed, starving, slots, log, ends, c>>
  BY DEF Rescan, shared
<1>2. p \in Producers
  BY DEF IInv, TypeOK
<1> HIDE DEF min
<1>3. /\ p'.len = p.len /\ p'.cached_min = min
      /\ p'.pc = IF Lacks(Needed(p.len), min) THEN "starved" ELSE "granted"
  BY <1>1, <1>2 DEF Producers
<1>4. cursors \in [Consumers -> Nat] /\ min \in Int /\ GateInv' /\ fence_seq <= fence_seq'
  BY <1>1, <1>3, ScanGate DEF min
<1> HIDE DEF cursors
<1>5. TypeOK'
  <2>1. p' \in Producers
    BY <1>1, <1>2, <1>4 DEF Producers, Quiet
  <2> QED BY <1>1, <1>4, <2>1 DEF IInv, TypeOK
<1>6. NewEnd' = write_cursor + Needed(p.len) /\ Needed(p.len) \in Nat
  BY <1>1, <1>3, Fits, ProducerType DEF NewEnd, Needed, Pad, Position, record_len, IInv
<1>7. p'.pc = "granted" => NewEnd' <= p'.cached_min + Capacity
  <2> SUFFICES ASSUME p'.pc = "granted" PROVE NewEnd' <= min + Capacity
    BY <1>3
  <2>1. ~Lacks(Needed(p.len), min)
    BY <1>3
  <2> QED BY <2>1, <1>4, <1>6, NeedsType, ProducerType, CapacityType DEF IInv
<1>8. ProducerInv'
  BY <1>1, <1>3, <1>7 DEF IInv, ProducerInv, Sized
<1> QED BY <1>1, <1>4, <1>5, <1>8, GateStep

LEMMA RaiseStarvingInv ==
  ASSUME IInv, RaiseStarving
  PROVE  IInv'
<1>1. /\ p.pc = "starved" /\ starving' = Needed(p.len)
      /\ UNCHANGED <<buffer, write_cursor, closed, slots, cached_cursors, fence_seq, log, ends, c>>
  BY DEF RaiseStarving
<1>9. PICK pc \in {"waiting", "idle"} : p' = [p EXCEPT !.raised_starving = TRUE, !.pc = pc]
  BY DEF RaiseStarving
<1>2. Needed(p.len) \in Nat /\ p \in Producers
  BY Fits, ProducerType DEF IInv, TypeOK
<1>3. TypeOK'
  <2>1. p' \in Producers
    BY <1>2, <1>9 DEF Producers, Quiet
  <2> QED BY <1>1, <1>2, <2>1 DEF IInv, TypeOK
<1>4. p'.cached_min = p.cached_min /\ p'.len = p.len /\ p'.pc \in {"waiting", "idle"}
  BY <1>2, <1>9 DEF Producers
<1>5. GateInv'
  BY <1>1, <1>4 DEF IInv, GateInv, GateOk, Live
<1>6. starving' = Needed(p.len)'
  BY <1>1, <1>4 DEF Needed, Pad, Position, record_len
<1>7. ProducerInv'
  BY <1>1, <1>4, <1>6 DEF IInv, ProducerInv, Sized
<1>8. fence_seq <= fence_seq'
  BY <1>1 DEF IInv, TypeOK
<1> QED BY <1>1, <1>3, <1>5, <1>7, <1>8, GateStep

LEMMA WaitForSpaceInv ==
  ASSUME IInv, WaitForSpace
  PROVE  IInv'
<1> DEFINE cursors == Scanned(Needed(p.len))
           min == NewMin(cursors)
<1>1. /\ p.pc = "waiting" /\ cached_cursors' = cursors /\ fence_seq' = write_cursor
      /\ IF Lacks(Needed(p.len), min)
         THEN p' = [p EXCEPT !.cached_min = min] /\ UNCHANGED starving
         ELSE \E kept \in BOOLEAN :
                /\ p' = [p EXCEPT !.cached_min = min, !.pc = "granted", !.raised_starving = kept]
                /\ starving' = IF kept THEN starving ELSE 0
      /\ UNCHANGED <<buffer, write_cursor, closed, slots, log, ends, c>>
  BY DEF WaitForSpace
<1>2. p \in Producers
  BY DEF IInv, TypeOK
<1> HIDE DEF min
<1>3. /\ p'.len = p.len /\ p'.cached_min = min
      /\ p'.pc = IF Lacks(Needed(p.len), min) THEN "waiting" ELSE "granted"
  BY <1>1, <1>2 DEF Producers
<1>4. cursors \in [Consumers -> Nat] /\ min \in Int /\ GateInv' /\ fence_seq <= fence_seq'
  BY <1>1, <1>3, ScanGate DEF min
<1> HIDE DEF cursors
<1>5. TypeOK'
  <2>1. p' \in Producers
    <3>1. CASE p' = [p EXCEPT !.cached_min = min]
      BY <3>1, <1>2, <1>4 DEF Producers
    <3>2. ASSUME NEW kept \in BOOLEAN,
                 p' = [p EXCEPT !.cached_min = min, !.pc = "granted", !.raised_starving = kept]
          PROVE  p' \in Producers
      BY <3>2, <1>2, <1>4 DEF Producers
    <3> QED BY <1>1, <3>1, <3>2
  <2>2. starving' \in Nat
    <3>1. CASE Lacks(Needed(p.len), min)
      BY <1>1, <3>1 DEF IInv, TypeOK
    <3>2. CASE ~Lacks(Needed(p.len), min)
      <4>1. PICK kept \in BOOLEAN : starving' = IF kept THEN starving ELSE 0
        BY <1>1, <3>2
      <4>2. starving' = starving \/ starving' = 0
        BY <4>1, Zenon
      <4> QED BY <4>2 DEF IInv, TypeOK
    <3> QED BY <3>1, <3>2
  <2> QED BY <1>1, <1>4, <2>1, <2>2 DEF IInv, TypeOK
<1>6. /\ NewEnd' = write_cursor + Needed(p.len) /\ Needed(p.len) \in Nat
      /\ Needed(p.len)' = Needed(p.len)
  BY <1>1, <1>3, Fits, ProducerType DEF NewEnd, Needed, Pad, Position, record_len, IInv
<1>7. p'.pc = "granted" => NewEnd' <= p'.cached_min + Capacity
  <2> SUFFICES ASSUME p'.pc = "granted" PROVE NewEnd' <= min + Capacity
    BY <1>3
  <2>1. ~Lacks(Needed(p.len), min)
    BY <1>3
  <2> QED BY <2>1, <1>4, <1>6, NeedsType, ProducerType, CapacityType DEF IInv
<1>9. p'.pc = "waiting" => starving' = Needed(p.len)'
  BY <1>1, <1>3, <1>6 DEF IInv, ProducerInv
<1>8. ProducerInv'
  BY <1>1, <1>3, <1>7, <1>9 DEF IInv, ProducerInv, Sized
<1> QED BY <1>1, <1>4, <1>5, <1>8, GateStep

LEMMA DropProducerInv ==
  ASSUME IInv, DropProducer
  PROVE  IInv'
<1>1. /\ closed' = TRUE /\ p' = [p EXCEPT !.pc = "gone"]
      /\ UNCHANGED <<buffer, write_cursor, starving, slots, cached_cursors, fence_seq, log, ends, c>>
  BY DEF DropProducer
<1>2. TypeOK'
  BY <1>1 DEF IInv, TypeOK, Producers
<1>3. p'.cached_min = p.cached_min /\ p'.pc = "gone"
  BY <1>1 DEF IInv, TypeOK, Producers
<1>4. GateInv'
  BY <1>1, <1>3 DEF IInv, GateInv, GateOk, Live
<1>5. ProducerInv'
  BY <1>3 DEF ProducerInv, Sized
<1>6. fence_seq <= fence_seq'
  BY <1>1 DEF IInv, TypeOK
<1> QED BY <1>1, <1>2, <1>4, <1>5, <1>6, GateStep

-----------------------------------------------------------------------------
(* The write *)

LEMMA AbandonInv ==
  ASSUME IInv, Abandon
  PROVE  IInv'
<1>1. /\ p.pc = "granted" /\ p' = [p EXCEPT !.pc = "idle", !.len = 0]
      /\ UNCHANGED <<write_cursor, closed, starving, slots, cached_cursors, fence_seq, log, ends, c>>
  BY DEF Abandon
<1>2. WritesInside /\ WellFramed(Pending) /\ NewEnd <= p.cached_min + Capacity
  BY <1>1, AbandonWrites, PendingFramed DEF IInv
<1>3. TypeOK'
  <2>1. p' \in Producers
    BY <1>1 DEF IInv, TypeOK, Producers, Quiet
  <2>2. buffer' \in [Words -> Int]
    BY <1>2 DEF WritesInside
  <2> QED BY <1>1, <2>1, <2>2 DEF IInv, TypeOK
<1>4. p'.cached_min = p.cached_min /\ p'.pc = "idle"
  BY <1>1 DEF IInv, TypeOK, Producers
<1>5. FramesInv' /\ frames' = frames
  BY <1>1, FramesKept DEF IInv
<1>6. ContentsInv'
  <2>1. ASSUME NEW n \in DOMAIN frames PROVE Held(frames[n])'
    <3>1. PICK f : f = frames[n]
      OBVIOUS
    <3>2. WellFramed(f) /\ Held(f) /\ f.end <= write_cursor
      BY <3>1, FrameEnds DEF IInv, ContentsInv
    <3>3. Held(f)'
      BY <1>1, <1>2, <3>2, HeldOver DEF IInv
    <3>4. f = frames'[n]
      BY <1>5, <3>1
    <3> QED BY <3>3, <3>4 DEF Held, HeldPadding, HeldRecord
  <2> QED BY <1>5, <2>1 DEF ContentsInv
<1>7. GateInv'
  BY <1>1, <1>4 DEF IInv, GateInv, GateOk, Live
<1>8. ProducerInv'
  BY <1>4 DEF ProducerInv, Sized
<1>9. ConsumerInv'
  BY <1>1, ConsumersStill DEF IInv
<1> QED BY <1>3, <1>5, <1>6, <1>7, <1>8, <1>9 DEF IInv

LEMMA FramesGrow ==
  ASSUME TypeOK, FramesInv, NEW f, WellFramed(f), f.start = write_cursor, Len(log) < MaxPushes,
         ends' = Append(ends, f.end), log' = Append(log, f.record), write_cursor' = f.end
  PROVE  /\ FramesInv' /\ ends' \in Seq(Nat) /\ log' \in Seq(AllRecords)
         /\ write_cursor < write_cursor' /\ write_cursor' \in Nat
         /\ Len(ends') = Len(ends) + 1 /\ frames'[Len(ends) + 1] = f
         /\ \A n \in DOMAIN frames : n \in DOMAIN frames' /\ frames'[n] = frames[n]
         /\ \A n \in DOMAIN frames' : n \in DOMAIN frames \/ n = Len(ends) + 1
         /\ DOMAIN frames' = 1 .. Len(ends) + 1
         /\ Ends \subseteq Ends' /\ Ends' \subseteq Ends \union {f.end}
<1>0. PICK N : N = Len(ends)
  OBVIOUS
<1>1. /\ N \in Nat /\ DOMAIN frames = 1 .. N /\ Len(log) = N
      /\ ends \in Seq(Nat) /\ log \in Seq(AllRecords)
  BY <1>0, FrameIndex DEF TypeOK
<1>4. /\ f.end \in Nat /\ f.start \in Nat /\ f.start < f.end /\ f.at \in Nat
      /\ f.record \in AllRecords /\ f.end = f.at + record_len(f.record[1])
      /\ record_len(f.record[1]) \in Nat
  BY Framed
<1>2. /\ ends' \in Seq(Nat) /\ Len(ends') = N + 1 /\ ends'[N + 1] = f.end
      /\ \A n \in 1 .. N : ends'[n] = ends[n]
  BY <1>0, <1>1, <1>4, AppendProperties
<1>3. /\ log' \in Seq(AllRecords) /\ Len(log') = N + 1 /\ log'[N + 1] = f.record
      /\ \A n \in 1 .. N : log'[n] = log[n]
  BY <1>1, <1>4, AppendProperties
<1>5. DOMAIN ends' = 1 .. N + 1 /\ DOMAIN frames' = 1 .. N + 1
  BY <1>2, LenProperties DEF frames
<1>6. \A m, n \in 0 .. N : m < n => End(m) < End(n)
  BY <1>0 DEF FramesInv
<1>7. \A n \in 0 .. N : End(n) \in Nat /\ End(n) <= write_cursor
  BY <1>0, EndType
<1>8. ASSUME NEW n \in 0 .. N PROVE End(n)' = End(n)
  <2>1. n = 0 \/ n \in 1 .. N
    BY <1>1
  <2> QED BY <1>2, <2>1 DEF End
<1>9. N + 1 # 0 /\ End(N + 1)' = f.end
  BY <1>1, <1>2 DEF End
<1>10. \A m, n \in 0 .. N + 1 : m < n => End(m)' < End(n)'
  <2> SUFFICES ASSUME NEW m \in 0 .. N + 1, NEW n \in 0 .. N + 1, m < n
               PROVE  End(m)' < End(n)'
    OBVIOUS
  <2>1. m \in 0 .. N /\ (n \in 0 .. N \/ n = N + 1)
    BY <1>1
  <2>2. CASE n \in 0 .. N
    BY <1>6, <1>8, <2>1, <2>2
  <2>3. CASE n = N + 1
    <3>1. End(m) \in Nat /\ End(m) <= write_cursor /\ End(m)' = End(m)
      BY <1>7, <1>8, <2>1
    <3>2. End(n)' = f.end
      BY <1>9, <2>3
    <3> QED BY <3>1, <3>2, <1>4
  <2> QED BY <2>1, <2>2, <2>3
<1>16. \A n \in 1 .. N + 1 :
         frames'[n] = [start |-> End(n - 1)', at |-> End(n)' - record_len(log'[n][1]), end |-> End(n)',
                       record |-> log'[n]]
  BY <1>5 DEF frames, record_len
<1>17. ASSUME NEW n \in 1 .. N PROVE frames'[n] = frames[n]
  <2>1. n - 1 \in 0 .. N /\ n \in 0 .. N /\ n \in 1 .. N + 1
    BY <1>1
  <2>2. End(n - 1)' = End(n - 1) /\ End(n)' = End(n) /\ log'[n] = log[n]
    BY <1>3, <1>8, <2>1
  <2>3. frames[n] = [start |-> End(n - 1), at |-> End(n) - record_len(log[n][1]), end |-> End(n),
                     record |-> log[n]]
    BY <1>0, <1>1 DEF frames
  <2> QED BY <1>16, <2>1, <2>2, <2>3
<1>18. frames'[N + 1] = f
  <2>1. N + 1 \in 1 .. N + 1 /\ (N + 1) - 1 = N /\ N \in 0 .. N
    BY <1>1
  <2>2. End(N)' = f.start
    <3>1. write_cursor = End(N)
      BY <1>0 DEF FramesInv
    <3> QED BY <3>1, <1>8, <2>1
  <2>3. f.at = f.end - record_len(f.record[1])
    BY <1>4
  <2>4. frames'[N + 1] = [start |-> f.start, at |-> f.at, end |-> f.end, record |-> f.record]
    BY <1>3, <1>9, <1>16, <2>1, <2>2, <2>3
  <2>5. f = [start |-> f.start, at |-> f.at, end |-> f.end, record |-> f.record]
    BY DEF WellFramed
  <2> QED BY <2>4, <2>5
<1>12. FramesInv'
  <2>1. ASSUME NEW n \in 1 .. N + 1 PROVE WellFramed(frames[n])'
    <3>1. n \in 1 .. N \/ n = N + 1
      BY <1>1
    <3>2. PICK g : g = frames'[n]
      OBVIOUS
    <3>3. WellFramed(g)
      BY <1>1, <1>17, <1>18, <3>1, <3>2 DEF FramesInv
    <3> QED BY <3>2, <3>3 DEF WellFramed, Position, ToEnd, record_len
  <2>2. write_cursor' = End(Len(ends))'
    BY <1>2, <1>9 DEF End
  <2>3. \A m, n \in 0 .. Len(ends') : m < n => End(m)' < End(n)'
    BY <1>2, <1>10
  <2>4. Len(log') <= MaxPushes
    BY <1>1, <1>3, SpmcBytesAssumption
  <2> QED BY <1>2, <1>3, <1>5, <2>1, <2>2, <2>3, <2>4 DEF FramesInv
<1>13. Ends \subseteq Ends'
  <2> SUFFICES ASSUME NEW e \in Ends PROVE e \in Ends'
    OBVIOUS
  <2>1. PICK n \in 0 .. N : e = End(n)
    BY <1>0 DEF Ends
  <2>2. n \in 0 .. N + 1 /\ e = End(n)'
    BY <1>1, <1>8, <2>1
  <2> QED BY <1>2, <2>2 DEF Ends
<1>14. Ends' \subseteq Ends \union {f.end}
  <2> SUFFICES ASSUME NEW e \in Ends' PROVE e \in Ends \union {f.end}
    OBVIOUS
  <2>1. PICK n \in 0 .. N + 1 : e = End(n)'
    BY <1>2 DEF Ends
  <2>2. n \in 0 .. N \/ n = N + 1
    BY <1>1
  <2>3. CASE n \in 0 .. N
    BY <1>0, <1>8, <2>1, <2>3 DEF Ends
  <2>4. CASE n = N + 1
    BY <1>9, <2>1, <2>4
  <2> QED BY <2>2, <2>3, <2>4
<1>15. \A n \in 1 .. N + 1 : n \in 1 .. N \/ n = N + 1
  BY <1>1
<1>19. write_cursor < write_cursor' /\ write_cursor' \in Nat
  BY <1>4
<1>20. \A n \in DOMAIN frames : n \in DOMAIN frames' /\ frames'[n] = frames[n]
  <2> TAKE n \in DOMAIN frames
  <2>1. n \in 1 .. N /\ n \in 1 .. N + 1
    BY <1>1
  <2> QED BY <2>1, <1>5, <1>17
<1> QED BY <1>0, <1>1, <1>2, <1>3, <1>5, <1>12, <1>13, <1>14, <1>15, <1>18, <1>19, <1>20

LEMMA ConsumerGrow ==
  ASSUME NEW i \in Consumers, ConsumerOk(i), UNCHANGED <<c, slots>>, Ends \subseteq Ends',
         \A n \in DOMAIN frames : n \in DOMAIN frames' /\ frames'[n] = frames[n]
  PROVE  ConsumerOk(i)'
<1>1. Live(i)' = Live(i) /\ CaughtUp(c[i])' = CaughtUp(c[i])
  BY DEF Live, CaughtUp
<1>2. ASSUME NEW n \in DOMAIN frames, StandsAt(c[i], n) PROVE n \in DOMAIN frames' /\ StandsAt(c[i], n)'
  BY <1>2 DEF StandsAt
<1> QED BY <1>1, <1>2 DEF ConsumerOk, Placed

\* What write_frame publishes is the record it was granted the room for.
LEMMA Publishes ==
  ASSUME IInv, write_frame, NEW f, f = Pending
  PROVE  /\ p.pc = "granted" /\ UNCHANGED <<closed, starving, slots, cached_cursors, fence_seq, c>>
         /\ p' = [p EXCEPT !.pc = "idle", !.len = 0]
         /\ ends' = Append(ends, f.end) /\ log' = Append(log, f.record) /\ write_cursor' = f.end
         /\ f.start = write_cursor /\ f.end = NewEnd /\ f.record = Record(Len(log) + 1, p.len)
         /\ WellFramed(f) /\ Len(log) < MaxPushes /\ NewEnd <= p.cached_min + Capacity
         /\ WritesInside
<1>1. /\ p.pc = "granted" /\ UNCHANGED <<closed, starving, slots, cached_cursors, fence_seq, c>>
      /\ p' = [p EXCEPT !.pc = "idle", !.len = 0]
      /\ write_cursor' = NewEnd /\ ends' = Append(ends, NewEnd)
      /\ log' = Append(log, Record(Len(log) + 1, p.len))
  BY DEF write_frame, NewEnd
<1>2. f.start = write_cursor /\ f.end = NewEnd /\ f.record = Record(Len(log) + 1, p.len)
  BY PendingType DEF IInv
<1>3. WellFramed(f) /\ Len(log) < MaxPushes /\ NewEnd <= p.cached_min + Capacity
  BY <1>1, PendingFramed DEF IInv
<1> QED BY <1>1, <1>2, <1>3, CommitWrites DEF IInv

LEMMA WriteFrameInv ==
  ASSUME IInv, write_frame
  PROVE  IInv'
<1>1. PICK f : f = Pending
  OBVIOUS
<1>2. /\ UNCHANGED <<closed, starving, slots, cached_cursors, fence_seq, c>>
      /\ p' = [p EXCEPT !.pc = "idle", !.len = 0]
      /\ ends' = Append(ends, f.end) /\ log' = Append(log, f.record) /\ write_cursor' = f.end
      /\ f.start = write_cursor /\ WellFramed(f) /\ Len(log) < MaxPushes
      /\ NewEnd <= p.cached_min + Capacity /\ WritesInside /\ WellFramed(Pending)
  BY <1>1, Publishes
<1>3. /\ FramesInv' /\ ends' \in Seq(Nat) /\ log' \in Seq(AllRecords)
      /\ write_cursor < write_cursor' /\ write_cursor' \in Nat /\ frames'[Len(ends) + 1] = f
      /\ \A n \in DOMAIN frames : n \in DOMAIN frames' /\ frames'[n] = frames[n]
      /\ \A n \in DOMAIN frames' : n \in DOMAIN frames \/ n = Len(ends) + 1
      /\ Ends \subseteq Ends'
  BY <1>2, FramesGrow DEF IInv
<1>4. TypeOK'
  <2>1. p' \in Producers
    BY <1>2 DEF IInv, TypeOK, Producers, Quiet
  <2>2. buffer' \in [Words -> Int]
    BY <1>2 DEF WritesInside
  <2> QED BY <1>2, <1>3, <2>1, <2>2 DEF IInv, TypeOK
<1>5. p'.cached_min = p.cached_min /\ p'.pc = "idle"
  BY <1>2 DEF IInv, TypeOK, Producers
<1>6. ConsumerInv'
  BY <1>2, <1>3, ConsumerGrow DEF IInv, ConsumerInv
<1>7. GateInv'
  <2>1. ASSUME NEW i \in Consumers PROVE GateOk(i)'
    <3>1. GateOk(i) /\ slots[i] \in Int /\ write_cursor \in Nat
      BY DEF IInv, GateInv, TypeOK, DETACHED
    <3> QED BY <1>2, <1>3, <1>5, <3>1 DEF GateOk, Live
  <2>2. fence_seq \in Nat /\ write_cursor \in Nat /\ fence_seq <= write_cursor /\ p.cached_min <= fence_seq
    BY DEF IInv, GateInv, TypeOK
  <2>3. fence_seq' <= write_cursor'
    BY <1>2, <1>3, <2>2
  <2> QED BY <2>1, <2>2, <2>3, <1>2, <1>5 DEF GateInv
<1>8. ProducerInv'
  BY <1>5 DEF ProducerInv, Sized
<1>9. ContentsInv'
  <2> SUFFICES ASSUME NEW n \in DOMAIN frames' PROVE Held(frames[n])'
    BY DEF ContentsInv
  <2>1. PICK g : g = frames'[n]
    OBVIOUS
  <2>2. Held(g)'
    <3>1. CASE n \in DOMAIN frames
      <4>1. g = frames[n]
        BY <1>3, <2>1, <3>1
      <4>2. WellFramed(g) /\ Held(g) /\ g.end <= write_cursor
        BY <3>1, <4>1, FrameEnds DEF IInv, ContentsInv
      <4> QED BY <1>2, <4>2, HeldOver DEF IInv
    <3>2. CASE n = Len(ends) + 1
      <4>1. g = Pending
        BY <1>1, <1>3, <2>1, <3>2
      <4> QED BY <1>2, <4>1, HeldNow DEF IInv
    <3> QED BY <1>3, <3>1, <3>2
  <2> QED BY <2>1, <2>2 DEF Held, HeldPadding, HeldRecord
<1> QED BY <1>3, <1>4, <1>6, <1>7, <1>8, <1>9 DEF IInv

-----------------------------------------------------------------------------
(* The consumers *)

\* One consumer moves: what it must show of itself, for the rest to follow.
LEMMA ConsumerMove ==
  ASSUME IInv, NEW i \in Consumers, NEW h \in Handles, NEW s \in Nat \union {DETACHED},
         c' = [c EXCEPT ![i] = h], slots' = [slots EXCEPT ![i] = s],
         UNCHANGED <<buffer, write_cursor, closed, starving, producer>>,
         s # DETACHED <=> h.pc \notin {"out", "gone"},
         s # DETACHED => /\ s = h.published /\ h.published \in Ends /\ h.write_cache \in Ends /\ Placed(h)
                         /\ cached_cursors[i] <= s /\ p.cached_min <= s
                         /\ fence_seq <= s \/ (Live(i) /\ slots[i] <= s)
  PROVE  IInv'
<1>0. UNCHANGED <<p, cached_cursors, fence_seq, log, ends>>
  BY DEF producer
<1>1. c \in [Consumers -> Handles] /\ slots \in [Consumers -> Nat \union {DETACHED}]
  BY DEF IInv, TypeOK
<1>2. /\ c' \in [Consumers -> Handles] /\ slots' \in [Consumers -> Nat \union {DETACHED}]
      /\ c'[i] = h /\ slots'[i] = s
      /\ \A j \in Consumers \ {i} : c'[j] = c[j] /\ slots'[j] = slots[j]
  BY <1>1
<1>3. TypeOK'
  BY <1>0, <1>2 DEF IInv, TypeOK
<1>9. \A x \in Nat : Gated(x)' => Gated(x)
  <2> SUFFICES ASSUME NEW x \in Nat, Gated(x)' PROVE Gated(x)
    OBVIOUS
  <2>1. CASE fence_seq' <= x
    BY <1>0, <2>1 DEF Gated
  <2>2. CASE \E j \in Consumers : Live(j)' /\ slots'[j] <= x
    <3>1. PICK j \in Consumers : slots'[j] # DETACHED /\ slots'[j] <= x
      BY <2>2 DEF Live
    <3>2. CASE j = i
      <4>1. s \in Nat /\ s # DETACHED /\ s <= x /\ fence_seq \in Nat
        BY <1>2, <3>1, <3>2 DEF IInv, TypeOK
      <4>2. CASE fence_seq <= s
        <5>1. fence_seq <= x
          BY <4>1, <4>2
        <5> QED BY <5>1 DEF Gated
      <4>3. CASE Live(i) /\ slots[i] <= s
        <5>1. slots[i] \in Nat
          BY <1>1, <4>3 DEF Live
        <5>2. slots[i] <= x
          BY <4>1, <4>3, <5>1
        <5> QED BY <4>3, <5>2 DEF Gated
      <4> QED BY <4>1, <4>2, <4>3
    <3>3. CASE j # i
      BY <1>2, <3>1, <3>3 DEF Gated, Live
    <3> QED BY <3>2, <3>3
  <2> QED BY <2>1, <2>2 DEF Gated
<1>4. FramesInv' /\ ContentsInv' /\ Ends' = Ends /\ frames' = frames
  BY <1>0, <1>9, LogStill DEF IInv
<1>6. ConsumerInv'
  <2> SUFFICES ASSUME NEW j \in Consumers PROVE ConsumerOk(j)'
    BY DEF ConsumerInv
  <2>1. CASE j = i
    <3>1. Live(i)' <=> s # DETACHED
      BY <1>2 DEF Live
    <3>2. Placed(h) => Placed(c[i])'
      BY <1>2, <1>4 DEF Placed, CaughtUp, StandsAt
    <3> QED BY <1>2, <1>4, <2>1, <3>1, <3>2 DEF ConsumerOk
  <2>2. CASE j # i
    BY <1>0, <1>2, <2>2, ConsumerStill DEF IInv, ConsumerInv
  <2> QED BY <2>1, <2>2
<1>7. GateInv'
  <2>1. ASSUME NEW j \in Consumers PROVE GateOk(j)'
    <3>1. CASE j = i
      <4>1. s # DETACHED => s <= write_cursor
        BY <1>2, EndsType DEF IInv
      <4> QED BY <1>0, <1>2, <3>1, <4>1 DEF GateOk, Live
    <3>2. CASE j # i
      <4>1. GateOk(j)
        BY DEF IInv, GateInv
      <4> QED BY <1>0, <1>2, <3>2, <4>1 DEF GateOk, Live
    <3> QED BY <3>1, <3>2
  <2> QED BY <1>0, <2>1 DEF IInv, GateInv
<1>8. ProducerInv'
  BY <1>0 DEF IInv, ProducerInv, NewEnd, Needed, Pad, Position, record_len
<1> QED BY <1>3, <1>4, <1>6, <1>7, <1>8 DEF IInv

LEMMA LiveConsumer ==
  ASSUME IInv, NEW i \in Consumers
  PROVE  /\ c[i] \in Handles /\ slots[i] \in Nat \union {DETACHED} /\ cached_cursors[i] \in Nat
         /\ write_cursor \in Nat /\ p.cached_min \in Int
         /\ Live(i) <=> c[i].pc \notin {"out", "gone"}
         /\ Live(i) => /\ slots[i] \in Nat /\ slots[i] = c[i].published /\ slots[i] \in Ends
                       /\ c[i].write_cache \in Ends /\ c[i].write_cache <= write_cursor
                       /\ Placed(c[i])
                       /\ cached_cursors[i] <= slots[i] /\ slots[i] <= write_cursor
                       /\ p.cached_min <= slots[i]
<1>1. /\ c[i] \in Handles /\ slots[i] \in Nat \union {DETACHED} /\ cached_cursors[i] \in Nat
      /\ write_cursor \in Nat /\ p.cached_min \in Int
  BY ProducerType DEF IInv, TypeOK
<1>2. /\ Live(i) <=> c[i].pc \notin {"out", "gone"}
      /\ Live(i) => /\ slots[i] = c[i].published /\ c[i].published \in Ends
                    /\ c[i].write_cache \in Ends /\ Placed(c[i])
  BY DEF IInv, ConsumerInv, ConsumerOk
<1>3. Live(i) => slots[i] \in Nat
  BY <1>1 DEF Live
<1>4. Live(i) => cached_cursors[i] <= slots[i] /\ slots[i] <= write_cursor /\ p.cached_min <= slots[i]
  BY DEF IInv, GateInv, GateOk
<1>5. Live(i) => c[i].write_cache <= write_cursor
  BY <1>2, EndsType DEF IInv
<1> QED BY <1>1, <1>2, <1>3, <1>4, <1>5

\* A live consumer that keeps or raises its slot.
LEMMA ConsumerAdvance ==
  ASSUME IInv, NEW i \in Consumers, Live(i), NEW h \in Handles, NEW s \in Nat,
         c' = [c EXCEPT ![i] = h], slots' = [slots EXCEPT ![i] = s],
         UNCHANGED <<buffer, write_cursor, closed, starving, producer>>,
         h.pc \notin {"out", "gone"}, s = h.published, s \in Ends, slots[i] <= s, h.write_cache \in Ends, Placed(h)
  PROVE  IInv'
<1>1. s # DETACHED /\ s \in Nat \union {DETACHED}
  BY DEF DETACHED
<1>2. cached_cursors[i] <= s /\ p.cached_min <= s
  BY LiveConsumer
<1> QED BY <1>1, <1>2, ConsumerMove

LEMMA ConsumerStays ==
  ASSUME IInv, NEW i \in Consumers, Live(i), NEW h \in Handles,
         c' = [c EXCEPT ![i] = h], UNCHANGED <<shared, producer>>,
         h.pc \notin {"out", "gone"}, h.published = c[i].published, h.write_cache \in Ends, Placed(h)
  PROVE  IInv'
<1>1. slots[i] \in Nat /\ slots[i] = c[i].published /\ slots[i] \in Ends /\ slots[i] <= slots[i]
  BY LiveConsumer
<1>2. slots' = [slots EXCEPT ![i] = slots[i]]
  BY DEF shared, IInv, TypeOK
<1> QED BY <1>1, <1>2, ConsumerAdvance DEF shared

\* What a consumer reads in front of it is the record there, whole.
LEMMA Decoded ==
  ASSUME IInv, NEW i \in Consumers, Live(i), NEW n \in DOMAIN frames, slots[i] <= frames[n].start,
         NEW r \in {frames[n].start, frames[n].at}
  PROVE  /\ decode_record(r) = [cur |-> frames[n].at, len |-> frames[n].record[1]]
         /\ {buffer[w] : w \in PayloadAt(Position(frames[n].at), frames[n].record[1])} = frames[n].record[2]
<1>1. PICK f : f = frames[n]
  OBVIOUS
<1>2. WellFramed(f) /\ Held(f)
  BY <1>1 DEF IInv, FramesInv, ContentsInv
<1>3. /\ f.start \in Nat /\ f.at \in Nat /\ f.record[1] \in Nat /\ f.record = <<f.record[1], f.record[2]>>
      /\ f.start <= f.at
  BY <1>2, Framed
<1>4. Gated(f.start) /\ Gated(f.at)
  <2>1. slots[i] \in Nat /\ slots[i] <= f.start /\ slots[i] <= f.at
    BY <1>1, <1>3, LiveConsumer
  <2> QED BY <2>1 DEF Gated
<1>5. /\ buffer[Position(f.at)] = f.record[1]
      /\ {buffer[w] : w \in PayloadAt(Position(f.at), f.record[1])} = f.record[2]
  BY <1>2, <1>3, <1>4 DEF Held, HeldRecord
<1>6. decode_record(r) = [cur |-> f.at, len |-> f.record[1]]
  <2>1. CASE r = f.at
    <3>1. buffer[Position(r)] # PADDING
      BY <1>3, <1>5, <2>1 DEF PADDING
    <3>2. r + 0 = f.at
      BY <1>3, <2>1
    <3> QED BY <1>5, <3>1, <3>2 DEF decode_record
  <2>2. CASE r = f.start /\ f.at # f.start
    <3>1. buffer[Position(r)] = PADDING
      BY <1>2, <1>4, <2>2 DEF Held, HeldPadding
    <3>2. r + ToEnd(r) = f.at
      BY <1>2, <2>2 DEF WellFramed
    <3> QED BY <1>5, <3>1, <3>2 DEF decode_record, ToEnd
  <2> QED BY <1>1, <2>1, <2>2
<1> QED BY <1>1, <1>5, <1>6

LEMMA AtFrame ==
  ASSUME IInv, NEW n \in DOMAIN frames
  PROVE  /\ frames[n].start \in Nat /\ frames[n].at \in Nat /\ frames[n].end \in Nat
         /\ frames[n].record[1] \in Nat /\ frames[n].start <= frames[n].at /\ frames[n].at < frames[n].end
         /\ frames[n].end = frames[n].at + record_len(frames[n].record[1])
         /\ frames[n].start \in Ends /\ frames[n].end \in Ends /\ frames[n].end <= write_cursor
<1>1. PICK f : f = frames[n]
  OBVIOUS
<1>2. WellFramed(f) /\ f.end <= write_cursor /\ f.start \in Ends /\ f.end \in Ends
  BY <1>1, FrameEnds DEF IInv
<1>3. /\ f.start \in Nat /\ f.at \in Nat /\ f.end \in Nat /\ f.record[1] \in Nat
      /\ f.start <= f.at /\ f.at + 4 <= f.end
      /\ f.end = f.at + record_len(f.record[1])
  BY <1>2, Framed
<1>4. f.at < f.end
  BY <1>3
<1> QED BY <1>1, <1>2, <1>3, <1>4

\* The record in front of a consumer that has seen the producer go past it.
LEMMA InFront ==
  ASSUME IInv, NEW i \in Consumers, Live(i), c[i].pc \in Free,
         NEW x \in Ends, c[i].write_cache <= x, c[i].read_cursor # x
  PROVE  \E n \in DOMAIN frames :
           /\ c[i].read_cursor \in {frames[n].start, frames[n].at}
           /\ slots[i] <= frames[n].start /\ frames[n].end <= x
<1>1. /\ slots[i] = c[i].published /\ c[i] \in Handles /\ Placed(c[i]) /\ c[i].write_cache \in Ends
      /\ slots[i] \in Nat
  BY LiveConsumer
<1>2. x \in Nat /\ c[i].read_cursor \in Nat /\ c[i].write_cache \in Nat
  BY <1>1, EndsType DEF Handles, IInv
<1>3. CASE CaughtUp(c[i])
  <2>1. c[i].read_cursor = c[i].write_cache /\ c[i].published <= c[i].read_cursor
    BY <1>3 DEF CaughtUp
  <2>2. c[i].read_cursor < x /\ c[i].read_cursor \in Ends
    BY <2>1, <1>1, <1>2
  <2>3. PICK n \in DOMAIN frames : frames[n].start = c[i].read_cursor /\ frames[n].end <= x
    BY <2>2, NextFrame DEF IInv
  <2> QED BY <2>1, <2>3, <1>1
<1>4. CASE \E n \in DOMAIN frames : StandsAt(c[i], n)
  <2>1. PICK n \in DOMAIN frames : StandsAt(c[i], n)
    BY <1>4
  <2>2. /\ c[i].published <= frames[n].start /\ frames[n].end <= c[i].write_cache
        /\ c[i].read_cursor \in {frames[n].start, frames[n].at}
    BY <2>1 DEF StandsAt, Free
  <2>3. frames[n].end <= x
    BY <2>2, <1>2, AtFrame
  <2> QED BY <2>2, <2>3, <1>1
<1> QED BY <1>1, <1>3, <1>4 DEF Placed

\* Past the end of a record, a consumer is at the next one or it has caught up.
LEMMA PlacedAfter ==
  ASSUME IInv, NEW h \in Handles, h.pc \in Free, NEW n \in DOMAIN frames, h.read_cursor = frames[n].end,
         h.write_cache \in Ends, frames[n].end <= h.write_cache, h.published <= frames[n].end
  PROVE  Placed(h)
<1>1. frames[n].end \in Nat /\ frames[n].end \in Ends /\ h.write_cache \in Nat /\ h.published \in Nat
  BY AtFrame DEF Handles
<1>2. CASE frames[n].end = h.write_cache
  BY <1>2 DEF Placed, CaughtUp
<1>3. CASE frames[n].end # h.write_cache
  <2>1. frames[n].end < h.write_cache
    BY <1>1, <1>3
  <2>2. PICK m \in DOMAIN frames : frames[m].start = frames[n].end /\ frames[m].end <= h.write_cache
    BY <1>1, <2>1, NextFrame DEF IInv
  <2> QED BY <2>2 DEF Placed, StandsAt
<1> QED BY <1>2, <1>3

LEMMA SubscribeInv ==
  ASSUME IInv, NEW i \in Consumers, Subscribe(i)
  PROVE  IInv'
<1>1. PICK joined \in {0} \union {ends[n] : n \in DOMAIN ends} :
        /\ fence_seq <= joined /\ cached_cursors[i] <= joined
        /\ slots' = [slots EXCEPT ![i] = joined]
        /\ c' = [c EXCEPT ![i] = Subscribed(joined)]
  BY DEF Subscribe
<1>2. c[i].pc = "out" /\ UNCHANGED <<buffer, write_cursor, closed, starving, producer>>
  BY DEF Subscribe
<1>3. joined \in Ends
  <2>1. CASE joined = 0
    BY <2>1, EndsType DEF IInv
  <2>2. CASE \E n \in DOMAIN ends : joined = ends[n]
    <3>1. PICK n \in DOMAIN frames : joined = frames[n].end
      BY <2>2, FrameIndex DEF IInv
    <3> QED BY <3>1, AtFrame
  <2> QED BY <1>1, <2>1, <2>2
<1>4. joined \in Nat
  BY <1>3, EndsType DEF IInv
<1>5. PICK h : h = Subscribed(joined)
  OBVIOUS
<1>6. /\ h \in Handles /\ h.pc = "live" /\ h.published = joined /\ h.write_cache = joined
      /\ h.read_cursor = joined
  BY <1>4, <1>5 DEF Subscribed, NoHandle, Handles, Free
<1>7. Placed(h)
  BY <1>4, <1>6 DEF Placed, CaughtUp, Free
<1>8. joined # DETACHED
  BY <1>4 DEF DETACHED
<1>9. p.cached_min <= joined
  <2>1. p.cached_min <= fence_seq /\ fence_seq \in Nat /\ p.cached_min \in Int
    BY LiveConsumer DEF IInv, GateInv, TypeOK
  <2> QED BY <2>1, <1>1, <1>4
<1> QED BY <1>1, <1>2, <1>3, <1>4, <1>5, <1>6, <1>7, <1>8, <1>9, ConsumerMove

LEMMA HasItem ==
  ASSUME IInv, NEW i \in Consumers, Live(i)
  PROVE  /\ has_item(c[i]) \in Ends /\ c[i].write_cache <= has_item(c[i])
<1>1. /\ c[i].write_cache \in Ends /\ c[i].write_cache <= write_cursor /\ c[i] \in Handles
      /\ write_cursor \in Ends
  BY LiveConsumer, EndsType DEF IInv
<1>2. c[i].write_cache \in Nat
  BY <1>1 DEF Handles
<1> QED BY <1>1, <1>2 DEF has_item

\* The record in front is lent.
LEMMA NextMsgInv ==
  ASSUME IInv, NEW i \in Consumers, c[i].pc \in Free, NEW x \in Ends, c[i].write_cache <= x,
         x # c[i].read_cursor, next_msg(i, x), UNCHANGED <<shared, producer>>
  PROVE  IInv'
<1>2. Live(i) /\ c[i] \in Handles /\ slots[i] = c[i].published
  BY LiveConsumer DEF Free
<1>4. x \in Nat
  BY EndsType DEF IInv
<1>5. PICK n \in DOMAIN frames : /\ c[i].read_cursor \in {frames[n].start, frames[n].at}
                                 /\ slots[i] <= frames[n].start /\ frames[n].end <= x
  BY <1>2, InFront
<1>6. decode_record(c[i].read_cursor) = [cur |-> frames[n].at, len |-> frames[n].record[1]]
  BY <1>2, <1>5, Decoded
<1>7. PICK h : h = [c[i] EXCEPT !.pc = "holding", !.write_cache = x, !.read_cursor = frames[n].at,
                                !.len = frames[n].record[1]]
  OBVIOUS
<1>8. c' = [c EXCEPT ![i] = h]
  <2>1. c' = [c EXCEPT ![i].pc = "holding", ![i].write_cache = x, ![i].read_cursor = frames[n].at,
                       ![i].len = frames[n].record[1]]
    BY <1>6 DEF next_msg
  <2>2. DOMAIN c = Consumers
    BY DEF IInv, TypeOK
  <2>3. c'[i] = h /\ DOMAIN c' = Consumers /\ \A j \in Consumers \ {i} : c'[j] = c[j]
    BY <2>1, <2>2, <1>7
  <2> QED BY <2>1, <2>2, <2>3, <1>7
<1>9. /\ h \in Handles /\ h.pc = "holding" /\ h.write_cache = x /\ h.read_cursor = frames[n].at
      /\ h.len = frames[n].record[1] /\ h.published = c[i].published
  BY <1>2, <1>4, <1>7, AtFrame DEF Handles
<1>10. Placed(h)
  BY <1>2, <1>5, <1>9 DEF Placed, StandsAt
<1> QED BY <1>2, <1>4, <1>8, <1>9, <1>10, ConsumerStays

\* A consumer that goes on looking stands where it stood.
LEMMA LooksInv ==
  ASSUME IInv, NEW i \in Consumers, c[i].pc \in Free, NEW pc \in Free,
         c' = [c EXCEPT ![i].pc = pc], UNCHANGED <<shared, producer>>
  PROVE  IInv'
<1>1. /\ Live(i) /\ c[i] \in Handles /\ slots[i] = c[i].published /\ c[i].write_cache \in Ends
      /\ Placed(c[i])
  BY LiveConsumer DEF Free
<1>2. PICK h : h = [c[i] EXCEPT !.pc = pc]
  OBVIOUS
<1>3. c' = [c EXCEPT ![i] = h]
  BY <1>2 DEF IInv, TypeOK
<1>4. /\ h \in Handles /\ h.pc = pc /\ h.write_cache = c[i].write_cache
      /\ h.read_cursor = c[i].read_cursor /\ h.published = c[i].published
  BY <1>1, <1>2 DEF Handles, Free
<1>5. Placed(h)
  BY <1>1, <1>4 DEF Placed, CaughtUp, StandsAt, Free
<1> QED BY <1>1, <1>3, <1>4, <1>5, ConsumerStays DEF Free

LEMMA PopInv ==
  ASSUME IInv, NEW i \in Consumers, pop(i)
  PROVE  IInv'
<1>1. /\ c[i].pc \in {"live", "closed"} /\ UNCHANGED <<shared, producer>>
      /\ IF has_item(c[i]) = c[i].read_cursor THEN c' = [c EXCEPT ![i].pc = "empty"]
         ELSE next_msg(i, has_item(c[i]))
  BY DEF pop
<1>2. Live(i) /\ c[i].pc \in Free /\ "empty" \in Free
  BY <1>1, LiveConsumer DEF Free
<1>3. PICK x : x = has_item(c[i])
  OBVIOUS
<1>4. x \in Ends /\ c[i].write_cache <= x
  BY <1>2, <1>3, HasItem
<1>5. CASE x = c[i].read_cursor
  BY <1>1, <1>2, <1>3, <1>5, LooksInv
<1>6. CASE x # c[i].read_cursor
  BY <1>1, <1>2, <1>3, <1>4, <1>6, NextMsgInv
<1> QED BY <1>5, <1>6

LEMMA CheckClosedInv ==
  ASSUME IInv, NEW i \in Consumers, CheckClosed(i)
  PROVE  IInv'
<1>1. /\ c[i].pc = "empty" /\ UNCHANGED <<shared, producer>>
      /\ IF closed /\ write_cursor # c[i].read_cursor THEN next_msg(i, write_cursor)
         ELSE c' = [c EXCEPT ![i].pc = IF closed THEN "closed" ELSE "live"]
  BY DEF CheckClosed
<1>2. /\ Live(i) /\ c[i].pc \in Free /\ c[i].write_cache <= write_cursor
      /\ write_cursor \in Ends
  BY <1>1, LiveConsumer, EndsType DEF Free, IInv
<1>3. CASE closed /\ write_cursor # c[i].read_cursor
  BY <1>1, <1>2, <1>3, NextMsgInv
<1>4. CASE ~(closed /\ write_cursor # c[i].read_cursor)
  <2>1. PICK pc : pc = IF closed THEN "closed" ELSE "live"
    OBVIOUS
  <2>2. pc \in Free /\ c' = [c EXCEPT ![i].pc = pc]
    BY <1>1, <1>4, <2>1 DEF Free
  <2> QED BY <1>1, <1>2, <2>2, LooksInv
<1> QED BY <1>3, <1>4

\* The record that a consumer borrows.
LEMMA Borrowed ==
  ASSUME IInv, NEW i \in Consumers, c[i].pc \in {"holding", "releasing", "callback"}
  PROVE  /\ Live(i) /\ c[i] \in Handles /\ slots[i] = c[i].published /\ slots[i] \in Nat
         /\ c[i].write_cache \in Ends
         /\ \E n \in DOMAIN frames : StandsAt(c[i], n) /\ slots[i] <= frames[n].start
<1>1. /\ Live(i) /\ c[i] \in Handles /\ slots[i] = c[i].published /\ slots[i] \in Nat /\ Placed(c[i])
      /\ c[i].write_cache \in Ends
  BY LiveConsumer
<1>2. PICK n \in DOMAIN frames : StandsAt(c[i], n)
  BY <1>1 DEF Placed, CaughtUp, Free
<1> QED BY <1>1, <1>2 DEF StandsAt

LEMMA ForgetInv ==
  ASSUME IInv, NEW i \in Consumers, Forget(i)
  PROVE  IInv'
<1>1. c[i].pc = "holding" /\ UNCHANGED <<shared, producer>>
  BY DEF Forget
<1>2. /\ Live(i) /\ c[i] \in Handles /\ slots[i] = c[i].published /\ c[i].write_cache \in Ends
  BY <1>1, Borrowed
<1>3. PICK n \in DOMAIN frames : StandsAt(c[i], n)
  BY <1>1, Borrowed
<1>4. PICK h : h = [c[i] EXCEPT !.pc = "live", !.len = 0]
  OBVIOUS
<1>5. c' = [c EXCEPT ![i] = h]
  <2>1. c' = [c EXCEPT ![i].pc = "live", ![i].len = 0] /\ DOMAIN c = Consumers
    BY DEF Forget, IInv, TypeOK
  <2>2. c'[i] = h /\ DOMAIN c' = Consumers /\ \A j \in Consumers \ {i} : c'[j] = c[j]
    BY <2>1, <1>4
  <2> QED BY <2>1, <2>2, <1>4
<1>6. /\ h \in Handles /\ h.pc = "live" /\ h.write_cache = c[i].write_cache
      /\ h.read_cursor = c[i].read_cursor /\ h.published = c[i].published
  BY <1>2, <1>4 DEF Handles, Free
<1>7. Placed(h)
  BY <1>1, <1>3, <1>6 DEF Placed, StandsAt, Free
<1> QED BY <1>1, <1>2, <1>5, <1>6, <1>7, ConsumerStays

LEMMA LoadStarvingInv ==
  ASSUME IInv, NEW i \in Consumers, LoadStarving(i)
  PROVE  IInv'
<1>1. c[i].pc = "holding" /\ UNCHANGED <<shared, producer>>
  BY DEF LoadStarving
<1>2. /\ Live(i) /\ c[i] \in Handles /\ slots[i] = c[i].published /\ c[i].write_cache \in Ends
  BY <1>1, Borrowed
<1>3. PICK n \in DOMAIN frames : StandsAt(c[i], n)
  BY <1>1, Borrowed
<1>4. PICK h : h = [c[i] EXCEPT !.pc = "releasing", !.span = starving]
  OBVIOUS
<1>5. c' = [c EXCEPT ![i] = h]
  <2>1. c' = [c EXCEPT ![i].pc = "releasing", ![i].span = starving] /\ DOMAIN c = Consumers
    BY DEF LoadStarving, IInv, TypeOK
  <2>2. c'[i] = h /\ DOMAIN c' = Consumers /\ \A j \in Consumers \ {i} : c'[j] = c[j]
    BY <2>1, <1>4
  <2> QED BY <2>1, <2>2, <1>4
<1>6. /\ h \in Handles /\ h.pc = "releasing" /\ h.write_cache = c[i].write_cache /\ h.len = c[i].len
      /\ h.read_cursor = c[i].read_cursor /\ h.published = c[i].published
  BY <1>2, <1>4 DEF Handles, IInv, TypeOK
<1>7. Placed(h)
  BY <1>1, <1>3, <1>6 DEF Placed, StandsAt, Free
<1> QED BY <1>1, <1>2, <1>5, <1>6, <1>7, ConsumerStays

LEMMA AdvanceInv ==
  ASSUME IInv, NEW i \in Consumers, advance(i)
  PROVE  IInv'
<1>1. c[i].pc = "releasing" /\ UNCHANGED <<buffer, write_cursor, closed, starving, producer>>
  BY DEF advance
<1>2. /\ Live(i) /\ c[i] \in Handles /\ slots[i] = c[i].published /\ c[i].write_cache \in Ends
      /\ slots[i] \in Nat
  BY <1>1, Borrowed
<1>3. PICK n \in DOMAIN frames : StandsAt(c[i], n) /\ slots[i] <= frames[n].start
  BY <1>1, Borrowed
<1>4. PICK read : read = c[i].read_cursor + record_len(c[i].len)
  OBVIOUS
<1>5. /\ read = frames[n].end /\ read <= c[i].write_cache /\ slots[i] <= read /\ read \in Ends /\ read \in Nat
  <2>1. c[i].read_cursor = frames[n].at /\ c[i].len = frames[n].record[1] /\ frames[n].end <= c[i].write_cache
    BY <1>1, <1>3 DEF StandsAt, Free
  <2> QED BY <2>1, <1>2, <1>3, <1>4, AtFrame
<1>6. PICK h : h = [c[i] EXCEPT !.pc = "live", !.len = 0, !.span = 0, !.read_cursor = read]
  OBVIOUS
<1>7. /\ h \in Handles /\ h.pc = "live" /\ h.write_cache = c[i].write_cache
      /\ h.read_cursor = read /\ h.published = c[i].published
  BY <1>2, <1>5, <1>6 DEF Handles, Free
<1>8. CASE MustPublish(c[i], read)
  <2>1. PICK g : g = [h EXCEPT !.published = read]
    OBVIOUS
  <2>2. slots' = [slots EXCEPT ![i] = read] /\ c' = [c EXCEPT ![i] = g]
    BY <1>4, <1>6, <1>8, <2>1 DEF advance
  <2>3. /\ g \in Handles /\ g.pc = "live" /\ g.write_cache = c[i].write_cache
        /\ g.read_cursor = read /\ g.published = read
    BY <1>5, <1>7, <2>1 DEF Handles
  <2>4. Placed(g)
    BY <1>2, <1>5, <2>3, PlacedAfter DEF Free
  <2> QED BY <1>1, <1>2, <1>5, <2>2, <2>3, <2>4, ConsumerAdvance
<1>9. CASE ~MustPublish(c[i], read)
  <2>1. UNCHANGED slots /\ c' = [c EXCEPT ![i] = h]
    BY <1>4, <1>6, <1>9 DEF advance
  <2>2. Placed(h)
    BY <1>2, <1>5, <1>7, PlacedAfter DEF Free
  <2> QED BY <1>1, <1>2, <1>7, <2>1, <2>2, ConsumerStays DEF shared
<1> QED BY <1>8, <1>9

\* drain, on to the record in front.
LEMMA PassRecordInv ==
  ASSUME IInv, NEW i \in Consumers, Live(i), NEW x \in Ends, NEW limit \in Nat, limit <= x,
         NEW n \in DOMAIN frames, c[i].read_cursor \in {frames[n].start, frames[n].at},
         slots[i] <= frames[n].start, frames[n].end <= x,
         PassRecord(i, x, limit), UNCHANGED <<shared, producer>>
  PROVE  IInv'
<1>1. c[i] \in Handles /\ slots[i] = c[i].published /\ x \in Nat
  BY LiveConsumer, EndsType DEF IInv
<1>2. decode_record(c[i].read_cursor) = [cur |-> frames[n].at, len |-> frames[n].record[1]]
  BY Decoded
<1>3. PICK h : h = [c[i] EXCEPT !.pc = "callback", !.write_cache = x, !.limit = limit,
                                !.read_cursor = frames[n].end, !.len = frames[n].record[1]]
  OBVIOUS
<1>4. c' = [c EXCEPT ![i] = h]
  <2>1. PICK msg : msg = decode_record(c[i].read_cursor)
    OBVIOUS
  <2>2. msg.len = frames[n].record[1] /\ msg.cur + record_len(msg.len) = frames[n].end
    BY <1>2, <2>1, AtFrame
  <2>3. c' = [c EXCEPT ![i].pc = "callback", ![i].write_cache = x, ![i].limit = limit,
                       ![i].read_cursor = msg.cur + record_len(msg.len), ![i].len = msg.len]
    BY <2>1 DEF PassRecord
  <2>4. c' = [c EXCEPT ![i].pc = "callback", ![i].write_cache = x, ![i].limit = limit,
                       ![i].read_cursor = frames[n].end, ![i].len = frames[n].record[1]]
    BY <2>2, <2>3
  <2>5. DOMAIN c = Consumers
    BY DEF IInv, TypeOK
  <2>6. c'[i] = h /\ DOMAIN c' = Consumers /\ \A j \in Consumers \ {i} : c'[j] = c[j]
    BY <2>4, <2>5, <1>3
  <2> QED BY <2>4, <2>5, <2>6, <1>3
<1>5. /\ h \in Handles /\ h.pc = "callback" /\ h.write_cache = x /\ h.read_cursor = frames[n].end
      /\ h.len = frames[n].record[1] /\ h.published = c[i].published /\ h.limit = limit
  BY <1>1, <1>3, AtFrame DEF Handles
<1>6. Placed(h)
  BY <1>1, <1>5 DEF Placed, StandsAt
<1> QED BY <1>4, <1>5, <1>6, ConsumerStays

LEMMA BatchType == Batch \in Nat
<1>1. BatchDivisor \in Nat \ {0}
  BY SpmcBytesAssumption
<1>2. Capacity \div BatchDivisor \in Int
  BY <1>1, CapacityType
<1> QED BY <1>2 DEF Batch, publish_batch, Clamp, MAX_PUBLISH_BATCH_BYTES

LEMMA DrainBeginInv ==
  ASSUME IInv, NEW i \in Consumers, DrainBegin(i)
  PROVE  IInv'
<1>1. /\ c[i].pc = "live" /\ write_cursor # c[i].read_cursor /\ UNCHANGED <<shared, producer>>
      /\ PassRecord(i, write_cursor, Min({write_cursor, c[i].read_cursor + Batch}))
  BY DEF DrainBegin
<1>2. Live(i) /\ c[i] \in Handles /\ c[i].write_cache <= write_cursor /\ write_cursor \in Ends /\ write_cursor \in Nat
  BY <1>1, LiveConsumer, EndsType DEF IInv
<1>3. PICK n \in DOMAIN frames : /\ c[i].read_cursor \in {frames[n].start, frames[n].at}
                                 /\ slots[i] <= frames[n].start /\ frames[n].end <= write_cursor
  BY <1>1, <1>2, InFront DEF Free
<1>4. PICK limit : limit = Min({write_cursor, c[i].read_cursor + Batch})
  OBVIOUS
<1>5. limit \in Nat /\ limit <= write_cursor
  <2>1. c[i].read_cursor + Batch \in Nat
    BY <1>2, BatchType DEF Handles
  <2> QED BY <2>1, <1>2, <1>4, MinOf
<1> QED BY <1>1, <1>2, <1>3, <1>4, <1>5, PassRecordInv

LEMMA DrainRecordInv ==
  ASSUME IInv, NEW i \in Consumers, DrainRecord(i)
  PROVE  IInv'
<1>1. /\ c[i].pc = "callback" /\ c[i].read_cursor < c[i].limit /\ UNCHANGED <<shared, producer>>
      /\ PassRecord(i, c[i].write_cache, c[i].limit)
  BY DEF DrainRecord
<1>2. Live(i) /\ c[i] \in Handles /\ c[i].write_cache \in Ends /\ slots[i] \in Nat
  BY <1>1, Borrowed
<1>3. PICK m \in DOMAIN frames : StandsAt(c[i], m) /\ slots[i] <= frames[m].start
  BY <1>1, Borrowed
<1>4. c[i].read_cursor = frames[m].end /\ c[i].limit <= c[i].write_cache
  BY <1>1, <1>3 DEF StandsAt, Free
<1>5. c[i].limit \in Nat /\ c[i].write_cache \in Nat
  BY <1>2 DEF Handles
<1>6. frames[m].end < c[i].write_cache /\ slots[i] <= frames[m].end
  BY <1>1, <1>2, <1>3, <1>4, <1>5, AtFrame
<1>7. PICK n \in DOMAIN frames : frames[n].start = frames[m].end /\ frames[n].end <= c[i].write_cache
  BY <1>2, <1>6, AtFrame, NextFrame DEF IInv
<1> QED BY <1>1, <1>2, <1>4, <1>5, <1>6, <1>7, PassRecordInv

LEMMA DrainEndInv ==
  ASSUME IInv, NEW i \in Consumers, DrainEnd(i)
  PROVE  IInv'
<1>1. /\ c[i].pc = "callback" /\ UNCHANGED <<buffer, write_cursor, closed, starving, producer>>
      /\ slots' = [slots EXCEPT ![i] = c[i].read_cursor]
  BY DEF DrainEnd
<1>2. Live(i) /\ c[i] \in Handles /\ c[i].write_cache \in Ends /\ slots[i] \in Nat
  BY <1>1, Borrowed
<1>3. PICK n \in DOMAIN frames : StandsAt(c[i], n) /\ slots[i] <= frames[n].start
  BY <1>1, Borrowed
<1>4. /\ c[i].read_cursor = frames[n].end /\ frames[n].end <= c[i].write_cache
      /\ slots[i] <= frames[n].end /\ frames[n].end \in Ends /\ frames[n].end \in Nat
  <2>1. c[i].read_cursor = frames[n].end /\ frames[n].end <= c[i].write_cache
    BY <1>1, <1>3 DEF StandsAt, Free
  <2> QED BY <2>1, <1>2, <1>3, AtFrame
<1>5. PICK h : h = [c[i] EXCEPT !.pc = "live", !.published = frames[n].end, !.len = 0, !.limit = 0]
  OBVIOUS
<1>6. c' = [c EXCEPT ![i] = h]
  <2>1. c' = [c EXCEPT ![i].pc = "live", ![i].published = frames[n].end, ![i].len = 0, ![i].limit = 0]
    BY <1>4 DEF DrainEnd
  <2>2. DOMAIN c = Consumers
    BY DEF IInv, TypeOK
  <2>3. c'[i] = h /\ DOMAIN c' = Consumers /\ \A j \in Consumers \ {i} : c'[j] = c[j]
    BY <2>1, <2>2, <1>5
  <2> QED BY <2>1, <2>2, <2>3, <1>5
<1>7. /\ h \in Handles /\ h.pc = "live" /\ h.write_cache = c[i].write_cache
      /\ h.read_cursor = frames[n].end /\ h.published = frames[n].end
  BY <1>2, <1>4, <1>5 DEF Handles, Free
<1>8. Placed(h)
  BY <1>2, <1>4, <1>7, PlacedAfter DEF Free
<1> QED BY <1>1, <1>2, <1>4, <1>6, <1>7, <1>8, ConsumerAdvance

LEMMA DetachInv ==
  ASSUME IInv, NEW i \in Consumers, Detach(i)
  PROVE  IInv'
<1>1. /\ c[i].pc \in {"live", "closed"} /\ UNCHANGED <<buffer, write_cursor, closed, starving, producer>>
      /\ slots' = [slots EXCEPT ![i] = DETACHED]
      /\ c' = [c EXCEPT ![i] = [NoHandle EXCEPT !.pc = "gone"]]
  BY DEF Detach
<1>2. PICK h : h = [NoHandle EXCEPT !.pc = "gone"]
  OBVIOUS
<1>3. h \in Handles /\ h.pc = "gone"
  BY <1>2 DEF NoHandle, Handles
<1>4. DETACHED \in Nat \union {DETACHED}
  OBVIOUS
<1> QED BY <1>1, <1>2, <1>3, <1>4, ConsumerMove

-----------------------------------------------------------------------------
(* The invariant *)

LEMMA Initial == Init => IInv
<1> SUFFICES ASSUME Init PROVE IInv
  OBVIOUS
<1>1. /\ write_cursor = 0 /\ closed = FALSE /\ starving = 0 /\ fence_seq = 0 /\ log = << >> /\ ends = << >>
      /\ buffer = [w \in Words |-> 0]
      /\ p = [pc |-> "idle", len |-> 0, cached_min |-> 0, raised_starving |-> FALSE]
      /\ cached_cursors = [i \in Consumers |-> 0]
  BY DEF Init, Words
<1>2. PICK first \in Consumers :
        /\ slots = [i \in Consumers |-> IF i = first THEN 0 ELSE DETACHED]
        /\ c = [i \in Consumers |-> IF i = first THEN Subscribed(0) ELSE NoHandle]
  BY DEF Init
<1>3. /\ Subscribed(0) \in Handles /\ Subscribed(0).pc = "live" /\ Subscribed(0).published = 0
      /\ Subscribed(0).write_cache = 0 /\ Subscribed(0).read_cursor = 0
      /\ NoHandle \in Handles /\ NoHandle.pc = "out"
  BY DEF Subscribed, NoHandle, Handles, Free
<1>4. Len(log) = 0 /\ Len(ends) = 0 /\ DOMAIN ends = {} /\ log \in Seq(AllRecords) /\ ends \in Seq(Nat)
  BY <1>1
<1>5. TypeOK
  <2>1. p \in Producers
    BY <1>1 DEF Producers, Quiet
  <2>2. buffer \in [Words -> Int]
    BY <1>1
  <2>3. c \in [Consumers -> Handles]
    BY <1>2, <1>3
  <2>4. slots \in [Consumers -> Nat \union {DETACHED}]
    BY <1>2
  <2> QED BY <1>1, <1>4, <2>1, <2>2, <2>3, <2>4 DEF TypeOK
<1>6. DOMAIN frames = {} /\ End(0) = 0
  BY <1>4 DEF frames, End
<1>7. FramesInv
  <2>1. \A m, n \in 0 .. Len(ends) : ~(m < n)
    BY <1>4
  <2> QED BY <1>1, <1>4, <1>6, <2>1, SpmcBytesAssumption DEF FramesInv
<1>8. ContentsInv
  BY <1>6 DEF ContentsInv
<1>9. \A i \in Consumers : Live(i) <=> i = first
  BY <1>2 DEF Live, DETACHED
<1>10. GateInv
  BY <1>1, <1>2, <1>9 DEF GateInv, GateOk
<1>11. ProducerInv
  BY <1>1 DEF ProducerInv, Sized
<1>12. 0 \in Ends
  BY <1>4, <1>6 DEF Ends
<1>13. ConsumerInv
  <2> SUFFICES ASSUME NEW i \in Consumers PROVE ConsumerOk(i)
    BY DEF ConsumerInv
  <2>1. CASE i = first
    <3>1. c[i] = Subscribed(0) /\ slots[i] = 0
      BY <1>2, <2>1
    <3>2. Placed(c[i])
      BY <1>3, <3>1 DEF Placed, CaughtUp, Free
    <3> QED BY <1>3, <1>9, <1>12, <2>1, <3>1, <3>2 DEF ConsumerOk
  <2>2. CASE i # first
    <3>1. c[i] = NoHandle /\ ~Live(i)
      BY <1>2, <1>9, <2>2
    <3> QED BY <1>3, <3>1 DEF ConsumerOk
  <2> QED BY <2>1, <2>2
<1> QED BY <1>5, <1>7, <1>8, <1>10, <1>11, <1>13 DEF IInv

LEMMA Inductive == IInv /\ [Next]_vars => IInv'
<1> SUFFICES ASSUME IInv, [Next]_vars PROVE IInv'
  OBVIOUS
<1>1. CASE UNCHANGED vars
  <2>1. UNCHANGED <<buffer, write_cursor, closed, starving, slots, p, cached_cursors, fence_seq, log, ends, c>>
    BY <1>1 DEF vars, shared, producer
  <2>2. TypeOK'
    BY <2>1 DEF IInv, TypeOK
  <2>3. GateInv' /\ fence_seq <= fence_seq'
    BY <2>1 DEF IInv, GateInv, GateOk, Live, TypeOK
  <2>4. ProducerInv'
    BY <2>1 DEF IInv, ProducerInv, NewEnd, Needed, Pad, Position, record_len
  <2> QED BY <2>1, <2>2, <2>3, <2>4, GateStep
<1>2. CASE ProducerNext
  BY <1>2, FrameInv, RescanInv, RaiseStarvingInv, WaitForSpaceInv, WriteFrameInv, AbandonInv, DropProducerInv
     DEF ProducerNext, has_space
<1>3. CASE \E i \in Consumers : ConsumerNext(i)
  BY <1>3, SubscribeInv, PopInv, CheckClosedInv, ForgetInv, LoadStarvingInv, AdvanceInv, DrainBeginInv,
     DrainRecordInv, DrainEndInv, DetachInv
     DEF ConsumerNext, Release, Drain
<1> QED BY <1>1, <1>2, <1>3 DEF Next

\* Whatever the spans, the scans, the joins and the batches, the records stand
\* whole in the buffer for as long as a consumer may come to them, and every
\* consumer stands at one.
THEOREM Invariance == Spec => []IInv
<1>1. Init => IInv
  BY Initial
<1>2. IInv /\ [Next]_vars => IInv'
  BY Inductive
<1> QED BY <1>1, <1>2, PTL DEF Spec

-----------------------------------------------------------------------------
(* What the consumers are lent *)

\* How many records end at or before a cursor.
LEMMA PastIs ==
  ASSUME TypeOK, FramesInv, NEW n \in 0 .. Len(ends), NEW x \in Nat, End(n) <= x,
         n + 1 \in DOMAIN frames => x < frames[n + 1].end
  PROVE  PastOf(x) = n
<1>1. Len(ends) \in Nat /\ DOMAIN frames = 1 .. Len(ends) /\ DOMAIN ends = 1 .. Len(ends) /\ n \in Nat
  BY FrameIndex
<1>2. ASSUME NEW m \in DOMAIN ends PROVE ends[m] <= x <=> m \in 1 .. n
  <2>1. /\ m \in Nat /\ m > 0 /\ m \in 0 .. Len(ends) /\ ends[m] = End(m) /\ End(m) \in Nat
        /\ End(n) \in Nat
    BY <1>1, FrameIndex, EndType
  <2>2. CASE m < n
    <3>1. End(m) < End(n)
      BY <2>1, <2>2 DEF FramesInv
    <3> QED BY <1>1, <2>1, <2>2, <3>1
  <2>3. CASE m = n
    BY <2>1, <2>3
  <2>4. CASE m = n + 1
    <3>1. frames[n + 1].end = ends[m]
      BY <1>1, <2>4, FrameIndex
    <3> QED BY <1>1, <2>1, <2>4, <3>1
  <2>5. CASE m > n + 1
    <3>1. n + 1 \in DOMAIN frames /\ n + 1 \in 0 .. Len(ends)
      BY <1>1, <2>1, <2>5
    <3>2. End(n + 1) < End(m)
      BY <2>1, <2>5, <3>1 DEF FramesInv
    <3>3. frames[n + 1].end = End(n + 1) /\ End(n + 1) \in Nat
      BY <3>1, FrameIndex, EndType
    <3> QED BY <1>1, <2>1, <2>5, <3>1, <3>2, <3>3
  <2> QED BY <1>1, <2>1, <2>2, <2>3, <2>4, <2>5
<1>3. {m \in DOMAIN ends : ends[m] <= x} = 1 .. n
  <2>1. \A m \in 1 .. n : m \in DOMAIN ends
    BY <1>1
  <2> QED BY <1>2, <2>1
<1>4. Cardinality(1 .. n) = n
  <2>1. Cardinality(1 .. n) = IF 1 > n THEN 0 ELSE n - 1 + 1
    BY <1>1, FS_Interval
  <2> QED BY <2>1, <1>1
<1> QED BY <1>3, <1>4 DEF PastOf

LEMMA PastInFrame ==
  ASSUME IInv, NEW n \in DOMAIN frames, NEW x \in Nat, frames[n].start <= x, x < frames[n].end
  PROVE  PastOf(x) = n - 1
<1>1. /\ n \in Nat /\ n - 1 \in 0 .. Len(ends) /\ (n - 1) + 1 = n /\ frames[n].start = End(n - 1)
  BY FrameIndex DEF IInv
<1> QED BY <1>1, PastIs DEF IInv

LEMMA PastAtEnd ==
  ASSUME IInv, NEW n \in 0 .. Len(ends)
  PROVE  PastOf(End(n)) = n
<1>1. End(n) \in Nat
  BY EndType DEF IInv
<1>2. ASSUME n + 1 \in DOMAIN frames PROVE End(n) < frames[n + 1].end
  <2>1. (n + 1) - 1 = n /\ frames[n + 1].start = End((n + 1) - 1)
    BY <1>2, FrameIndex DEF IInv
  <2> QED BY <1>2, <2>1, AtFrame
<1> QED BY <1>1, <1>2, PastIs DEF IInv

\* Where a consumer stands in the log: before the record that it is at, and past
\* the one whose end it is at.
LEMMA PastOfConsumer ==
  ASSUME IInv, NEW i \in Consumers, NEW n \in DOMAIN frames, StandsAt(c[i], n)
  PROVE  Past(i) = n - 1 /\ (Lending(i) => Start(i) = frames[n].at /\ c[i].len = frames[n].record[1])
<1>1. /\ frames[n].start \in Nat /\ frames[n].at \in Nat /\ frames[n].end \in Nat
      /\ frames[n].start <= frames[n].at /\ frames[n].at < frames[n].end
      /\ frames[n].end = frames[n].at + record_len(frames[n].record[1])
  BY AtFrame
<1>2. record_len(frames[n].record[1]) \in Nat
  BY AtFrame, RecordLen
<1>3. CASE c[i].pc \in Free
  <2>1. Start(i) \in {frames[n].start, frames[n].at}
    BY <1>3 DEF StandsAt, Start, Free
  <2>2. Start(i) \in Nat /\ frames[n].start <= Start(i) /\ Start(i) < frames[n].end
    BY <1>1, <2>1
  <2>3. PICK x \in Nat : x = Start(i)
    BY <2>2
  <2> QED BY <1>3, <2>2, <2>3, PastInFrame DEF Past, Lending, Free
<1>4. CASE c[i].pc \notin Free
  <2>1. Start(i) = frames[n].at /\ c[i].len = frames[n].record[1]
    <3>1. CASE c[i].pc = "callback"
      <4>1. c[i].read_cursor = frames[n].end /\ c[i].len = frames[n].record[1]
        BY <3>1 DEF StandsAt, Free
      <4>2. c[i].read_cursor - record_len(c[i].len) = frames[n].at
        BY <4>1, <1>1, <1>2
      <4> QED BY <3>1, <4>1, <4>2 DEF Start
    <3>2. CASE c[i].pc # "callback"
      BY <1>4, <3>2 DEF StandsAt, Start
    <3> QED BY <3>1, <3>2
  <2> QED BY <1>1, <2>1, PastInFrame DEF Past
<1> QED BY <1>3, <1>4

\* The abstract position of a consumer, in every state of the invariant.
AbstractInv ==
  \A i \in Consumers :
    /\ Live(i) <=> c[i].pc \notin {"out", "gone"}
    /\ Live(i) => Start(i) <= write_cursor /\ Start(i) \in Nat
    /\ Lending(i) => /\ Live(i) /\ Past(i) + 1 \in DOMAIN log
                     /\ Lent(i) = log[Past(i) + 1] /\ Lent(i) # << >>

LEMMA Abstracts == IInv => AbstractInv
<1> SUFFICES ASSUME IInv, NEW i \in Consumers
             PROVE  /\ Live(i) <=> c[i].pc \notin {"out", "gone"}
                    /\ Live(i) => Start(i) <= write_cursor /\ Start(i) \in Nat
                    /\ Lending(i) => /\ Live(i) /\ Past(i) + 1 \in DOMAIN log
                                     /\ Lent(i) = log[Past(i) + 1] /\ Lent(i) # << >>
  BY DEF AbstractInv
<1>1. /\ Live(i) <=> c[i].pc \notin {"out", "gone"}
      /\ Live(i) => c[i].write_cache <= write_cursor /\ Placed(c[i]) /\ write_cursor \in Nat /\ c[i] \in Handles
  BY LiveConsumer
<1>2. ASSUME Live(i) PROVE Start(i) <= write_cursor /\ Start(i) \in Nat
  <2>1. CASE CaughtUp(c[i])
    BY <1>1, <1>2, <2>1 DEF CaughtUp, Start, Handles, Free
  <2>2. CASE \E n \in DOMAIN frames : StandsAt(c[i], n)
    <3>1. PICK n \in DOMAIN frames : StandsAt(c[i], n)
      BY <2>2
    <3>2. Start(i) \in {frames[n].start, frames[n].at}
      <4>1. CASE Lending(i)
        BY <3>1, <4>1, PastOfConsumer
      <4>2. CASE ~Lending(i)
        BY <3>1, <4>2 DEF StandsAt, Start, Lending, Free
      <4> QED BY <4>1, <4>2
    <3> QED BY <1>1, <1>2, <3>2, AtFrame
  <2> QED BY <1>1, <1>2, <2>1, <2>2 DEF Placed
<1>3. ASSUME Lending(i)
      PROVE  /\ Live(i) /\ Past(i) + 1 \in DOMAIN log
             /\ Lent(i) = log[Past(i) + 1] /\ Lent(i) # << >>
  <2>1. c[i].pc \in {"holding", "releasing", "callback"}
    BY <1>3 DEF Lending
  <2>2. PICK n \in DOMAIN frames : StandsAt(c[i], n) /\ slots[i] <= frames[n].start
    BY <2>1, Borrowed
  <2>3. Past(i) = n - 1 /\ Start(i) = frames[n].at /\ c[i].len = frames[n].record[1]
    BY <1>3, <2>2, PastOfConsumer
  <2>4. n \in Nat /\ Past(i) + 1 = n /\ n \in DOMAIN log /\ frames[n].record = log[n]
    BY <2>3, FrameIndex DEF IInv
  <2>5. Live(i)
    BY <2>1, Borrowed
  <2>6. {buffer[w] : w \in PayloadAt(Position(frames[n].at), frames[n].record[1])} = frames[n].record[2]
    BY <2>2, <2>5, Decoded
  <2>7. PICK f : f = frames[n]
    OBVIOUS
  <2>8. f.record = <<f.record[1], f.record[2]>>
    BY <2>7, Framed DEF IInv, FramesInv
  <2>9. Lent(i) = <<f.record[1], f.record[2]>>
    BY <1>3, <2>3, <2>6, <2>7 DEF Lent
  <2>10. Lent(i) # << >>
    BY <2>9
  <2> QED BY <2>4, <2>5, <2>7, <2>8, <2>9, <2>10
<1> QED BY <1>1, <1>2, <1>3

-----------------------------------------------------------------------------
(* The refinement of RecordBroadcast *)

Borrowing == {"holding", "releasing", "callback"}

\* The abstract position of a consumer, before a step and after it.
LEMMA Before ==
  ASSUME IInv, NEW i \in Consumers
  PROVE  At[i] = [past |-> IF c[i].pc \in {"out", "gone"} THEN -1 ELSE Past(i),
                  lent |-> IF c[i].pc \in Borrowing THEN log[Past(i) + 1] ELSE << >>]
<1>1. AbstractInv
  BY Abstracts
<1>2. Lent(i) = IF c[i].pc \in Borrowing THEN log[Past(i) + 1] ELSE << >>
  BY <1>1 DEF AbstractInv, Lending, Lent, Borrowing
<1> QED BY <1>1, <1>2 DEF At, AbstractInv

LEMMA After ==
  ASSUME AbstractInv', UNCHANGED <<log, ends>>, NEW i \in Consumers, NEW x, Start(i)' = x
  PROVE  At'[i] = [past |-> IF c'[i].pc \in {"out", "gone"} THEN -1 ELSE PastOf(x),
                   lent |-> IF c'[i].pc \in Borrowing THEN log[PastOf(x) + 1] ELSE << >>]
<1>1. Past(i)' = PastOf(x)
  BY DEF Past, PastOf
<1>2. Lent(i)' = IF c'[i].pc \in Borrowing THEN log[PastOf(x) + 1] ELSE << >>
  BY <1>1 DEF AbstractInv, Lending, Lent, Borrowing
<1> QED BY <1>1, <1>2 DEF At, AbstractInv

LEMMA Stutters ==
  ASSUME IInv, AbstractInv', UNCHANGED <<log, ends, c, slots>>
  PROVE  UNCHANGED Abstract!vars
<1>2. ASSUME NEW i \in Consumers PROVE At'[i] = At[i]
  <2>1. PICK x : x = Start(i)
    OBVIOUS
  <2>2. Start(i)' = x /\ Past(i) = PastOf(x) /\ c'[i].pc = c[i].pc
    BY <2>1 DEF Start, Past, record_len
  <2> QED BY <2>2, Before, After
<1>3. At = [i \in Consumers |-> At[i]] /\ At' = [i \in Consumers |-> At'[i]]
  BY DEF At
<1> QED BY <1>2, <1>3 DEF Abstract!vars

\* A step of one consumer leaves the others where they are.
LEMMA OthersKeep ==
  ASSUME IInv, AbstractInv', NEW i \in Consumers, UNCHANGED <<log, ends>>,
         \A j \in Consumers \ {i} : c'[j] = c[j]
  PROVE  \A j \in Consumers \ {i} : At'[j] = At[j]
<1>2. ASSUME NEW j \in Consumers, j # i PROVE At'[j] = At[j]
  <2>1. PICK x : x = Start(j)
    OBVIOUS
  <2>2. c'[j] = c[j]
    BY <1>2
  <2>3. Start(j)' = x /\ Past(j) = PastOf(x)
    BY <2>1, <2>2 DEF Start, Past, record_len
  <2>4. At'[j] = [past |-> IF c'[j].pc \in {"out", "gone"} THEN -1 ELSE PastOf(x),
                  lent |-> IF c'[j].pc \in Borrowing THEN log[PastOf(x) + 1] ELSE << >>]
    BY <2>3, After
  <2>5. At[j] = [past |-> IF c[j].pc \in {"out", "gone"} THEN -1 ELSE Past(j),
                 lent |-> IF c[j].pc \in Borrowing THEN log[Past(j) + 1] ELSE << >>]
    BY Before
  <2> QED BY <2>2, <2>3, <2>4, <2>5
<1> QED BY <1>2

LEMMA OneMoves ==
  ASSUME IInv, AbstractInv', NEW i \in Consumers, UNCHANGED <<log, ends>>,
         \A j \in Consumers \ {i} : c'[j] = c[j],
         Abstract!Move(At[i], At'[i])
  PROVE  Abstract!Next
<1>1. \A j \in Consumers \ {i} : At'[j] = At[j]
  BY OthersKeep
<1> QED BY <1>1 DEF Abstract!Next

LEMMA OthersStay ==
  ASSUME IInv, AbstractInv', NEW i \in Consumers, UNCHANGED <<log, ends>>,
         \A j \in Consumers \ {i} : c'[j] = c[j], At'[i] = At[i]
  PROVE  UNCHANGED Abstract!vars
<1>1. \A j \in Consumers \ {i} : At'[j] = At[j]
  BY OthersKeep
<1>2. At = [j \in Consumers |-> At[j]] /\ At' = [j \in Consumers |-> At'[j]]
  BY DEF At
<1>3. \A j \in Consumers : At'[j] = At[j]
  BY <1>1
<1> QED BY <1>2, <1>3 DEF Abstract!vars

LEMMA WritePublishes ==
  ASSUME IInv, AbstractInv, AbstractInv', write_frame
  PROVE  Abstract!Next
<1>1. PICK f : f = Pending
  OBVIOUS
<1>2. /\ UNCHANGED <<slots, c>> /\ ends' = Append(ends, f.end) /\ log' = Append(log, f.record)
      /\ write_cursor' = f.end /\ f.start = write_cursor /\ WellFramed(f) /\ Len(log) < MaxPushes
  BY <1>1, Publishes
<1>3. PICK N \in Nat : N = Len(ends) /\ DOMAIN ends = 1 .. N /\ DOMAIN log = 1 .. N /\ Len(log) = N
  BY FrameIndex DEF IInv
<1>4. f.record \in AllRecords /\ f.end \in Nat
  BY <1>2, Framed
<1>5. /\ Len(log') = N + 1 /\ \A n \in 1 .. N : log'[n] = log[n]
  BY <1>2, <1>3, <1>4, AppendProperties DEF IInv, TypeOK
<1>6. /\ ends' \in Seq(Nat) /\ Len(ends') = N + 1 /\ ends'[N + 1] = f.end
      /\ \A n \in 1 .. N : ends'[n] = ends[n]
  BY <1>2, <1>3, <1>4, AppendProperties DEF IInv, TypeOK
<1>7. DOMAIN ends' = 1 .. N + 1
  BY <1>6, LenProperties
<1>8. write_cursor < f.end /\ write_cursor \in Nat
  <2>1. write_cursor < write_cursor' /\ write_cursor \in Nat
    BY <1>2, FramesGrow DEF IInv, TypeOK
  <2> QED BY <2>1, <1>2
<1>12. ASSUME NEW i \in Consumers PROVE At'[i] = At[i]
  <2>1. Live(i)' = Live(i) /\ Start(i)' = Start(i) /\ Lending(i)' = Lending(i)
    BY <1>2 DEF Live, Start, Lending, record_len
  <2>2. CASE ~Live(i)
    BY <2>1, <2>2 DEF At, AbstractInv, Lent
  <2>3. CASE Live(i)
    <3>1. Start(i) \in Nat /\ Start(i) <= write_cursor
      BY <2>3 DEF AbstractInv
    <3>2. PICK x \in Nat : x = Start(i)
      BY <3>1
    <3>3. ~(f.end <= x)
      BY <1>4, <1>8, <3>1, <3>2
    <3>4. {n \in DOMAIN ends' : ends'[n] <= x} = {n \in DOMAIN ends : ends[n] <= x}
      <4>1. ASSUME NEW n \in 1 .. N + 1 PROVE ends'[n] <= x <=> n \in 1 .. N /\ ends[n] <= x
        <5>1. n \in 1 .. N \/ n = N + 1
          BY <1>3
        <5>2. ~(N + 1 \in 1 .. N)
          BY <1>3
        <5> QED BY <5>1, <5>2, <1>6, <3>3
      <4>2. \A n \in 1 .. N : n \in 1 .. N + 1
        BY <1>3
      <4> QED BY <1>3, <1>7, <4>1, <4>2
    <3>5. Past(i)' = Past(i)
      BY <2>1, <3>2, <3>4 DEF Past, PastOf
    <3>6. Lent(i)' = Lent(i)
      <4>1. CASE Lending(i)
        BY <1>3, <1>5, <2>1, <3>5, <4>1 DEF AbstractInv
      <4>2. CASE ~Lending(i)
        BY <2>1, <4>2 DEF Lent
      <4> QED BY <4>1, <4>2
    <3> QED BY <2>1, <3>5, <3>6 DEF At
  <2> QED BY <2>2, <2>3
<1>13. At' = At
  <2>1. At = [i \in Consumers |-> At[i]] /\ At' = [i \in Consumers |-> At'[i]]
    BY DEF At
  <2> QED BY <1>12, <2>1
<1> QED BY <1>2, <1>3, <1>4, <1>5, <1>13 DEF Abstract!Next, Abstract!Publish

\* Where a step leaves a consumer: at the end of a record, before one, or borrowing it.
LEMMA EndsUp ==
  ASSUME IInv, AbstractInv', UNCHANGED <<log, ends>>, NEW i \in Consumers, c'[i].pc = "live",
         NEW k \in 0 .. Len(ends), Start(i)' = End(k)
  PROVE  At'[i] = Abstract!Past(k)
<1>1. PICK x : x = End(k)
  OBVIOUS
<1>2. PastOf(x) = k
  BY <1>1, PastAtEnd
<1>3. At'[i] = [past |-> PastOf(x), lent |-> << >>]
  <2>1. Start(i)' = x
    BY <1>1
  <2>2. c'[i].pc \notin {"out", "gone"} /\ c'[i].pc \notin Borrowing
    BY DEF Borrowing
  <2> QED BY <2>1, <2>2, After
<1> QED BY <1>2, <1>3 DEF Abstract!Past, Abstract!None

LEMMA GivenBack ==
  ASSUME IInv, AbstractInv', UNCHANGED <<log, ends>>, NEW i \in Consumers, c'[i].pc = "live",
         NEW n \in DOMAIN frames, Start(i)' = frames[n].at
  PROVE  At'[i] = Abstract!Past(n - 1)
<1>1. PICK x : x = frames[n].at
  OBVIOUS
<1>2. PastOf(x) = n - 1
  BY <1>1, AtFrame, PastInFrame
<1>3. At'[i] = [past |-> PastOf(x), lent |-> << >>]
  <2>1. Start(i)' = x
    BY <1>1
  <2>2. c'[i].pc \notin {"out", "gone"} /\ c'[i].pc \notin Borrowing
    BY DEF Borrowing
  <2> QED BY <2>1, <2>2, After
<1> QED BY <1>2, <1>3 DEF Abstract!Past, Abstract!None

LEMMA IsLent ==
  ASSUME IInv, AbstractInv', UNCHANGED <<log, ends>>, NEW i \in Consumers, c'[i].pc \in Borrowing,
         NEW n \in DOMAIN frames, Start(i)' = frames[n].at
  PROVE  At'[i] = Abstract!Following(n - 1)
<1>1. PICK x : x = frames[n].at
  OBVIOUS
<1>2. PastOf(x) = n - 1
  BY <1>1, AtFrame, PastInFrame
<1>3. At'[i] = [past |-> PastOf(x), lent |-> log[PastOf(x) + 1]]
  <2>1. Start(i)' = x
    BY <1>1
  <2>2. c'[i].pc \notin {"out", "gone"}
    BY DEF Borrowing
  <2> QED BY <2>1, <2>2, After
<1> QED BY <1>2, <1>3 DEF Abstract!Following

\* Where a step finds a consumer.
LEMMA FoundFree ==
  ASSUME IInv, NEW i \in Consumers, c[i].pc \in Free, NEW n \in DOMAIN frames,
         c[i].read_cursor \in {frames[n].start, frames[n].at}
  PROVE  At[i] = Abstract!Past(n - 1) /\ Abstract!More(n - 1)
<1>1. PICK x : x = c[i].read_cursor
  OBVIOUS
<1>2. PastOf(x) = n - 1
  <2>1. x \in Nat /\ frames[n].start <= x /\ x < frames[n].end
    BY <1>1, AtFrame
  <2> QED BY <2>1, PastInFrame
<1>3. Past(i) = PastOf(x)
  BY <1>1 DEF Past, Start, Free
<1>4. At[i] = [past |-> Past(i), lent |-> << >>]
  BY Before DEF Borrowing, Free
<1>5. n - 1 < Len(log)
  BY FrameIndex DEF IInv
<1> QED BY <1>2, <1>3, <1>4, <1>5 DEF Abstract!Past, Abstract!None, Abstract!More

LEMMA FoundLent ==
  ASSUME IInv, NEW i \in Consumers, c[i].pc \in Borrowing, NEW n \in DOMAIN frames, StandsAt(c[i], n)
  PROVE  /\ At[i] = Abstract!Following(n - 1) /\ At[i].lent # Abstract!None
         /\ At[i].past = n - 1 /\ n \in Nat /\ n > 0
<1>1. Past(i) = n - 1 /\ n \in Nat /\ n > 0
  BY PastOfConsumer, FrameIndex DEF IInv
<1>2. At[i] = [past |-> Past(i), lent |-> log[Past(i) + 1]]
  BY Before DEF Borrowing
<1>3. Lent(i) # << >> /\ Live(i)
  BY Abstracts DEF AbstractInv, Lending, Borrowing
<1>4. At[i].lent # << >>
  BY <1>3 DEF At
<1> QED BY <1>1, <1>2, <1>4 DEF Abstract!Following, Abstract!None

LEMMA SubscribeJoins ==
  ASSUME IInv, AbstractInv', NEW i \in Consumers, Subscribe(i)
  PROVE  Abstract!Next
<1>1. PICK joined \in {0} \union {ends[n] : n \in DOMAIN ends} :
        c' = [c EXCEPT ![i] = Subscribed(joined)]
  BY DEF Subscribe
<1>2. c[i].pc = "out" /\ UNCHANGED <<log, ends>> /\ c \in [Consumers -> Handles]
  BY DEF Subscribe, producer, IInv, TypeOK
<1>3. PICK k \in 0 .. Len(ends) : joined = End(k)
  <2>1. CASE joined = 0
    BY <2>1, FrameIndex DEF End, IInv
  <2>2. CASE \E n \in DOMAIN ends : joined = ends[n]
    <3>1. PICK n \in DOMAIN frames : joined = ends[n]
      BY <2>2, FrameIndex DEF IInv
    <3> QED BY <3>1, FrameIndex DEF IInv
  <2> QED BY <1>1, <2>1, <2>2
<1>4. c'[i] = Subscribed(joined) /\ \A j \in Consumers \ {i} : c'[j] = c[j]
  BY <1>1, <1>2
<1>5. c'[i].pc = "live" /\ Start(i)' = End(k)
  BY <1>3, <1>4 DEF Start, Subscribed, NoHandle
<1>6. At'[i] = Abstract!Past(k)
  BY <1>2, <1>5, EndsUp
<1>7. At[i] = Abstract!Out
  <2>1. At[i] = [past |-> -1, lent |-> << >>]
    BY <1>2, Before DEF Borrowing
  <2> QED BY <2>1 DEF Abstract!Out, Abstract!None
<1>8. Len(log) = Len(ends)
  BY DEF IInv, FramesInv
<1>9. Abstract!Join(At[i], At'[i])
  BY <1>6, <1>7, <1>8 DEF Abstract!Join, Abstract!Past
<1> QED BY <1>2, <1>4, <1>9, OneMoves DEF Abstract!Move

LEMMA NextMsgLends ==
  ASSUME IInv, AbstractInv', NEW i \in Consumers, c[i].pc \in Free, NEW x \in Ends,
         c[i].write_cache <= x, x # c[i].read_cursor, next_msg(i, x), UNCHANGED <<log, ends>>
  PROVE  Abstract!Next
<1>1. c \in [Consumers -> Handles]
  BY DEF IInv, TypeOK
<1>2. Live(i)
  BY LiveConsumer DEF Free
<1>5. PICK n \in DOMAIN frames : /\ c[i].read_cursor \in {frames[n].start, frames[n].at}
                                 /\ slots[i] <= frames[n].start
  BY <1>2, InFront
<1>6. decode_record(c[i].read_cursor) = [cur |-> frames[n].at, len |-> frames[n].record[1]]
  BY <1>2, <1>5, Decoded
<1>7. /\ c'[i].pc = "holding" /\ c'[i].read_cursor = frames[n].at
      /\ \A j \in Consumers \ {i} : c'[j] = c[j]
  <2>1. c' = [c EXCEPT ![i].pc = "holding", ![i].write_cache = x, ![i].read_cursor = frames[n].at,
                       ![i].len = frames[n].record[1]]
    BY <1>6 DEF next_msg
  <2> QED BY <1>1, <2>1 DEF Handles
<1>8. Start(i)' = frames[n].at
  BY <1>7 DEF Start
<1>9. At'[i] = Abstract!Following(n - 1)
  BY <1>7, <1>8, IsLent DEF Borrowing
<1>10. At[i] = Abstract!Past(n - 1) /\ Abstract!More(n - 1)
  BY <1>5, FoundFree
<1>11. n - 1 >= 0
  BY FrameIndex DEF IInv
<1>12. Abstract!Lend(At[i], At'[i])
  BY <1>9, <1>10, <1>11 DEF Abstract!Lend, Abstract!Past
<1> QED BY <1>7, <1>12, OneMoves DEF Abstract!Move

\* A look at an empty ring moves nobody.
LEMMA LooksStutters ==
  ASSUME IInv, AbstractInv', NEW i \in Consumers, c[i].pc \in Free, NEW pc \in Free,
         c' = [c EXCEPT ![i].pc = pc], UNCHANGED <<log, ends>>
  PROVE  UNCHANGED Abstract!vars
<1>1. c \in [Consumers -> Handles]
  BY DEF IInv, TypeOK
<1>2. /\ c'[i].pc = pc /\ c'[i].read_cursor = c[i].read_cursor
      /\ \A j \in Consumers \ {i} : c'[j] = c[j]
  BY <1>1 DEF Handles
<1>3. PICK x : x = Start(i)
  OBVIOUS
<1>4. Start(i)' = x /\ Past(i) = PastOf(x)
  BY <1>2, <1>3 DEF Start, Past, Free
<1>5. At'[i] = [past |-> PastOf(x), lent |-> << >>]
  BY <1>2, <1>4, After DEF Free, Borrowing
<1>6. At[i] = [past |-> Past(i), lent |-> << >>]
  BY Before DEF Free, Borrowing
<1>7. At'[i] = At[i]
  BY <1>4, <1>5, <1>6
<1> QED BY <1>2, <1>7, OthersStay

LEMMA PopLends ==
  ASSUME IInv, AbstractInv', NEW i \in Consumers, pop(i)
  PROVE  Abstract!Next \/ UNCHANGED Abstract!vars
<1>1. /\ c[i].pc \in {"live", "closed"} /\ UNCHANGED <<log, ends>>
      /\ IF has_item(c[i]) = c[i].read_cursor THEN c' = [c EXCEPT ![i].pc = "empty"]
         ELSE next_msg(i, has_item(c[i]))
  BY DEF pop, producer
<1>2. Live(i) /\ c[i].pc \in Free /\ "empty" \in Free
  BY <1>1, LiveConsumer DEF Free
<1>3. PICK x : x = has_item(c[i])
  OBVIOUS
<1>4. x \in Ends /\ c[i].write_cache <= x
  BY <1>2, <1>3, HasItem
<1>5. CASE x = c[i].read_cursor
  BY <1>1, <1>2, <1>3, <1>5, LooksStutters
<1>6. CASE x # c[i].read_cursor
  BY <1>1, <1>2, <1>3, <1>4, <1>6, NextMsgLends
<1> QED BY <1>5, <1>6

LEMMA CheckClosedLends ==
  ASSUME IInv, AbstractInv', NEW i \in Consumers, CheckClosed(i)
  PROVE  Abstract!Next \/ UNCHANGED Abstract!vars
<1>1. /\ c[i].pc = "empty" /\ UNCHANGED <<log, ends>>
      /\ IF closed /\ write_cursor # c[i].read_cursor THEN next_msg(i, write_cursor)
         ELSE c' = [c EXCEPT ![i].pc = IF closed THEN "closed" ELSE "live"]
  BY DEF CheckClosed, producer
<1>2. /\ Live(i) /\ c[i].pc \in Free /\ c[i].write_cache <= write_cursor
      /\ write_cursor \in Ends
  BY <1>1, LiveConsumer, EndsType DEF Free, IInv
<1>3. CASE closed /\ write_cursor # c[i].read_cursor
  BY <1>1, <1>2, <1>3, NextMsgLends
<1>4. CASE ~(closed /\ write_cursor # c[i].read_cursor)
  <2>1. PICK pc : pc = IF closed THEN "closed" ELSE "live"
    OBVIOUS
  <2>2. pc \in Free /\ c' = [c EXCEPT ![i].pc = pc]
    BY <1>1, <1>4, <2>1 DEF Free
  <2> QED BY <1>1, <1>2, <2>2, LooksStutters
<1> QED BY <1>3, <1>4

LEMMA ForgetForgets ==
  ASSUME IInv, AbstractInv', NEW i \in Consumers, Forget(i)
  PROVE  Abstract!Next
<1>1. c[i].pc = "holding" /\ UNCHANGED <<log, ends>> /\ c \in [Consumers -> Handles]
  BY DEF Forget, producer, IInv, TypeOK
<1>2. PICK n \in DOMAIN frames : StandsAt(c[i], n)
  BY <1>1, Borrowed
<1>3. c[i].read_cursor = frames[n].at
  BY <1>1, <1>2 DEF StandsAt, Free
<1>4. /\ c'[i].pc = "live" /\ c'[i].read_cursor = frames[n].at
      /\ \A j \in Consumers \ {i} : c'[j] = c[j]
  BY <1>1, <1>3 DEF Forget, Handles
<1>5. Start(i)' = frames[n].at
  BY <1>4 DEF Start
<1>6. At'[i] = Abstract!Past(n - 1)
  BY <1>1, <1>4, <1>5, GivenBack
<1>7. At[i].lent # Abstract!None /\ At[i].past = n - 1
  BY <1>1, <1>2, FoundLent DEF Borrowing
<1>8. Abstract!Forget(At[i], At'[i])
  BY <1>6, <1>7 DEF Abstract!Forget
<1> QED BY <1>1, <1>4, <1>8, OneMoves DEF Abstract!Move

\* The load of the flag on the way to a release moves nobody.
LEMMA LoadStarvingStutters ==
  ASSUME IInv, AbstractInv', NEW i \in Consumers, LoadStarving(i)
  PROVE  UNCHANGED Abstract!vars
<1>1. c[i].pc = "holding" /\ UNCHANGED <<log, ends>> /\ c \in [Consumers -> Handles]
  BY DEF LoadStarving, producer, IInv, TypeOK
<1>2. /\ c'[i].pc = "releasing" /\ c'[i].read_cursor = c[i].read_cursor
      /\ \A j \in Consumers \ {i} : c'[j] = c[j]
  BY <1>1 DEF LoadStarving, Handles
<1>3. PICK n \in DOMAIN frames : StandsAt(c[i], n)
  BY <1>1, Borrowed
<1>4. c[i].read_cursor = frames[n].at
  BY <1>1, <1>3 DEF StandsAt, Free
<1>5. Start(i)' = frames[n].at
  BY <1>2, <1>4 DEF Start
<1>6. At'[i] = Abstract!Following(n - 1)
  BY <1>1, <1>2, <1>5, IsLent DEF Borrowing
<1>7. At'[i] = At[i]
  BY <1>1, <1>3, <1>6, FoundLent DEF Borrowing
<1> QED BY <1>1, <1>2, <1>7, OthersStay

LEMMA AdvanceReturns ==
  ASSUME IInv, AbstractInv', NEW i \in Consumers, advance(i)
  PROVE  Abstract!Next
<1>1. c[i].pc = "releasing" /\ UNCHANGED <<log, ends>> /\ c \in [Consumers -> Handles]
  BY DEF advance, producer, IInv, TypeOK
<1>2. PICK n \in DOMAIN frames : StandsAt(c[i], n)
  BY <1>1, Borrowed
<1>3. c[i].read_cursor + record_len(c[i].len) = frames[n].end
  BY <1>1, <1>2, AtFrame DEF StandsAt, Free
<1>4. /\ c'[i].pc = "live" /\ c'[i].read_cursor = frames[n].end
      /\ \A j \in Consumers \ {i} : c'[j] = c[j]
  <2>1. PICK h : h = [c[i] EXCEPT !.pc = "live", !.len = 0, !.span = 0, !.read_cursor = frames[n].end]
    OBVIOUS
  <2>2. PICK g : g = [h EXCEPT !.published = frames[n].end]
    OBVIOUS
  <2>3. c' = [c EXCEPT ![i] = g] \/ c' = [c EXCEPT ![i] = h]
    BY <1>3, <2>1, <2>2 DEF advance
  <2>4. /\ h.pc = "live" /\ h.read_cursor = frames[n].end
        /\ g.pc = "live" /\ g.read_cursor = frames[n].end
    BY <1>1, <2>1, <2>2 DEF Handles
  <2> QED BY <1>1, <2>3, <2>4
<1>5. Start(i)' = End(n) /\ n \in 0 .. Len(ends)
  BY <1>4, FrameIndex DEF Start, IInv
<1>6. At'[i] = Abstract!Past(n)
  BY <1>1, <1>4, <1>5, EndsUp
<1>7. At[i].lent # Abstract!None /\ At[i].past + 1 = n
  BY <1>1, <1>2, FoundLent DEF Borrowing
<1>8. Abstract!Return(At[i], At'[i])
  BY <1>6, <1>7 DEF Abstract!Return
<1> QED BY <1>1, <1>4, <1>8, OneMoves DEF Abstract!Move

\* drain, on to the record in front.
LEMMA PassRecordLends ==
  ASSUME IInv, AbstractInv', NEW i \in Consumers, Live(i), UNCHANGED <<log, ends>>, NEW x, NEW limit,
         NEW n \in DOMAIN frames, c[i].read_cursor \in {frames[n].start, frames[n].at},
         slots[i] <= frames[n].start, PassRecord(i, x, limit)
  PROVE  /\ At'[i] = Abstract!Following(n - 1)
         /\ \A j \in Consumers \ {i} : c'[j] = c[j]
<1>1. decode_record(c[i].read_cursor) = [cur |-> frames[n].at, len |-> frames[n].record[1]]
  BY Decoded
<1>2. PICK len : len = frames[n].record[1]
  OBVIOUS
<1>3. PICK bytes : bytes = record_len(len)
  OBVIOUS
<1>4. bytes \in Nat /\ frames[n].at \in Nat
  <2>1. len \in Nat
    BY <1>2, AtFrame
  <2> QED BY <1>3, <2>1, AtFrame, RecordLen
<1>5. /\ c'[i].pc = "callback" /\ c'[i].len = len /\ c'[i].read_cursor = frames[n].at + bytes
      /\ \A j \in Consumers \ {i} : c'[j] = c[j]
  <2>1. c' = [c EXCEPT ![i].pc = "callback", ![i].write_cache = x, ![i].limit = limit,
                       ![i].read_cursor = frames[n].at + bytes, ![i].len = len]
    BY <1>1, <1>2, <1>3 DEF PassRecord
  <2>2. c \in [Consumers -> Handles]
    BY DEF IInv, TypeOK
  <2> QED BY <2>1, <2>2 DEF Handles
<1>6. Start(i)' = frames[n].at
  <2>1. record_len(c'[i].len) = bytes
    BY <1>3, <1>5 DEF record_len
  <2>2. c'[i].read_cursor - record_len(c'[i].len) = frames[n].at
    BY <1>4, <1>5, <2>1
  <2>3. Start(i)' = IF c'[i].pc = "callback" THEN c'[i].read_cursor - record_len(c'[i].len)
                    ELSE c'[i].read_cursor
    BY DEF Start, record_len
  <2> QED BY <1>5, <2>2, <2>3
<1> QED BY <1>5, <1>6, IsLent DEF Borrowing

LEMMA DrainBeginLends ==
  ASSUME IInv, AbstractInv', NEW i \in Consumers, DrainBegin(i)
  PROVE  Abstract!Next
<1>1. /\ c[i].pc = "live" /\ write_cursor # c[i].read_cursor /\ UNCHANGED <<log, ends>>
      /\ PassRecord(i, write_cursor, Min({write_cursor, c[i].read_cursor + Batch}))
  BY DEF DrainBegin, producer, shared
<1>2. Live(i) /\ c[i].write_cache <= write_cursor /\ write_cursor \in Ends
  BY <1>1, LiveConsumer, EndsType DEF IInv
<1>3. PICK n \in DOMAIN frames : /\ c[i].read_cursor \in {frames[n].start, frames[n].at}
                                 /\ slots[i] <= frames[n].start
  BY <1>1, <1>2, InFront DEF Free
<1>4. At'[i] = Abstract!Following(n - 1) /\ \A j \in Consumers \ {i} : c'[j] = c[j]
  BY <1>1, <1>2, <1>3, PassRecordLends
<1>5. At[i] = Abstract!Past(n - 1) /\ Abstract!More(n - 1)
  BY <1>1, <1>3, FoundFree DEF Free
<1>6. n - 1 >= 0
  BY FrameIndex DEF IInv
<1>7. Abstract!Lend(At[i], At'[i])
  BY <1>4, <1>5, <1>6 DEF Abstract!Lend, Abstract!Past
<1> QED BY <1>1, <1>4, <1>7, OneMoves DEF Abstract!Move

LEMMA DrainRecordReturns ==
  ASSUME IInv, AbstractInv', NEW i \in Consumers, DrainRecord(i)
  PROVE  Abstract!Next
<1>1. /\ c[i].pc = "callback" /\ c[i].read_cursor < c[i].limit /\ UNCHANGED <<log, ends>>
      /\ PassRecord(i, c[i].write_cache, c[i].limit)
  BY DEF DrainRecord, producer, shared
<1>2. Live(i) /\ c[i] \in Handles /\ c[i].write_cache \in Ends /\ slots[i] \in Nat
  BY <1>1, Borrowed
<1>3. PICK m \in DOMAIN frames : StandsAt(c[i], m) /\ slots[i] <= frames[m].start
  BY <1>1, Borrowed
<1>4. c[i].read_cursor = frames[m].end /\ c[i].limit <= c[i].write_cache
  BY <1>1, <1>3 DEF StandsAt, Free
<1>5. c[i].limit \in Nat /\ c[i].write_cache \in Nat
  BY <1>2 DEF Handles
<1>6. frames[m].end < c[i].write_cache /\ slots[i] <= frames[m].end
  BY <1>1, <1>2, <1>3, <1>4, <1>5, AtFrame
<1>7. PICK n \in DOMAIN frames : frames[n].start = frames[m].end
  BY <1>2, <1>6, AtFrame, NextFrame DEF IInv
<1>8. n - 1 = m
  <2>1. /\ frames[n].start = End(n - 1) /\ n - 1 \in 0 .. Len(ends)
        /\ frames[m].end = End(m) /\ m \in 0 .. Len(ends)
    BY FrameIndex DEF IInv
  <2>2. PastOf(End(n - 1)) = n - 1 /\ PastOf(End(m)) = m
    BY <2>1, PastAtEnd
  <2> QED BY <1>7, <2>1, <2>2
<1>9. At'[i] = Abstract!Following(m) /\ \A j \in Consumers \ {i} : c'[j] = c[j]
  BY <1>1, <1>2, <1>4, <1>6, <1>7, <1>8, PassRecordLends
<1>10. At[i].lent # Abstract!None /\ At[i].past + 1 = m
  BY <1>1, <1>3, FoundLent DEF Borrowing
<1>11. Abstract!More(m)
  BY <1>8, FrameIndex DEF Abstract!More, IInv
<1>12. Abstract!Return(At[i], At'[i])
  BY <1>9, <1>10, <1>11 DEF Abstract!Return
<1> QED BY <1>1, <1>9, <1>12, OneMoves DEF Abstract!Move

LEMMA DrainEndReturns ==
  ASSUME IInv, AbstractInv', NEW i \in Consumers, DrainEnd(i)
  PROVE  Abstract!Next
<1>1. c[i].pc = "callback" /\ UNCHANGED <<log, ends>> /\ c \in [Consumers -> Handles]
  BY DEF DrainEnd, producer, IInv, TypeOK
<1>2. PICK n \in DOMAIN frames : StandsAt(c[i], n)
  BY <1>1, Borrowed
<1>3. c[i].read_cursor = frames[n].end
  BY <1>1, <1>2 DEF StandsAt, Free
<1>4. /\ c'[i].pc = "live" /\ c'[i].read_cursor = frames[n].end
      /\ \A j \in Consumers \ {i} : c'[j] = c[j]
  BY <1>1, <1>3 DEF DrainEnd, Handles
<1>5. Start(i)' = End(n) /\ n \in 0 .. Len(ends)
  BY <1>4, FrameIndex DEF Start, IInv
<1>6. At'[i] = Abstract!Past(n)
  BY <1>1, <1>4, <1>5, EndsUp
<1>7. At[i].lent # Abstract!None /\ At[i].past + 1 = n
  BY <1>1, <1>2, FoundLent DEF Borrowing
<1>8. Abstract!Return(At[i], At'[i])
  BY <1>6, <1>7 DEF Abstract!Return
<1> QED BY <1>1, <1>4, <1>8, OneMoves DEF Abstract!Move

LEMMA DetachLeaves ==
  ASSUME IInv, AbstractInv', NEW i \in Consumers, Detach(i)
  PROVE  Abstract!Next
<1>1. c[i].pc \in {"live", "closed"} /\ UNCHANGED <<log, ends>> /\ c \in [Consumers -> Handles]
  BY DEF Detach, producer, IInv, TypeOK
<1>2. c'[i].pc = "gone" /\ \A j \in Consumers \ {i} : c'[j] = c[j]
  BY <1>1 DEF Detach, NoHandle
<1>3. PICK x : x = Start(i)'
  OBVIOUS
<1>4. At'[i] = [past |-> -1, lent |-> << >>]
  BY <1>1, <1>2, <1>3, After DEF Borrowing
<1>5. At[i].lent = << >>
  <2>1. c[i].pc \notin {"out", "gone"} /\ c[i].pc \notin Borrowing
    BY <1>1 DEF Borrowing
  <2>2. At[i] = [past |-> Past(i), lent |-> << >>]
    BY <2>1, Before
  <2> QED BY <2>2
<1>6. Abstract!Leave(At[i], At'[i])
  BY <1>4, <1>5 DEF Abstract!Leave, Abstract!Out, Abstract!None
<1> QED BY <1>1, <1>2, <1>6, OneMoves DEF Abstract!Move

LEMMA AbstractInit == Init => Abstract!Init
<1> SUFFICES ASSUME Init PROVE Abstract!Init
  OBVIOUS
<1>1. IInv /\ log = << >>
  BY Initial DEF Init
<1>3. PICK first \in Consumers : c = [i \in Consumers |-> IF i = first THEN Subscribed(0) ELSE NoHandle]
  BY DEF Init
<1>4. ASSUME NEW i \in Consumers PROVE At[i] \in {Abstract!Out, Abstract!Past(0)}
  <2>1. CASE c[i] = NoHandle
    <3>1. c[i].pc \in {"out", "gone"} /\ c[i].pc \notin Borrowing
      BY <2>1 DEF NoHandle, Borrowing
    <3> QED BY <1>1, <3>1, Before DEF Abstract!Out, Abstract!None
  <2>2. CASE c[i] = Subscribed(0)
    <3>1. c[i].pc = "live" /\ c[i].read_cursor = 0 /\ c[i].pc \notin Borrowing
      BY <2>2 DEF Subscribed, NoHandle, Borrowing
    <3>2. 0 \in 0 .. Len(ends) /\ End(0) = 0
      BY <1>1, FrameIndex DEF IInv, End
    <3>3. Past(i) = 0
      BY <1>1, <3>1, <3>2, PastAtEnd DEF Past, Start
    <3> QED BY <1>1, <3>1, <3>3, Before DEF Abstract!Past, Abstract!None
  <2> QED BY <1>3, <2>1, <2>2
<1>5. At \in [Consumers -> {Abstract!Out, Abstract!Past(0)}]
  BY <1>4 DEF At
<1> QED BY <1>1, <1>5 DEF Abstract!Init

LEMMA StepsMap ==
  ASSUME IInv, AbstractInv, AbstractInv', [Next]_vars
  PROVE  [Abstract!Next]_(Abstract!vars)
<1>1. ASSUME UNCHANGED <<log, ends, c, slots>> PROVE UNCHANGED Abstract!vars
  BY <1>1, Stutters
<1>2. CASE (\E len \in AllLengths : Frame(len)) \/ has_space \/ Abandon \/ DropProducer
  BY <1>1, <1>2 DEF Frame, Granted, has_space, Rescan, RaiseStarving, WaitForSpace, Abandon, DropProducer, shared
<1>3. CASE write_frame
  BY <1>3, WritePublishes
<1>5. ASSUME NEW i \in Consumers, ConsumerNext(i) PROVE Abstract!Next \/ UNCHANGED Abstract!vars
  BY <1>5, SubscribeJoins, PopLends, CheckClosedLends, ForgetForgets, LoadStarvingStutters, AdvanceReturns,
     DrainBeginLends, DrainRecordReturns, DrainEndReturns, DetachLeaves DEF ConsumerNext, Release, Drain
<1>7. CASE UNCHANGED vars
  BY <1>1, <1>7 DEF vars, producer, shared
<1> QED BY <1>2, <1>3, <1>5, <1>7 DEF Next, ProducerNext

\* Every consumer is lent every record from where it joined, in order and whole,
\* and keeps it until it hands it back: over any number of consumers and of
\* records, the ring implements the gating one (RecordBroadcast).
THEOREM Implements == Spec => ImplementsRecordBroadcast
<1>1. Init => Abstract!Init
  BY AbstractInit
<1>2. IInv /\ AbstractInv /\ AbstractInv' /\ [Next]_vars => [Abstract!Next]_(Abstract!vars)
  BY StepsMap
<1>3. IInv => AbstractInv
  BY Abstracts
<1> QED BY <1>1, <1>2, <1>3, Invariance, PTL DEF Spec, ImplementsRecordBroadcast, Abstract!Spec

-----------------------------------------------------------------------------
(* The releases *)

\* The threshold that the flag gives leaves out no consumer in the way of the push that waits.
LEMMA InTheWay ==
  ASSUME IInv, NEW h \in Handles, h.write_cache = write_cursor, p.pc = "waiting", h.span = starving,
         Lacks(Needed(p.len), h.published)
  PROVE  MayBeTheGate(h)
<1>1. h.span = Needed(p.len)
  BY DEF IInv, ProducerInv
<1>2. Needed(p.len) \in Nat /\ Needed(p.len) > 0 /\ write_cursor \in Nat
  BY Fits, ProducerType DEF IInv
<1>3. h.published \in Nat
  BY DEF Handles
<1>4. write_cursor + Needed(p.len) > h.published + Capacity
  BY <1>2, <1>3, NeedsType DEF IInv
<1>5. write_cursor - h.published >= Capacity - Needed(p.len)
  BY <1>2, <1>3, <1>4, CapacityType
<1> QED BY <1>1, <1>2, <1>5 DEF MayBeTheGate

LEMMA ReleaseStep ==
  ASSUME IInv, [Next]_vars, NEW i \in Consumers, c[i].pc = "releasing", c'[i].pc = "live",
         p.pc = "waiting", c[i].span = starving, c[i].write_cache = write_cursor,
         Lacks(Needed(p.len), c'[i].published)
  PROVE  c'[i].published = c'[i].read_cursor
<1>1. c[i] \in Handles /\ c \in [Consumers -> Handles]
  BY DEF IInv, TypeOK
<1>2. advance(i)
  <2>1. CASE UNCHANGED c
    BY <2>1
  <2>3. CASE \E j \in Consumers : ConsumerNext(j)
    <3>1. PICK j \in Consumers : ConsumerNext(j)
      BY <2>3
    <3>2. CASE j # i
      <4>1. c'[i] = c[i]
        BY <3>1, <3>2, <1>1 DEF ConsumerNext, Subscribe, pop, next_msg, CheckClosed, Forget, Release,
           LoadStarving, advance, Drain, DrainBegin, DrainRecord, PassRecord, DrainEnd, Detach
      <4> QED BY <4>1
    <3>3. CASE j = i
      BY <3>1, <3>3, <1>1 DEF ConsumerNext, Subscribe, pop, CheckClosed, Forget, Release,
         LoadStarving, Drain, DrainBegin, DrainRecord, DrainEnd, Detach
    <3> QED BY <3>2, <3>3
  <2>4. ProducerNext => UNCHANGED c
    BY DEF ProducerNext, Frame, has_space, Rescan, RaiseStarving, WaitForSpace, write_frame, Abandon, DropProducer
  <2>5. UNCHANGED vars => UNCHANGED c
    BY DEF vars
  <2> QED BY <2>1, <2>3, <2>4, <2>5 DEF Next
<1>3. PICK read : read = c[i].read_cursor + record_len(c[i].len)
  OBVIOUS
<1>4. PICK h : h = [c[i] EXCEPT !.pc = "live", !.len = 0, !.span = 0, !.read_cursor = read]
  OBVIOUS
<1>5. h.published = c[i].published
  BY <1>1, <1>4 DEF Handles
<1>6. CASE MustPublish(c[i], read)
  <2>1. PICK g : g = [h EXCEPT !.published = read]
    OBVIOUS
  <2>2. c' = [c EXCEPT ![i] = g]
    BY <1>2, <1>3, <1>4, <1>6, <2>1 DEF advance
  <2>3. c'[i] = g /\ g.published = read /\ g.read_cursor = read
    BY <1>1, <1>4, <2>1, <2>2 DEF Handles
  <2> QED BY <2>3
<1>7. CASE ~MustPublish(c[i], read)
  <2>1. c' = [c EXCEPT ![i] = h]
    BY <1>2, <1>3, <1>4, <1>7 DEF advance
  <2>2. c'[i].published = c[i].published
    BY <1>1, <1>5, <2>1
  <2>3. Lacks(Needed(p.len), c[i].published)
    BY <2>2
  <2>4. MayBeTheGate(c[i])
    BY <1>1, <2>3, InTheWay
  <2> QED BY <1>7, <2>4 DEF MustPublish
<1> QED BY <1>6, <1>7

\* A consumer that releases a record while a push waits, having seen its flag and
\* all that is published, is out of its way or has published its progress.
THEOREM Releases == Spec => GateIsReleased
<1>1. IInv /\ [Next]_vars =>
        [\A i \in Consumers :
           (/\ c[i].pc = "releasing" /\ c'[i].pc = "live"
            /\ p.pc = "waiting" /\ c[i].span = starving /\ c[i].write_cache = write_cursor
            /\ Lacks(Needed(p.len), c'[i].published))
             => c'[i].published = c'[i].read_cursor]_vars
  BY ReleaseStep
<1> QED BY <1>1, Invariance, PTL DEF Spec, GateIsReleased
=============================================================================
