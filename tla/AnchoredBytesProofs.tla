------------------------ MODULE AnchoredBytesProofs ------------------------
(***************************************************************************)
(* AnchoredBytes: the inductive invariant, and the theorems that rest on   *)
(* it.  It holds for every capacity that is a multiple of the alignment,   *)
(* every set of anchors and any number of records and of sessions.         *)
(***************************************************************************)
EXTENDS AnchoredBytes, RingArithProofs, SequenceTheorems, FiniteSetTheorems, WellFoundedInduction

-----------------------------------------------------------------------------
(* The invariant *)

Quiet == {"idle", "lacking", "starved", "waiting"}
Sized == {"lacking", "starved", "waiting", "granted"}
Writing == {"declared", "filled", "pointed"}
Running == p.pc \notin {"gone", "healing"}

Lanes == {LANE * i : i \in 0 .. Capacity \div LANE - 1}

Producers ==
  [pc : Quiet \union Writing \union {"granted", "gone", "healing"}, next : Nat, len : Nat,
   cached_min : Int, raised_starving : BOOLEAN, intent_floor : Nat]
Handles ==
  [pc : {"out", "live", "holding", "releasing", "callback"}, read_cursor : Nat,
   published : Nat, tail_cache : Nat, len : Nat, limit : Nat, span : Nat]

TypeOK ==
  /\ buffer \in [Lanes -> Int]
  /\ tail_intent \in Nat /\ latest \in Nat /\ tail \in Nat
  /\ closed \in BOOLEAN /\ starving \in Nat
  /\ slots \in [Anchors -> Nat \union {DETACHED}]
  /\ p \in Producers
  /\ cached_cursors \in [Anchors -> Int] /\ fence_seq \in Nat
  /\ a \in [Anchors -> Handles]
  /\ closes \subseteq Nat /\ pushes \in 0 .. MaxPushes /\ sessions \in Nat

Frames == [start : Nat, at : Nat, end : Nat, record : AllRecords]

\* A frame as write_frame lays one out: the record in one piece, after padding
\* to the end of the buffer where it would not fit.
WellFramed(f) ==
  /\ f \in Frames
  /\ f.start % LANE = 0 /\ f.at % LANE = 0 /\ f.end % LANE = 0
  /\ f.record[1] <= max_message_len
  /\ f.at = f.start \/ (f.at = f.start + ToEnd(f.start) /\ Position(f.at) = 0)
  /\ f.end = f.at + record_len(f.record[1])
  /\ Position(f.at) + record_len(f.record[1]) <= Capacity
  /\ f.end <= f.start + Capacity

\* Where a record may start or end.
End(n) == IF n = 0 THEN 0 ELSE frames[n].end
Ends == {End(n) : n \in 0 .. Len(frames)}

FramesInv ==
  /\ frames \in Seq(Frames)
  /\ \A n \in DOMAIN frames : WellFramed(frames[n]) /\ frames[n].start = End(n - 1)
  /\ \A m, n \in 0 .. Len(frames) : m < n => End(m) < End(n)
  /\ tail = End(Len(frames))

\* What the lanes of a frame hold, until the intent passes them.
HeldPadding(f) == f.at # f.start /\ tail_intent <= f.start + Capacity => buffer[Position(f.start)] = PADDING
HeldRecord(f) ==
  tail_intent <= f.at + Capacity =>
    <<buffer[Position(f.at)], {buffer[w] : w \in PayloadAt(Position(f.at), f.record[1])}>> = f.record
Held(f) == HeldPadding(f) /\ HeldRecord(f)

Pending == [start |-> p.next, at |-> RecordAt, end |-> NewTail, record |-> Record(pushes, p.len)]

ContentsInv ==
  /\ \A n \in DOMAIN frames : Held(frames[n])
  /\ p.pc \in {"filled", "pointed"} => Held(Pending)

\* The gate: what the producer knows of the anchors is never ahead of them, and the
\* intent is never more than a ring ahead of them.
GateOk(i) ==
  /\ -Capacity <= cached_cursors[i]
  /\ Live(i) => /\ cached_cursors[i] <= slots[i] /\ slots[i] <= tail
                /\ tail_intent <= slots[i] + Capacity
  /\ ~Live(i) => /\ a[i].read_cursor <= tail
                 /\ cached_cursors[i] <= a[i].read_cursor \/ cached_cursors[i] <= fence_seq

GateInv ==
  /\ fence_seq <= tail /\ tail <= tail_intent /\ tail_intent <= fence_seq + Capacity
  /\ \A i \in Anchors : GateOk(i)

ProducerInv ==
  Running =>
    /\ p.next = tail /\ p.intent_floor <= tail_intent
    /\ p.cached_min <= fence_seq
    /\ \A i \in Anchors : Live(i) => p.cached_min <= slots[i]
    /\ p.pc \in Sized \union Writing => p.len <= max_message_len
    /\ p.pc \in Sized => pushes < MaxPushes /\ p.len \in Lengths[pushes + 1]
    /\ p.pc \in Writing => /\ pushes > 0 /\ p.len \in AllLengths /\ NewTail <= tail_intent
                           /\ tail_intent \in {NewTail, p.intent_floor}
    /\ p.pc \in Quiet \union {"granted"} => tail_intent \in {tail, p.intent_floor}
    /\ p.pc \in {"granted"} \union Writing => NewTail <= p.cached_min + Capacity

\* The anchors stand at the records.
StandsAt(h, n) ==
  /\ h.published <= frames[n].start /\ frames[n].end <= h.tail_cache
  /\ \/ h.pc = "live" /\ h.read_cursor \in {frames[n].start, frames[n].at}
     \/ /\ h.pc \in {"holding", "releasing"} /\ h.read_cursor = frames[n].at
        /\ h.len = frames[n].record[1]
     \/ /\ h.pc = "callback" /\ h.read_cursor = frames[n].end /\ h.limit <= h.tail_cache
        /\ h.len = frames[n].record[1]
CaughtUp(h) == h.pc = "live" /\ h.read_cursor = h.tail_cache /\ h.published <= h.read_cursor
Placed(h) == CaughtUp(h) \/ \E n \in DOMAIN frames : StandsAt(h, n)

AnchorOk(i) ==
  /\ Live(i) <=> a[i].pc # "out"
  /\ Live(i) => /\ slots[i] = a[i].published
                /\ a[i].published \in Ends /\ a[i].tail_cache \in Ends
                /\ Placed(a[i])
AnchorInv == \A i \in Anchors : AnchorOk(i)

IInv == TypeOK /\ FramesInv /\ ContentsInv /\ GateInv /\ ProducerInv /\ AnchorInv

-----------------------------------------------------------------------------
(* What an observer knows *)

Observers ==
  [pc : {"out", "idle", "empty", "recheck", "window", "padding", "skipped", "copy", "copied", "lapped", "jump"},
   pos : Nat, tail_cache : Nat, cursor : Nat, len : Int, copied : SUBSET Int]

\* Places from which a frame can be read, now or once it is written: every lap of
\* the buffer begins with a record.
Place == Ends \union {frames[n].at : n \in DOMAIN frames}
              \union {c \in tail .. tail_intent : Position(c) = 0}

\* The frame that the observer is reading.  What it has of it is the frame's, as long
\* as it has not been overrun.
Reading(n) ==
  /\ o.pos \in {frames[n].start, frames[n].at} /\ o.cursor \in {frames[n].start, frames[n].at}
  /\ ~Overrun =>
       /\ o.pc = "window" => o.cursor \in {o.pos, frames[n].at}
       /\ o.pc = "padding" => o.cursor = frames[n].start /\ o.cursor # frames[n].at
       /\ o.pc \in {"skipped", "copy", "copied"} => o.cursor = frames[n].at
       /\ o.pc \in {"copy", "copied"} => o.len = frames[n].record[1]
       /\ o.pc = "copied" => o.copied = frames[n].record[2]

ObserverInv ==
  /\ o \in Observers /\ o.pos \in Place /\ latest \in Place /\ o.tail_cache <= tail
  /\ o.pc = "out" <=> result = Returned("out", 0)
  /\ o.pc \in {"lapped", "jump"} => tail_intent > o.pos + Capacity
  /\ o.pc \in {"window", "padding", "skipped", "copy", "copied"} => \E n \in DOMAIN frames : Reading(n)
  /\ closed \/ o.pc = "recheck" => closes # {}
  /\ \A c \in closes : c <= tail

-----------------------------------------------------------------------------
(* Arithmetic *)

LEMMA CapacityType ==
  /\ Capacity \in Nat \ {0} /\ Capacity \in Int /\ Capacity >= 16
  /\ \E k \in Nat : Capacity = 4 * k
<1>1. Capacity \in Nat /\ Capacity >= 16 /\ Capacity % 8 = 0
  BY AnchoredBytesAssumption DEF ALIGN, MIN_CAPACITY
<1>2. \E k \in Nat : Capacity = 4 * k
  <2> DEFINE h == 2 * (Capacity \div 8)
  <2>1. h \in Nat /\ Capacity = 4 * h
    BY <1>1
  <2> HIDE DEF h
  <2> QED BY <2>1
<1> QED BY <1>1, <1>2

\* A record takes whole words, and room for its header and its payload.
LEMMA RecordLen ==
  ASSUME NEW len \in Int, len >= -1
  PROVE  /\ record_len(len) \in Nat /\ record_len(len) % 4 = 0
         /\ record_len(len) >= 8 /\ record_len(len) >= 4 + len
<1>1. record_len(len) = ((len + 11) \div 8) * 8 /\ len + 11 \in Nat
  BY DEF record_len, HEADER, ALIGN
<1>2. (len + 11) \div 8 \in Nat /\ (len + 11) \div 8 >= 1
  BY <1>1
<1>3. ((len + 11) \div 8) * 8 >= len + 4
  BY <1>1
<1>4. (((len + 11) \div 8) * 8) % 4 = 0
  BY <1>2
<1> QED BY <1>1, <1>2, <1>3, <1>4

LEMMA PositionType ==
  ASSUME NEW x \in Nat
  PROVE  /\ Position(x) \in Nat /\ Position(x) < Capacity
         /\ ToEnd(x) \in Nat /\ 0 < ToEnd(x) /\ ToEnd(x) <= Capacity
         /\ Position(x) + ToEnd(x) = Capacity
<1>1. x \in Int
  OBVIOUS
<1>2. x % Capacity \in 0 .. Capacity - 1
  BY <1>1, CapacityType, ModInterval
<1> QED BY <1>2, CapacityType DEF Position, ToEnd

\* A cursor further on, as long as it stays in its lap, is further on in the buffer.
LEMMA PositionPlus ==
  ASSUME NEW x \in Nat, NEW k \in Nat, Position(x) + k < Capacity
  PROVE  Position(x + k) = Position(x) + k
<1>1. x \in Int /\ x + k \in Int
  OBVIOUS
<1>2. PICK q \in Int : x = Capacity * q + (x % Capacity)
  BY <1>1, CapacityType, ModInterval, Zenon
<1>3. x % Capacity \in Nat /\ (x % Capacity) + k \in 0 .. Capacity - 1
  <2>1. Position(x) \in Nat /\ Position(x) + k \in 0 .. Capacity - 1
    BY PositionType, CapacityType
  <2> QED BY <2>1 DEF Position
<1>4. Capacity * q \in Int
  BY CapacityType
<1>5. x + k = Capacity * q + ((x % Capacity) + k)
  BY <1>2, <1>3, <1>4
<1> QED BY <1>1, <1>3, <1>5, CapacityType, ModUnique DEF Position

\* The end of the buffer is the beginning of the next lap.
LEMMA PositionWrap ==
  ASSUME NEW x \in Nat
  PROVE  Position(x + ToEnd(x)) = 0
<1>1. x \in Int /\ x + ToEnd(x) \in Int
  BY PositionType
<1>2. PICK q \in Int : x = Capacity * q + (x % Capacity)
  BY <1>1, CapacityType, ModInterval, Zenon
<1>3. Capacity * q \in Int /\ x % Capacity \in Nat
  BY CapacityType, PositionType DEF Position
<1>4. x + ToEnd(x) = Capacity * q + Capacity
  BY <1>2, <1>3, CapacityType DEF ToEnd, Position
<1>5. Capacity * q + Capacity = Capacity * (q + 1) + 0
  BY CapacityType
<1>6. x + ToEnd(x) = Capacity * (q + 1) + 0
  BY <1>4, <1>5
<1> QED BY <1>1, <1>6, CapacityType, ModUnique DEF Position

\* The lanes are the aligned positions.
LEMMA LaneType == \A w : w \in Lanes <=> w \in Nat /\ w % 4 = 0 /\ w < Capacity
<1> TAKE w
<1>1. PICK k \in Nat : Capacity = 4 * k
  BY CapacityType
<1>2. Capacity \div 4 = k
  BY <1>1
<1>3. ASSUME w \in Lanes PROVE w \in Nat /\ w % 4 = 0 /\ w < Capacity
  <2>1. PICK i \in 0 .. k - 1 : w = 4 * i
    BY <1>2, <1>3 DEF Lanes, LANE
  <2> QED BY <2>1, <1>1
<1>4. ASSUME w \in Nat, w % 4 = 0, w < Capacity PROVE w \in Lanes
  <2>1. w = 4 * (w \div 4) /\ w \div 4 \in Nat
    BY <1>4
  <2>2. w \div 4 < k
    BY <2>1, <1>1, <1>4
  <2>3. w \div 4 \in 0 .. k - 1
    BY <2>1, <2>2
  <2> QED BY <2>1, <2>3, <1>2 DEF Lanes, LANE
<1> QED BY <1>3, <1>4

LEMMA PositionLane ==
  ASSUME NEW x \in Nat, x % 4 = 0
  PROVE  Position(x) \in Lanes /\ Position(x) % 4 = 0 /\ ToEnd(x) % 4 = 0
<1>1. x \in Int
  OBVIOUS
<1>2. PICK q \in Int : x = Capacity * q + (x % Capacity)
  BY <1>1, CapacityType, ModInterval, Zenon
<1>3. PICK k \in Nat : Capacity = 4 * k
  BY CapacityType
<1>4. Position(x) \in Nat /\ Position(x) < Capacity /\ Position(x) = x % Capacity
  BY PositionType DEF Position
<1>5. PICK j \in Nat : x = 4 * j
  <2>1. x = 4 * (x \div 4) /\ x \div 4 \in Nat
    OBVIOUS
  <2> QED BY <2>1
<1>6. k * q \in Int /\ Capacity * q = 4 * (k * q)
  BY <1>3
<1>7. Position(x) = 4 * (j - k * q)
  BY <1>2, <1>4, <1>5, <1>6
<1>8. Position(x) % 4 = 0
  <2> DEFINE h == j - k * q
  <2>1. h \in Int /\ Position(x) = 4 * h
    BY <1>6, <1>7
  <2> HIDE DEF h
  <2> QED BY <2>1
<1>9. ToEnd(x) % 4 = 0
  BY <1>3, <1>4, <1>8 DEF ToEnd
<1> QED BY <1>4, <1>8, <1>9, LaneType

\* Aligned cursors add up.
LEMMA Aligned ==
  ASSUME NEW x \in Nat, NEW y \in Nat, x % 4 = 0, y % 4 = 0
  PROVE  (x + y) % 4 = 0
OBVIOUS

\* Distinct cursors that are less than a ring apart have different positions.
LEMMA Apart ==
  ASSUME NEW x \in Nat, NEW y \in Nat, x < y, y < x + Capacity
  PROVE  Position(x) # Position(y)
BY CapacityType, ModDistinct DEF Position

\* A set of integers that is bounded from below has a least element.
LEMMA Least ==
  ASSUME NEW S \in SUBSET Nat, S # {}
  PROVE  \E x \in S : \A y \in S : x <= y
<1> DEFINE R == {ss \in Nat \X Nat : ss[1] < ss[2]}
<1>1. IsWellFoundedOn(R, Nat)
  BY NatLessThanWellFounded, Zenon DEF OpToRel
<1>2. PICK x \in S : \A y \in S : ~(<<y, x>> \in R)
  <2> HIDE DEF R
  <2> QED BY <1>1, WFMin, Zenon
<1>3. ASSUME NEW y \in S PROVE x <= y
  <2>1. x \in Nat /\ y \in Nat /\ ~(<<y, x>> \in R)
    BY <1>2
  <2>2. ~(y < x)
    BY <2>1
  <2> QED BY <2>1, <2>2
<1> QED BY <1>3

LEMMA MinLeast ==
  ASSUME NEW S \in SUBSET Int, S # {}, NEW b \in Nat, \A x \in S : -b <= x
  PROVE  Min(S) \in S /\ \A y \in S : Min(S) <= y
<1> DEFINE T == {x + b : x \in S}
<1>1. T \in SUBSET Nat /\ T # {}
  <2>1. ASSUME NEW x \in S PROVE x + b \in Nat
    BY <2>1
  <2> QED BY <2>1
<1>2. PICK t \in T : \A y \in T : t <= y
  <2> HIDE DEF T
  <2> QED BY <1>1, Least
<1>3. PICK x \in S : t = x + b
  <2>1. t \in T
    <3> HIDE DEF T
    <3> QED BY <1>2
  <2> QED BY <2>1
<1>4. \A y \in S : x <= y
  <2> TAKE y \in S
  <2>1. y + b \in T
    OBVIOUS
  <2>2. t <= y + b
    <3> HIDE DEF T
    <3> QED BY <1>2, <2>1
  <2>3. x \in Int /\ y \in Int
    BY <1>3
  <2> QED BY <1>3, <2>2, <2>3
<1>5. \E z \in S : \A y \in S : z <= y
  BY <1>3, <1>4
<1> QED BY <1>5 DEF Min

LEMMA MinOf ==
  ASSUME NEW x \in Int, NEW y \in Int
  PROVE  Min({x, y}) = IF x <= y THEN x ELSE y
<1>1. \E z \in {x, y} : \A w \in {x, y} : z <= w
  OBVIOUS
<1> QED BY <1>1 DEF Min

LEMMA MaxOf ==
  ASSUME NEW x \in Int, NEW y \in Int
  PROVE  Max({x, y}) = IF x >= y THEN x ELSE y
<1>1. \E z \in {x, y} : \A w \in {x, y} : z >= w
  OBVIOUS
<1> QED BY <1>1 DEF Max

-----------------------------------------------------------------------------
(* Frames *)

LEMMA LengthType == \A len \in AllLengths : len \in Nat
<1> TAKE len \in AllLengths
<1>1. PICK n \in 1 .. MaxPushes : len \in Lengths[n]
  BY AnchoredBytesAssumption DEF AllLengths, Range
<1> QED BY <1>1, AnchoredBytesAssumption

LEMMA RecordType ==
  ASSUME NEW r \in AllRecords
  PROVE  r[1] \in Nat /\ r = <<r[1], r[2]>>
<1>1. PICK n \in 1 .. MaxPushes, len \in AllLengths : r = Record(n, len)
  BY DEF AllRecords
<1>2. r[1] = len /\ r[2] = IF len = 0 THEN {} ELSE {n}
  BY <1>1 DEF Record
<1> QED BY <1>1, <1>2, LengthType DEF Record

LEMMA Framed ==
  ASSUME NEW f, WellFramed(f)
  PROVE  /\ f.start \in Nat /\ f.at \in Nat /\ f.end \in Nat /\ f.record[1] \in Nat
         /\ f.record = <<f.record[1], f.record[2]>>
         /\ f.start <= f.at /\ f.at + 8 <= f.end /\ f.end <= f.start + Capacity
         /\ record_len(f.record[1]) \in Nat /\ record_len(f.record[1]) >= 4 + f.record[1]
         /\ f.end = f.at + record_len(f.record[1])
<1>1. f.start \in Nat /\ f.at \in Nat /\ f.end \in Nat /\ f.record \in AllRecords
  BY DEF WellFramed, Frames
<1>2. f.record[1] \in Nat /\ f.record = <<f.record[1], f.record[2]>>
  BY <1>1, RecordType, Zenon
<1>3. /\ record_len(f.record[1]) \in Nat /\ record_len(f.record[1]) >= 4 + f.record[1]
      /\ record_len(f.record[1]) >= 8
  <2>1. f.record[1] \in Int /\ f.record[1] >= -1
    BY <1>2
  <2> QED BY <2>1, RecordLen
<1>4. ToEnd(f.start) \in Nat
  BY <1>1, PositionType
<1>5. f.start <= f.at
  BY <1>1, <1>4 DEF WellFramed
<1>6. f.end = f.at + record_len(f.record[1]) /\ f.end <= f.start + Capacity
  BY DEF WellFramed
<1> QED BY <1>1, <1>2, <1>3, <1>5, <1>6

LEMMA FrameIndex ==
  ASSUME FramesInv
  PROVE  /\ Len(frames) \in Nat /\ DOMAIN frames = 1 .. Len(frames)
         /\ frames \in Seq(Frames)
         /\ \A n \in DOMAIN frames : /\ n \in Nat /\ n > 0 /\ n <= Len(frames)
                                     /\ n - 1 \in 0 .. Len(frames) /\ n \in 0 .. Len(frames)
                                     /\ frames[n].start = End(n - 1) /\ frames[n].end = End(n)
                                     /\ WellFramed(frames[n])
<1>1. frames \in Seq(Frames)
  BY DEF FramesInv
<1>2. Len(frames) \in Nat /\ DOMAIN frames = 1 .. Len(frames)
  BY <1>1, LenProperties
<1> QED BY <1>1, <1>2 DEF FramesInv, End

LEMMA EndType ==
  ASSUME FramesInv, NEW n \in 0 .. Len(frames)
  PROVE  End(n) \in Nat /\ End(n) % 4 = 0 /\ End(n) <= tail /\ End(n) \in Ends
<1>0. Len(frames) \in Nat /\ DOMAIN frames = 1 .. Len(frames)
  BY FrameIndex
<1>1. ASSUME NEW m \in 0 .. Len(frames) PROVE End(m) \in Nat /\ End(m) % 4 = 0
  <2>1. CASE m = 0
    BY <2>1 DEF End
  <2>2. CASE m # 0
    <3>1. m \in DOMAIN frames
      BY <2>2, <1>0
    <3>2. WellFramed(frames[m])
      BY <3>1 DEF FramesInv
    <3> QED BY <2>2, <3>2 DEF End, WellFramed, Frames, LANE
  <2> QED BY <2>1, <2>2
<1>2. CASE n = Len(frames)
  BY <1>1, <1>2 DEF FramesInv, Ends
<1>3. CASE n # Len(frames)
  <2>1. n < Len(frames) /\ Len(frames) \in 0 .. Len(frames)
    <3>1. n < Len(frames)
      <4> DEFINE L == Len(frames)
      <4>1. L \in Nat /\ n \in 0 .. L /\ n # L
        BY <1>0, <1>3
      <4> HIDE DEF L
      <4>2. n < L
        BY <4>1
      <4> QED BY <4>2 DEF L
    <3>2. Len(frames) \in 0 .. Len(frames)
      BY <1>0
    <3> QED BY <3>1, <3>2
  <2>2. End(n) < End(Len(frames)) /\ tail = End(Len(frames))
    BY <2>1 DEF FramesInv
  <2>3. End(n) \in Nat /\ End(n) % 4 = 0 /\ End(Len(frames)) \in Nat
    BY <1>1, <2>1
  <2> QED BY <2>2, <2>3 DEF Ends
<1> QED BY <1>2, <1>3

LEMMA EndsType ==
  ASSUME FramesInv
  PROVE  /\ \A e \in Ends : e \in Nat /\ e % 4 = 0 /\ e <= tail
         /\ tail \in Ends /\ tail \in Nat /\ tail % 4 = 0 /\ 0 \in Ends
<1>1. \A e \in Ends : e \in Nat /\ e % 4 = 0 /\ e <= tail
  <2> TAKE e \in Ends
  <2>1. PICK n \in 0 .. Len(frames) : e = End(n)
    BY DEF Ends
  <2> QED BY <2>1, EndType
<1>2. Len(frames) \in 0 .. Len(frames) /\ 0 \in 0 .. Len(frames) /\ tail = End(Len(frames)) /\ 0 = End(0)
  BY FrameIndex DEF FramesInv, End
<1> QED BY <1>1, <1>2 DEF Ends

\* Where no record has begun yet, the log ends; elsewhere the next record starts.
LEMMA NextFrame ==
  ASSUME FramesInv, NEW c \in Ends, NEW e \in Ends, c < e
  PROVE  \E n \in DOMAIN frames : frames[n].start = c /\ frames[n].end <= e
<1>0. Len(frames) \in Nat /\ DOMAIN frames = 1 .. Len(frames)
  BY FrameIndex
<1>1. PICK k \in 0 .. Len(frames) : c = End(k)
  BY DEF Ends
<1>2. PICK m \in 0 .. Len(frames) : e = End(m)
  BY DEF Ends
<1>3. c \in Nat /\ e \in Nat
  BY EndsType
<1>4. k < m
  <2>1. CASE m < k
    <3>1. End(m) < End(k)
      BY <2>1 DEF FramesInv
    <3> QED BY <3>1, <1>1, <1>2, <1>3
  <2>2. CASE m = k
    BY <2>2, <1>1, <1>2, <1>3
  <2> QED BY <2>1, <2>2
<1>5. k + 1 \in DOMAIN frames /\ k + 1 \in 0 .. Len(frames) /\ (k + 1) - 1 = k
  BY <1>0, <1>4
<1>6. frames[k + 1].start = c /\ frames[k + 1].end = End(k + 1)
  BY <1>5, <1>1, FrameIndex
<1>7. End(k + 1) <= e
  <2>1. CASE m = k + 1
    BY <2>1, <1>2, <1>3
  <2>2. CASE m # k + 1
    <3>1. k + 1 < m
      BY <2>2, <1>4
    <3>2. End(k + 1) < End(m)
      BY <3>1, <1>5 DEF FramesInv
    <3> QED BY <3>2, <1>2, <1>3, EndType, <1>5
  <2> QED BY <2>1, <2>2
<1> QED BY <1>5, <1>6, <1>7

LEMMA FrameTail ==
  ASSUME FramesInv, NEW n \in DOMAIN frames
  PROVE  /\ WellFramed(frames[n]) /\ frames[n].end <= tail
         /\ frames[n].start \in Ends /\ frames[n].end \in Ends
<1>1. /\ n - 1 \in 0 .. Len(frames) /\ n \in 0 .. Len(frames)
      /\ frames[n].start = End(n - 1) /\ frames[n].end = End(n)
      /\ WellFramed(frames[n])
  BY FrameIndex
<1> QED BY <1>1, EndType

\* What depends on the log alone, as long as it does not grow.
LEMMA FramesKept ==
  ASSUME FramesInv, UNCHANGED <<frames, tail>>
  PROVE  FramesInv' /\ Ends' = Ends /\ DOMAIN frames' = DOMAIN frames
BY DEF FramesInv, Ends, End, WellFramed

-----------------------------------------------------------------------------
(* The record being pushed *)

LEMMA ProducerType ==
  ASSUME TypeOK
  PROVE  /\ p.next \in Nat /\ p.len \in Nat /\ p.cached_min \in Int /\ p.intent_floor \in Nat
         /\ p.pc \in Quiet \union Writing \union {"granted", "gone", "healing"}
         /\ p.raised_starving \in BOOLEAN /\ DOMAIN buffer = Lanes
BY DEF TypeOK, Producers

LEMMA Fits ==
  ASSUME TypeOK, NEW len \in Nat
  PROVE  /\ Pad(len) \in Nat /\ record_len(len) \in Nat /\ record_len(len) >= 8
         /\ Needed(len) \in Nat /\ Needed(len) = Pad(len) + record_len(len)
         /\ \/ Pad(len) = 0 /\ record_len(len) <= ToEnd(p.next)
            \/ Pad(len) = ToEnd(p.next) /\ Pad(len) > 0
<1>1. record_len(len) \in Nat /\ record_len(len) >= 8
  <2>1. len \in Int /\ len >= -1
    OBVIOUS
  <2> QED BY <2>1, RecordLen
<1>2. ToEnd(p.next) \in Nat /\ ToEnd(p.next) > 0
  BY ProducerType, PositionType
<1>3. /\ Pad(len) \in Nat
      /\ \/ Pad(len) = 0 /\ record_len(len) <= ToEnd(p.next)
         \/ Pad(len) = ToEnd(p.next) /\ Pad(len) > 0
  BY <1>1, <1>2 DEF Pad
<1> QED BY <1>1, <1>3 DEF Needed

\* Two values of the intent and of the record that a push may lead to.
LEMMA PendingType ==
  ASSUME TypeOK
  PROVE  /\ RecordAt \in Nat /\ NewTail \in Nat /\ p.next <= RecordAt /\ RecordAt + 8 <= NewTail
         /\ RecordAt = p.next + Pad(p.len) /\ NewTail = RecordAt + record_len(p.len)
<1>1. p.next \in Nat /\ p.len \in Nat
  BY ProducerType
<1>2. /\ Pad(p.len) \in Nat /\ record_len(p.len) \in Nat /\ record_len(p.len) >= 8
      /\ Needed(p.len) = Pad(p.len) + record_len(p.len)
  BY <1>1, Fits
<1> QED BY <1>1, <1>2 DEF RecordAt, NewTail

LEMMA PendingFramed ==
  ASSUME TypeOK, FramesInv, GateInv, ProducerInv, p.pc \in Writing
  PROVE  /\ WellFramed(Pending) /\ p.next = tail /\ NewTail <= tail_intent
         /\ Pending.start = p.next /\ Pending.at = RecordAt /\ Pending.end = NewTail
         /\ Pending.record = Record(pushes, p.len)
         /\ Pending.record[1] = p.len /\ Pending.record[2] = IF p.len = 0 THEN {} ELSE {pushes}
         /\ pushes \in 1 .. MaxPushes
<1>1. Running
  BY DEF Running, Writing
<1>2. /\ p.next = tail /\ p.len <= max_message_len /\ pushes > 0 /\ p.len \in AllLengths
      /\ NewTail <= tail_intent /\ NewTail <= p.cached_min + Capacity /\ p.cached_min <= fence_seq
  BY <1>1 DEF ProducerInv
<1>3. /\ p.next \in Nat /\ p.len \in Nat /\ p.cached_min \in Int /\ fence_seq \in Nat /\ tail \in Nat
      /\ pushes \in 0 .. MaxPushes /\ fence_seq <= tail /\ MaxPushes \in Nat
  BY ProducerType, AnchoredBytesAssumption DEF TypeOK, GateInv
<1>4. /\ RecordAt \in Nat /\ NewTail \in Nat /\ p.next <= RecordAt /\ RecordAt + 8 <= NewTail
      /\ RecordAt = p.next + Pad(p.len) /\ NewTail = RecordAt + record_len(p.len)
  BY PendingType
<1>5. /\ record_len(p.len) \in Nat /\ record_len(p.len) % 4 = 0 /\ record_len(p.len) >= 8
  <2>1. p.len \in Int /\ p.len >= -1
    BY <1>3
  <2> QED BY <2>1, RecordLen
<1>6. NewTail <= p.next + Capacity
  BY <1>2, <1>3, <1>4, CapacityType
<1>7. /\ Pending.start = p.next /\ Pending.at = RecordAt /\ Pending.end = NewTail
      /\ Pending.record = Record(pushes, p.len)
  BY DEF Pending
<1>8. /\ Pending.record[1] = p.len /\ Pending.record[2] = IF p.len = 0 THEN {} ELSE {pushes}
      /\ Pending.record \in AllRecords /\ pushes \in 1 .. MaxPushes
  <2>1. pushes \in 1 .. MaxPushes
    BY <1>2, <1>3
  <2>2. Record(pushes, p.len) \in AllRecords
    BY <2>1, <1>2 DEF AllRecords
  <2>3. Record(pushes, p.len)[1] = p.len /\ Record(pushes, p.len)[2] = IF p.len = 0 THEN {} ELSE {pushes}
    BY DEF Record
  <2> QED BY <2>1, <2>2, <2>3, <1>7
<1>9. p.next % 4 = 0 /\ ToEnd(p.next) % 4 = 0
  BY <1>2, <1>3, EndsType, PositionLane
<1>10. /\ Position(p.next) \in Nat /\ ToEnd(p.next) \in Nat
       /\ Position(p.next) + ToEnd(p.next) = Capacity /\ Position(p.next + ToEnd(p.next)) = 0
  BY <1>3, PositionType, PositionWrap
<1>11. CASE Pad(p.len) = 0 /\ record_len(p.len) <= ToEnd(p.next)
  <2>1. RecordAt = p.next
    BY <1>11, <1>3, <1>4
  <2>2. Position(RecordAt) + record_len(p.len) <= Capacity
    <3>1. Position(RecordAt) = Position(p.next)
      BY <2>1
    <3>2. Position(p.next) + record_len(p.len) <= Capacity
      BY <1>5, <1>10, <1>11, CapacityType
    <3> QED BY <3>1, <3>2
  <2>3. RecordAt % 4 = 0 /\ NewTail % 4 = 0
    BY <2>1, <1>3, <1>4, <1>5, <1>9, Aligned
  <2> QED BY <1>2, <1>3, <1>4, <1>6, <1>7, <1>8, <1>9, <2>1, <2>2, <2>3 DEF WellFramed, Frames, Pending, LANE
<1>12. CASE Pad(p.len) = ToEnd(p.next)
  <2>1. RecordAt = p.next + ToEnd(p.next)
    BY <1>12, <1>4
  <2>2. Position(RecordAt) = 0
    BY <2>1, <1>10
  <2>3. Position(RecordAt) + record_len(p.len) <= Capacity
    <3>1. record_len(p.len) <= Capacity
      BY <2>1, <1>3, <1>4, <1>5, <1>6, <1>10, CapacityType
    <3> QED BY <3>1, <2>2, <1>5
  <2>4. RecordAt % 4 = 0
    BY <2>1, <1>3, <1>9, <1>10, Aligned
  <2>5. NewTail % 4 = 0
    BY <2>4, <1>4, <1>5, Aligned
  <2> QED BY <1>2, <1>3, <1>4, <1>6, <1>7, <1>8, <1>9, <2>1, <2>2, <2>3, <2>4, <2>5 DEF WellFramed, Frames, Pending, LANE
<1>13. \/ Pad(p.len) = 0 /\ record_len(p.len) <= ToEnd(p.next)
       \/ Pad(p.len) = ToEnd(p.next)
  BY <1>3, Fits
<1> QED BY <1>2, <1>7, <1>8, <1>11, <1>12, <1>13

\* Every lane of a record is the position of a cursor within its frame.
LEMMA LaneOf ==
  ASSUME NEW f, WellFramed(f), DOMAIN buffer = Lanes, NEW w \in PayloadAt(Position(f.at), f.record[1])
  PROVE  /\ w \in Lanes /\ w \in Nat
         /\ \E x \in Nat : f.at <= x /\ x < f.end /\ w = Position(x)
<1>1. /\ f.at \in Nat /\ f.end \in Nat /\ f.record[1] \in Nat /\ f.end = f.at + record_len(f.record[1])
      /\ record_len(f.record[1]) \in Nat /\ record_len(f.record[1]) >= 4 + f.record[1]
  BY Framed
<1>2. w \in Lanes /\ Position(f.at) + 4 <= w /\ w < Position(f.at) + 4 + f.record[1]
  BY DEF PayloadAt, HEADER
<1>3. w \in Nat /\ w < Capacity /\ Position(f.at) \in Nat
  BY <1>2, LaneType, <1>1, PositionType
<1> DEFINE k == w - Position(f.at)
<1>4. k \in Nat /\ k < record_len(f.record[1]) /\ w = Position(f.at) + k
  BY <1>1, <1>2, <1>3
<1> HIDE DEF k
<1>5. Position(f.at + k) = w
  BY <1>1, <1>3, <1>4, PositionPlus
<1>6. f.at + k \in Nat /\ f.at <= f.at + k /\ f.at + k < f.end
  BY <1>1, <1>4
<1> QED BY <1>2, <1>3, <1>5, <1>6

LEMMA WriteSpares ==
  ASSUME TypeOK, WellFramed(Pending), WriteLanes,
         NEW x \in Nat, x < p.next, NewTail <= x + Capacity, Position(x) \in Lanes
  PROVE  buffer'[Position(x)] = buffer[Position(x)]
<1>1. /\ p.next \in Nat /\ p.len \in Nat /\ DOMAIN buffer = Lanes
      /\ RecordAt \in Nat /\ NewTail \in Nat /\ p.next <= RecordAt /\ RecordAt + 8 <= NewTail
  BY ProducerType, PendingType
<1>2. ASSUME NEW y \in Nat, p.next <= y, y < NewTail PROVE Position(x) # Position(y)
  <2>1. x < y /\ y < x + Capacity
    BY <1>1, <1>2, CapacityType
  <2> QED BY <2>1, Apart
<1>3. Position(x) # Position(RecordAt) /\ Position(x) # Position(p.next)
  <2>1. RecordAt < NewTail /\ p.next < NewTail
    BY <1>1
  <2> QED BY <1>1, <1>2, <2>1
<1>4. Position(x) \notin PayloadAt(Position(RecordAt), p.len)
  <2> SUFFICES ASSUME Position(x) \in PayloadAt(Position(RecordAt), p.len) PROVE FALSE
    OBVIOUS
  <2>1. Pending.at = RecordAt /\ Pending.end = NewTail /\ Pending.record[1] = p.len
    BY DEF Pending, Record
  <2>2. Position(x) \in PayloadAt(Position(Pending.at), Pending.record[1])
    BY <2>1
  <2>3. PICK y \in Nat : Pending.at <= y /\ y < Pending.end /\ Position(x) = Position(y)
    BY <1>1, <2>2, LaneOf
  <2>4. p.next <= y /\ y < NewTail
    BY <1>1, <2>1, <2>3
  <2> QED BY <1>2, <2>3, <2>4
<1>5. buffer'[Position(x)] =
        IF Position(x) = Position(RecordAt) THEN p.len
        ELSE IF Position(x) \in PayloadAt(Position(RecordAt), p.len) THEN pushes
        ELSE IF Position(x) = Position(p.next) /\ Pad(p.len) > 0 THEN PADDING ELSE buffer[Position(x)]
  BY <1>1 DEF WriteLanes
<1> QED BY <1>3, <1>4, <1>5

LEMMA LanesKept ==
  ASSUME TypeOK, WriteLanes
  PROVE  DOMAIN buffer' = Lanes /\ buffer' \in [Lanes -> Int]
<1>1. DOMAIN buffer = Lanes /\ buffer \in [Lanes -> Int]
  BY DEF TypeOK
<1>2. p.len \in Int /\ pushes \in Int /\ PADDING \in Int
  BY AnchoredBytesAssumption, ProducerType DEF TypeOK, PADDING
<1>3. \A w \in Lanes : buffer'[w] \in Int
  <2> TAKE w \in Lanes
  <2>1. \/ buffer'[w] = p.len \/ buffer'[w] = pushes \/ buffer'[w] = PADDING \/ buffer'[w] = buffer[w]
    BY <1>1 DEF WriteLanes
  <2>2. buffer[w] \in Int
    BY <1>1
  <2> QED BY <1>2, <2>1, <2>2
<1> QED BY <1>1, <1>3 DEF WriteLanes

\* The record's payload is as it was if each of its lanes is.
LEMMA SamePayload ==
  ASSUME NEW position, NEW len, DOMAIN buffer' = DOMAIN buffer,
         \A w \in PayloadAt(position, len) : buffer'[w] = buffer[w]
  PROVE  /\ PayloadAt(position, len)' = PayloadAt(position, len)
         /\ {buffer'[w] : w \in PayloadAt(position, len)'} = {buffer[w] : w \in PayloadAt(position, len)}
<1>1. PayloadAt(position, len)' = PayloadAt(position, len)
  BY DEF PayloadAt
<1> QED BY <1>1

LEMMA HeldOver ==
  ASSUME TypeOK, WellFramed(Pending), WriteLanes, NewTail <= tail_intent,
         NEW f, WellFramed(f), f.end <= p.next, Held(f)
  PROVE  Held(f)'
<1>1. /\ f.start \in Nat /\ f.at \in Nat /\ f.end \in Nat /\ f.start <= f.at /\ f.at + 8 <= f.end
      /\ f.start % 4 = 0 /\ f.at % 4 = 0
  BY Framed DEF WellFramed, LANE
<1>2. tail_intent' = tail_intent /\ tail_intent \in Nat /\ NewTail \in Nat /\ p.next \in Nat
  BY ProducerType, PendingType DEF WriteLanes, counters, TypeOK
<1>3. HeldPadding(f)'
  <2> SUFFICES ASSUME f.at # f.start, tail_intent <= f.start + Capacity
               PROVE  buffer'[Position(f.start)] = PADDING
    BY <1>2 DEF HeldPadding
  <2>1. buffer[Position(f.start)] = PADDING
    BY DEF Held, HeldPadding
  <2>2. f.start < p.next /\ NewTail <= f.start + Capacity
    BY <1>1, <1>2, CapacityType
  <2>3. Position(f.start) \in Lanes
    BY <1>1, PositionLane
  <2> QED BY <1>1, <2>1, <2>2, <2>3, WriteSpares
<1>4. HeldRecord(f)'
  <2> SUFFICES ASSUME tail_intent <= f.at + Capacity
               PROVE  <<buffer'[Position(f.at)],
                        {buffer'[w] : w \in PayloadAt(Position(f.at), f.record[1])'}>> = f.record
    BY <1>2 DEF HeldRecord
  <2>1. <<buffer[Position(f.at)], {buffer[w] : w \in PayloadAt(Position(f.at), f.record[1])}>> = f.record
    BY DEF Held, HeldRecord
  <2>2. f.at < p.next /\ NewTail <= f.at + Capacity
    BY <1>1, <1>2, CapacityType
  <2>3. Position(f.at) \in Lanes
    BY <1>1, PositionLane
  <2>4. buffer'[Position(f.at)] = buffer[Position(f.at)]
    BY <1>1, <2>2, <2>3, WriteSpares
  <2>5. \A w \in PayloadAt(Position(f.at), f.record[1]) : buffer'[w] = buffer[w]
    <3> TAKE w \in PayloadAt(Position(f.at), f.record[1])
    <3>1. w \in Lanes
      BY ProducerType, LaneOf
    <3>2. PICK x \in Nat : f.at <= x /\ x < f.end /\ w = Position(x)
      BY ProducerType, LaneOf
    <3>3. x < p.next /\ NewTail <= x + Capacity
      BY <1>1, <1>2, <2>2, <3>2, CapacityType
    <3> QED BY <3>1, <3>2, <3>3, WriteSpares
  <2>6. {buffer'[w] : w \in PayloadAt(Position(f.at), f.record[1])'}
          = {buffer[w] : w \in PayloadAt(Position(f.at), f.record[1])}
    <3>1. DOMAIN buffer' = DOMAIN buffer
      BY LanesKept, ProducerType
    <3> QED BY <3>1, <2>5, SamePayload
  <2> QED BY <2>1, <2>4, <2>6
<1> QED BY <1>3, <1>4 DEF Held

\* What was written is what is held.
LEMMA HeldNow ==
  ASSUME TypeOK, WellFramed(Pending), WriteLanes, NewTail <= p.next + Capacity
  PROVE  Held(Pending)'
<1>0. /\ p.next \in Nat /\ p.len \in Nat /\ DOMAIN buffer = Lanes /\ DOMAIN buffer' = Lanes
      /\ RecordAt \in Nat /\ NewTail \in Nat /\ RecordAt = p.next + Pad(p.len)
      /\ NewTail = RecordAt + record_len(p.len)
  BY ProducerType, PendingType, LanesKept
<1>1. /\ Pending' = Pending
      /\ Pending.start = p.next /\ Pending.at = RecordAt /\ Pending.record = Record(pushes, p.len)
  BY DEF Pending, WriteLanes, RecordAt, NewTail, Pad, Needed, history
<1>2. Record(pushes, p.len) = <<p.len, IF p.len = 0 THEN {} ELSE {pushes}>>
  BY DEF Record
<1>3. /\ RecordAt % 4 = 0 /\ p.next % 4 = 0 /\ record_len(p.len) \in Nat /\ record_len(p.len) >= 4 + p.len
      /\ Position(RecordAt) + record_len(p.len) <= Capacity
  <2>1. Pending.record[1] = p.len
    BY <1>1, <1>2
  <2>2. /\ record_len(Pending.record[1]) \in Nat /\ record_len(Pending.record[1]) >= 4 + Pending.record[1]
    BY Framed
  <2>3. /\ Pending.at % 4 = 0 /\ Pending.start % 4 = 0
        /\ Position(Pending.at) + record_len(Pending.record[1]) <= Capacity
    BY DEF WellFramed, LANE
  <2>4. Position(Pending.at) = Position(RecordAt) /\ record_len(Pending.record[1]) = record_len(p.len)
    BY <1>1, <2>1
  <2> QED BY <1>1, <2>1, <2>2, <2>3, <2>4
<1>4. /\ Position(RecordAt) \in Lanes /\ Position(RecordAt) \in Nat /\ Position(RecordAt) % 4 = 0
      /\ Position(p.next) \in Lanes /\ Position(p.next) \in Nat
  BY <1>0, <1>3, PositionLane, PositionType
<1>5. \A w \in Lanes : buffer'[w] =
        IF w = Position(RecordAt) THEN p.len
        ELSE IF w \in PayloadAt(Position(RecordAt), p.len) THEN pushes
        ELSE IF w = Position(p.next) /\ Pad(p.len) > 0 THEN PADDING ELSE buffer[w]
  BY <1>0 DEF WriteLanes
<1>6. PayloadAt(Position(RecordAt), p.len)
        = {w \in Lanes : Position(RecordAt) + 4 <= w /\ w < Position(RecordAt) + 4 + p.len}
  BY <1>0 DEF PayloadAt, HEADER
<1>7. \A w \in PayloadAt(Position(RecordAt), p.len) : buffer'[w] = pushes
  <2> TAKE w \in PayloadAt(Position(RecordAt), p.len)
  <2>1. w \in Lanes /\ w \in Nat /\ Position(RecordAt) + 4 <= w
    BY <1>6, LaneType
  <2>2. w # Position(RecordAt)
    BY <1>4, <2>1
  <2> QED BY <1>5, <2>1, <2>2
<1>8. {buffer'[w] : w \in PayloadAt(Position(RecordAt), p.len)} = IF p.len = 0 THEN {} ELSE {pushes}
  <2>1. CASE p.len = 0
    <3>1. \A w \in Lanes : ~(Position(RecordAt) + 4 <= w /\ w < Position(RecordAt) + 4 + p.len)
      BY <2>1, LaneType, <1>4
    <3>2. PayloadAt(Position(RecordAt), p.len) = {}
      BY <3>1, <1>6
    <3> QED BY <2>1, <3>2
  <2>2. CASE p.len # 0
    <3>1. Position(RecordAt) + 4 \in Nat /\ (Position(RecordAt) + 4) % 4 = 0
      BY <1>4
    <3>2. Position(RecordAt) + 4 < Capacity
      BY <2>2, <1>0, <1>3, <1>4, CapacityType
    <3>3. Position(RecordAt) + 4 \in Lanes
      BY <3>1, <3>2, LaneType
    <3>4. Position(RecordAt) + 4 \in PayloadAt(Position(RecordAt), p.len)
      BY <1>0, <1>4, <1>6, <2>2, <3>3
    <3> QED BY <2>2, <3>4, <1>7
  <2> QED BY <2>1, <2>2
<1>9. PayloadAt(Position(RecordAt), p.len)' = PayloadAt(Position(RecordAt), p.len)
  <2>1. RecordAt' = RecordAt /\ p'.len = p.len
    BY DEF WriteLanes, RecordAt, Pad
  <2> QED BY <1>0, <2>1 DEF PayloadAt, Position
<1>10. HeldRecord(Pending)'
  <2>1. buffer'[Position(RecordAt)] = p.len
    BY <1>4, <1>5
  <2>2. /\ Position(Pending.at)' = Position(RecordAt) /\ Pending'.record = Record(pushes, p.len)
        /\ Pending'.record[1] = p.len
    BY <1>1, <1>2 DEF Position
  <2>3. PayloadAt(Position(Pending.at), Pending.record[1])' = PayloadAt(Position(RecordAt), p.len)
    BY <1>0, <2>2 DEF PayloadAt
  <2>4. <<buffer'[Position(RecordAt)], {buffer'[w] : w \in PayloadAt(Position(RecordAt), p.len)}>>
          = Pending'.record
    BY <1>2, <1>8, <2>1, <2>2
  <2> QED BY <2>2, <2>3, <2>4 DEF HeldRecord
<1>11. HeldPadding(Pending)'
  <2> SUFFICES ASSUME RecordAt # p.next PROVE buffer'[Position(p.next)] = PADDING
    BY <1>1 DEF HeldPadding, Position
  <2>1. Pad(p.len) = ToEnd(p.next) /\ Pad(p.len) > 0
    BY <1>0, Fits
  <2>2. Position(RecordAt) = 0
    BY <1>0, <2>1, PositionWrap
  <2>3. record_len(p.len) <= Position(p.next)
    <3>1. Position(p.next) + ToEnd(p.next) = Capacity /\ ToEnd(p.next) \in Nat
      BY <1>0, PositionType
    <3> QED BY <3>1, <1>0, <1>3, <1>4, <2>1, CapacityType
  <2>4. Position(p.next) >= 4 + p.len /\ Position(p.next) >= 4
    BY <1>0, <1>3, <1>4, <2>3
  <2>5. Position(p.next) # Position(RecordAt)
    BY <1>4, <2>2, <2>4
  <2>6. Position(p.next) \notin PayloadAt(Position(RecordAt), p.len)
    <3> SUFFICES ASSUME Position(p.next) \in PayloadAt(Position(RecordAt), p.len) PROVE FALSE
      OBVIOUS
    <3>1. Position(p.next) < Position(RecordAt) + 4 + p.len
      BY <1>6
    <3>2. Position(p.next) < 4 + p.len
      BY <3>1, <2>2, <1>0
    <3> QED BY <3>2, <2>4, <1>0, <1>4
  <2> QED BY <1>4, <1>5, <2>1, <2>5, <2>6
<1> QED BY <1>10, <1>11 DEF Held

-----------------------------------------------------------------------------
(* What a step leaves as it is *)

LEMMA HeldStill ==
  ASSUME NEW f, WellFramed(f), Held(f), UNCHANGED buffer,
         tail_intent \in Nat, tail_intent' \in Nat, tail_intent <= tail_intent'
  PROVE  Held(f)'
<1>1. f.start \in Nat /\ f.at \in Nat
  BY Framed
<1>2. HeldPadding(f)'
  <2> SUFFICES ASSUME f.at # f.start, tail_intent' <= f.start + Capacity
               PROVE  buffer'[Position(f.start)] = PADDING
    BY DEF HeldPadding
  <2>1. tail_intent <= f.start + Capacity
    BY <1>1, CapacityType
  <2> QED BY <2>1 DEF Held, HeldPadding
<1>3. HeldRecord(f)'
  <2> SUFFICES ASSUME tail_intent' <= f.at + Capacity
               PROVE  <<buffer'[Position(f.at)],
                        {buffer'[w] : w \in PayloadAt(Position(f.at), f.record[1])'}>> = f.record
    BY DEF HeldRecord
  <2>1. tail_intent <= f.at + Capacity
    BY <1>1, CapacityType
  <2>2. PayloadAt(Position(f.at), f.record[1])' = PayloadAt(Position(f.at), f.record[1])
    BY DEF PayloadAt
  <2> QED BY <2>1, <2>2 DEF Held, HeldRecord
<1> QED BY <1>2, <1>3 DEF Held

LEMMA LogStill ==
  ASSUME FramesInv, ContentsInv, UNCHANGED <<buffer, frames, tail>>,
         tail_intent \in Nat, tail_intent' \in Nat, tail_intent <= tail_intent'
  PROVE  \A n \in DOMAIN frames' : Held(frames[n])'
<1> SUFFICES ASSUME NEW n \in DOMAIN frames PROVE Held(frames[n])'
  OBVIOUS
<1>1. PICK f : f = frames[n]
  OBVIOUS
<1>2. WellFramed(f) /\ Held(f)
  BY <1>1 DEF FramesInv, ContentsInv
<1>3. Held(f)'
  BY <1>2, HeldStill
<1>4. f = frames'[n]
  BY <1>1
<1> QED BY <1>3, <1>4 DEF Held, HeldPadding, HeldRecord

LEMMA AnchorStill ==
  ASSUME NEW i \in Anchors, AnchorOk(i), UNCHANGED <<frames, a[i], slots[i]>>
  PROVE  AnchorOk(i)'
BY DEF AnchorOk, StandsAt, CaughtUp, Placed, Live, Ends, End

LEMMA AnchorsStill ==
  ASSUME AnchorInv, UNCHANGED <<frames, a, slots>>
  PROVE  AnchorInv'
BY AnchorStill DEF AnchorInv

LEMMA GateStill ==
  ASSUME GateInv, UNCHANGED <<counters, slots, a, fence_seq, cached_cursors>>
  PROVE  GateInv'
BY DEF GateInv, GateOk, counters, Live

-----------------------------------------------------------------------------
(* The gate *)

\* The steps of a push before its record is written: the log, the buffer, the counters
\* and the anchors stay as they are.
LEMMA GateStep ==
  ASSUME IInv, UNCHANGED <<buffer, counters, slots, frames, a>>,
         TypeOK', GateInv', ProducerInv', p'.pc \notin {"filled", "pointed"}
  PROVE  IInv'
<1>1. FramesInv'
  BY FramesKept DEF IInv, counters
<1>2. \A n \in DOMAIN frames' : Held(frames[n])'
  <2>1. tail_intent \in Nat /\ tail_intent' = tail_intent /\ tail' = tail
    BY DEF IInv, TypeOK, Producers, counters
  <2> QED BY <2>1, LogStill DEF IInv
<1>3. ContentsInv'
  BY <1>2 DEF ContentsInv
<1>4. AnchorInv'
  BY AnchorsStill DEF IInv
<1> QED BY <1>1, <1>3, <1>4 DEF IInv

LEMMA NeedsType ==
  ASSUME TypeOK, NEW n \in Nat, NEW m \in Int
  PROVE  Lacks(n, m) <=> p.next + n > m + Capacity
BY ProducerType, CapacityType DEF Lacks

LEMMA FrameInv ==
  ASSUME IInv, NEW len \in AllLengths, Frame(len)
  PROVE  IInv'
<1>1. /\ p.pc = "idle" /\ pushes < MaxPushes /\ len \in Lengths[pushes + 1] /\ len <= max_message_len
      /\ UNCHANGED <<buffer, counters, closed, slots, gate, history, a, observer>>
      /\ IF Lacks(Needed(len), p.cached_min)
         THEN p' = [p EXCEPT !.pc = "lacking", !.len = len] /\ UNCHANGED starving
         ELSE Granted(len)
  BY DEF Frame
<1>2. len \in Nat /\ Needed(len) \in Nat
  BY LengthType, Fits DEF IInv
<1>3. p' = [p EXCEPT !.pc = "lacking", !.len = len] \/ p' = [p EXCEPT !.pc = "granted", !.len = len, !.raised_starving = FALSE]
  BY <1>1 DEF Granted
<1>4. starving' \in Nat
  BY <1>1 DEF Granted, IInv, TypeOK
<1>5. TypeOK'
  BY <1>1, <1>2, <1>3, <1>4 DEF IInv, TypeOK, Producers, counters, gate, history, Quiet, Writing
<1>6. GateInv'
  BY <1>1, GateStill DEF IInv, gate
<1>7. p'.next = p.next /\ p'.len = len /\ p'.cached_min = p.cached_min /\ p'.intent_floor = p.intent_floor
  BY <1>3 DEF IInv, TypeOK, Producers
<1>8. p'.pc = "lacking" \/ (p'.pc = "granted" /\ ~Lacks(Needed(len), p.cached_min))
  BY <1>1 DEF IInv, TypeOK, Producers, Granted
<1>9. NewTail' = p.next + Needed(len)
  BY <1>7 DEF NewTail, Needed, Pad
<1>10. /\ Running /\ p.next = tail /\ p.intent_floor <= tail_intent /\ p.cached_min <= fence_seq
       /\ \A i \in Anchors : Live(i) => p.cached_min <= slots[i]
       /\ tail_intent \in {tail, p.intent_floor}
  BY <1>1 DEF IInv, ProducerInv, Running, Quiet
<1>11. p'.pc = "granted" => NewTail' <= p'.cached_min + Capacity
  <2> SUFFICES ASSUME p'.pc = "granted" PROVE NewTail' <= p'.cached_min + Capacity
    OBVIOUS
  <2>1. ~Lacks(Needed(len), p.cached_min)
    BY <1>8
  <2> QED BY <2>1, <1>2, <1>7, <1>9, NeedsType, ProducerType, CapacityType DEF IInv
<1>12. ProducerInv'
  BY <1>1, <1>7, <1>8, <1>10, <1>11 DEF ProducerInv, Sized, Writing, Quiet, Live, counters, gate, history, Running
<1> QED BY <1>1, <1>5, <1>6, <1>8, <1>12, GateStep DEF history

\* What a scan of the registry finds, with the minimum taken from it.
LEMMA ScanFinds ==
  ASSUME TypeOK, GateInv, NEW needed \in Nat, NEW old \in [Anchors -> Int], NEW cursors, NEW min,
         \A i \in Anchors : -Capacity <= old[i] /\ (Live(i) => old[i] <= slots[i] \/ tail + needed - old[i] > Capacity),
         cursors = Scanned(tail, old, needed), min = NewMin(tail, cursors)
  PROVE  /\ cursors \in [Anchors -> Int]
         /\ \A i \in Anchors : /\ -Capacity <= cursors[i]
                               /\ Live(i) => cursors[i] <= slots[i] /\ min <= slots[i]
                               /\ ~Live(i) => cursors[i] = old[i]
         /\ min \in Int /\ min <= tail
<1>1. \A i \in Anchors : slots[i] \in Int /\ (Live(i) => slots[i] \in Nat /\ slots[i] <= tail) /\ old[i] \in Int
  BY DEF TypeOK, GateInv, GateOk, Live, DETACHED
<1>2. tail \in Nat
  BY DEF TypeOK
<1>3. \A i \in Anchors : cursors[i] = IF Live(i) /\ tail + needed - old[i] > Capacity THEN slots[i] ELSE old[i]
  BY DEF Scanned
<1>4. cursors \in [Anchors -> Int]
  BY <1>1 DEF Scanned
<1>5. \A i \in Anchors : /\ -Capacity <= cursors[i]
                         /\ Live(i) => cursors[i] <= slots[i]
                         /\ ~Live(i) => cursors[i] = old[i]
  BY <1>1, <1>2, <1>3, CapacityType
<1>6. CASE \E i \in Anchors : Live(i)
  <2> DEFINE S == {cursors[i] : i \in {i \in Anchors : Live(i)}}
  <2>1. S \in SUBSET Int /\ S # {} /\ \A x \in S : -Capacity <= x
    BY <1>4, <1>5, <1>6
  <2>2. Min(S) \in S /\ \A y \in S : Min(S) <= y
    <3> HIDE DEF S
    <3> QED BY <2>1, CapacityType, MinLeast
  <2>3. min = Min(S)
    BY <1>6 DEF NewMin
  <2>4. PICK j \in Anchors : Live(j) /\ min = cursors[j]
    BY <2>2, <2>3
  <2>5. min \in Int /\ min <= tail
    BY <2>4, <1>1, <1>2, <1>4, <1>5
  <2>6. ASSUME NEW i \in Anchors, Live(i) PROVE min <= slots[i]
    <3>1. cursors[i] \in S
      BY <2>6
    <3>2. min <= cursors[i]
      <4> HIDE DEF S
      <4> QED BY <3>1, <2>2, <2>3
    <3> QED BY <3>2, <1>1, <1>4, <1>5, <2>5, <2>6
  <2> QED BY <1>4, <1>5, <2>5, <2>6
<1>7. CASE ~ \E i \in Anchors : Live(i)
  <2>1. min = tail - 1
    BY <1>7 DEF NewMin
  <2> QED BY <1>2, <1>4, <1>5, <1>7, <2>1
<1> QED BY <1>6, <1>7

\* A scan, a fence before it: the gate is where the anchors are.
LEMMA ScanGate ==
  ASSUME TypeOK, GateInv, NEW needed \in Nat, NEW old \in [Anchors -> Int],
         \A i \in Anchors : -Capacity <= old[i] /\ (Live(i) => old[i] <= slots[i] \/ tail + needed - old[i] > Capacity),
         \A i \in Anchors : ~Live(i) => old[i] <= a[i].read_cursor \/ old[i] <= tail,
         cached_cursors' = Scanned(tail, old, needed), fence_seq' = tail,
         UNCHANGED <<tail_intent, tail, slots, a>>
  PROVE  GateInv'
<1>1. \A i \in Anchors : /\ -Capacity <= cached_cursors'[i]
                         /\ Live(i) => cached_cursors'[i] <= slots[i]
                         /\ ~Live(i) => cached_cursors'[i] = old[i]
  BY ScanFinds
<1>2. \A i \in Anchors : GateOk(i)'
  <2> TAKE i \in Anchors
  <2>1. GateOk(i)
    BY DEF GateInv
  <2> QED BY <1>1, <2>1 DEF GateOk, Live
<1>3. tail_intent <= tail + Capacity
  BY CapacityType DEF GateInv, TypeOK
<1> QED BY <1>2, <1>3 DEF GateInv, TypeOK

\* The scan of has_space, after its fence: what it finds, and what it does to the gate.
LEMMA RescanFinds ==
  ASSUME IInv, Running, NEW cursors, NEW min, cursors = Scanned(p.next, cached_cursors, Needed(p.len)),
         min = NewMin(p.next, cursors), cached_cursors' = cursors, fence_seq' = tail,
         UNCHANGED <<counters, slots, a>>
  PROVE  /\ cursors \in [Anchors -> Int] /\ min \in Int /\ min <= tail
         /\ \A i \in Anchors : Live(i) => min <= slots[i]
         /\ GateInv'
<1>1. p.next = tail
  BY DEF IInv, ProducerInv
<1>2. Needed(p.len) \in Nat /\ cached_cursors \in [Anchors -> Int] /\ TypeOK /\ GateInv
  BY Fits, ProducerType DEF IInv, TypeOK, Producers
<1>3. \A i \in Anchors : /\ -Capacity <= cached_cursors[i]
                         /\ Live(i) => cached_cursors[i] <= slots[i]
                         /\ ~Live(i) => cached_cursors[i] <= a[i].read_cursor \/ cached_cursors[i] <= tail
  <2> TAKE i \in Anchors
  <2>1. GateOk(i) /\ cached_cursors[i] \in Int /\ fence_seq \in Nat /\ tail \in Nat /\ fence_seq <= tail
    BY DEF IInv, GateInv, TypeOK
  <2> QED BY <2>1 DEF GateOk
<1>4. /\ cursors \in [Anchors -> Int] /\ min \in Int /\ min <= tail
      /\ \A i \in Anchors : Live(i) => min <= slots[i]
  BY <1>1, <1>2, <1>3, ScanFinds
<1>5. GateInv'
  BY <1>1, <1>2, <1>3, ScanGate DEF counters
<1> QED BY <1>4, <1>5

LEMMA RescanInv ==
  ASSUME IInv, Rescan
  PROVE  IInv'
<1> DEFINE cursors == Scanned(p.next, cached_cursors, Needed(p.len))
           min == NewMin(p.next, cursors)
<1>1. /\ p.pc = "lacking" /\ cached_cursors' = cursors /\ fence_seq' = tail
      /\ p' = [p EXCEPT !.cached_min = min,
                        !.pc = IF Lacks(Needed(p.len), min) THEN "starved" ELSE "granted"]
      /\ UNCHANGED <<shared, history, a, observer>>
  BY DEF Rescan
<1>2. /\ Running /\ p.next = tail /\ p.intent_floor <= tail_intent /\ p.len <= max_message_len
      /\ pushes < MaxPushes /\ p.len \in Lengths[pushes + 1] /\ tail_intent \in {tail, p.intent_floor}
  BY <1>1 DEF IInv, ProducerInv, Running, Quiet, Sized
<1>3. /\ cursors \in [Anchors -> Int] /\ min \in Int /\ min <= tail
      /\ \A i \in Anchors : Live(i) => min <= slots[i]
      /\ GateInv'
  BY <1>1, <1>2, RescanFinds DEF shared
<1> HIDE DEF cursors, min
<1>4. TypeOK'
  BY <1>1, <1>3 DEF IInv, TypeOK, Producers, shared, counters, history, Quiet, Writing
<1>5. /\ p'.next = p.next /\ p'.len = p.len /\ p'.cached_min = min /\ p'.intent_floor = p.intent_floor
      /\ p'.pc = IF Lacks(Needed(p.len), min) THEN "starved" ELSE "granted"
  BY <1>1 DEF IInv, TypeOK, Producers
<1>6. NewTail' = p.next + Needed(p.len) /\ Needed(p.len) \in Nat
  BY <1>5, Fits, ProducerType DEF NewTail, Needed, Pad, IInv
<1>7. p'.pc = "granted" => NewTail' <= p'.cached_min + Capacity
  <2> SUFFICES ASSUME p'.pc = "granted" PROVE NewTail' <= min + Capacity
    BY <1>5
  <2>1. ~Lacks(Needed(p.len), min)
    BY <1>5
  <2> QED BY <2>1, <1>3, <1>6, NeedsType, ProducerType, CapacityType DEF IInv
<1>8. ProducerInv'
  BY <1>1, <1>2, <1>3, <1>5, <1>7
     DEF ProducerInv, Sized, Writing, Quiet, Live, shared, counters, history, Running
<1> QED BY <1>1, <1>3, <1>4, <1>5, <1>8, GateStep DEF history, shared

LEMMA RaiseStarvingInv ==
  ASSUME IInv, RaiseStarving
  PROVE  IInv'
<1>1. /\ p.pc = "starved" /\ starving' = Needed(p.len)
      /\ UNCHANGED <<buffer, counters, closed, slots, gate, history, a, observer>>
      /\ \/ p' = [p EXCEPT !.raised_starving = TRUE, !.pc = "waiting"]
         \/ p' = [p EXCEPT !.raised_starving = TRUE, !.pc = "idle", !.len = 0]
  BY DEF RaiseStarving
<1>2. Needed(p.len) \in Nat
  BY Fits, ProducerType DEF IInv
<1>3. TypeOK'
  <2>1. p \in Producers
    BY DEF IInv, TypeOK, Producers
  <2>2. p' \in Producers
    <3>1. CASE p' = [p EXCEPT !.raised_starving = TRUE, !.pc = "waiting"]
      BY <3>1, <2>1 DEF Producers, Quiet
    <3>2. CASE p' = [p EXCEPT !.raised_starving = TRUE, !.pc = "idle", !.len = 0]
      BY <3>2, <2>1 DEF Producers, Quiet
    <3> QED BY <1>1, <3>1, <3>2
  <2> QED BY <1>1, <1>2, <2>2 DEF IInv, TypeOK, counters, gate, history
<1>4. /\ p'.next = p.next /\ p'.cached_min = p.cached_min /\ p'.intent_floor = p.intent_floor
      /\ (p'.pc = "waiting" /\ p'.len = p.len) \/ p'.pc = "idle"
  BY <1>1 DEF IInv, TypeOK, Producers
<1>5. GateInv'
  BY <1>1, GateStill DEF IInv, gate
<1>6. ProducerInv'
  BY <1>1, <1>4 DEF IInv, ProducerInv, Sized, Writing, Quiet, Live, counters, gate, history, Running
<1> QED BY <1>1, <1>3, <1>4, <1>5, <1>6, GateStep DEF history

LEMMA WaitForSpaceInv ==
  ASSUME IInv, WaitForSpace
  PROVE  IInv'
<1> DEFINE cursors == Scanned(p.next, cached_cursors, Needed(p.len))
           min == NewMin(p.next, cursors)
<1>1. /\ p.pc = "waiting" /\ cached_cursors' = cursors /\ fence_seq' = tail
      /\ IF Lacks(Needed(p.len), min)
         THEN p' = [p EXCEPT !.cached_min = min] /\ UNCHANGED starving
         ELSE \E kept \in BOOLEAN :
                /\ p' = [p EXCEPT !.cached_min = min, !.pc = "granted", !.raised_starving = kept]
                /\ starving' = IF kept THEN starving ELSE 0
      /\ UNCHANGED <<buffer, counters, closed, slots, history, a, observer>>
  BY DEF WaitForSpace
<1>2. /\ Running /\ p.next = tail /\ p.intent_floor <= tail_intent /\ p.len <= max_message_len
      /\ pushes < MaxPushes /\ p.len \in Lengths[pushes + 1] /\ tail_intent \in {tail, p.intent_floor}
  BY <1>1 DEF IInv, ProducerInv, Running, Quiet, Sized
<1>3. /\ cursors \in [Anchors -> Int] /\ min \in Int /\ min <= tail
      /\ \A i \in Anchors : Live(i) => min <= slots[i]
      /\ GateInv'
  BY <1>1, <1>2, RescanFinds
<1> HIDE DEF cursors, min
<1>4. TypeOK'
  <2>1. p \in Producers
    BY DEF IInv, TypeOK, Producers
  <2>2. p' \in Producers
    <3>1. CASE p' = [p EXCEPT !.cached_min = min]
      BY <3>1, <1>3, <2>1 DEF Producers
    <3>2. ASSUME NEW kept \in BOOLEAN,
                 p' = [p EXCEPT !.cached_min = min, !.pc = "granted", !.raised_starving = kept]
          PROVE  p' \in Producers
      BY <3>2, <1>3, <2>1 DEF Producers
    <3> QED BY <1>1, <3>1, <3>2
  <2>3. starving' \in Nat
    <3>1. CASE Lacks(Needed(p.len), min)
      BY <1>1, <3>1 DEF IInv, TypeOK
    <3>2. CASE ~Lacks(Needed(p.len), min)
      <4>1. PICK kept \in BOOLEAN : starving' = IF kept THEN starving ELSE 0
        BY <1>1, <3>2
      <4>2. starving' = starving \/ starving' = 0
        BY <4>1, Zenon
      <4> QED BY <4>2 DEF IInv, TypeOK
    <3> QED BY <3>1, <3>2
  <2> QED BY <1>1, <1>3, <2>2, <2>3 DEF IInv, TypeOK, counters, history
<1>5. /\ p'.next = p.next /\ p'.len = p.len /\ p'.cached_min = min /\ p'.intent_floor = p.intent_floor
      /\ p'.pc = IF Lacks(Needed(p.len), min) THEN "waiting" ELSE "granted"
  BY <1>1 DEF IInv, TypeOK, Producers
<1>6. NewTail' = p.next + Needed(p.len) /\ Needed(p.len) \in Nat
  BY <1>5, Fits, ProducerType DEF NewTail, Needed, Pad, IInv
<1>7. p'.pc = "granted" => NewTail' <= p'.cached_min + Capacity
  <2> SUFFICES ASSUME p'.pc = "granted" PROVE NewTail' <= min + Capacity
    BY <1>5
  <2>1. ~Lacks(Needed(p.len), min)
    BY <1>5
  <2> QED BY <2>1, <1>3, <1>6, NeedsType, ProducerType, CapacityType DEF IInv
<1>8. ProducerInv'
  BY <1>1, <1>2, <1>3, <1>5, <1>7 DEF ProducerInv, Sized, Writing, Quiet, Live, counters, history, Running
<1> QED BY <1>1, <1>3, <1>4, <1>5, <1>8, GateStep DEF history

LEMMA AbandonInv ==
  ASSUME IInv, Abandon
  PROVE  IInv'
<1>1. /\ p.pc = "granted" /\ p' = [p EXCEPT !.pc = "idle", !.len = 0]
      /\ UNCHANGED <<shared, gate, history, a, observer>>
  BY DEF Abandon
<1>2. TypeOK'
  BY <1>1 DEF IInv, TypeOK, Producers, shared, counters, gate, history, Quiet, Writing
<1>3. p'.next = p.next /\ p'.cached_min = p.cached_min /\ p'.intent_floor = p.intent_floor /\ p'.pc = "idle"
  BY <1>1 DEF IInv, TypeOK, Producers
<1>4. GateInv'
  BY <1>1, GateStill DEF IInv, gate, shared
<1>5. ProducerInv'
  BY <1>1, <1>3 DEF IInv, ProducerInv, Sized, Writing, Quiet, Live, shared, counters, gate, history, Running
<1> QED BY <1>1, <1>2, <1>3, <1>4, <1>5, GateStep DEF history, shared

-----------------------------------------------------------------------------
(* The write *)

LEMMA DeclareInv ==
  ASSUME IInv, Declare
  PROVE  IInv'
<1>1. /\ p.pc = "granted" /\ tail_intent' = Max({NewTail, p.intent_floor}) /\ pushes' = pushes + 1
      /\ p' = [p EXCEPT !.pc = "declared"]
      /\ UNCHANGED <<buffer, latest, tail, closed, starving, slots, gate, frames, closes, sessions, a, observer>>
  BY DEF Declare, Declared
<1>2. /\ Running /\ p.next = tail /\ p.intent_floor <= tail_intent /\ p.len <= max_message_len
      /\ pushes < MaxPushes /\ p.len \in Lengths[pushes + 1] /\ tail_intent \in {tail, p.intent_floor}
      /\ NewTail <= p.cached_min + Capacity /\ p.cached_min <= fence_seq
      /\ \A i \in Anchors : Live(i) => p.cached_min <= slots[i]
  BY <1>1 DEF IInv, ProducerInv, Running, Quiet, Sized
<1>3. /\ NewTail \in Nat /\ p.intent_floor \in Nat /\ p.cached_min \in Int /\ p.next \in Nat
      /\ p.next < NewTail /\ tail_intent \in Nat /\ tail \in Nat /\ fence_seq \in Nat /\ pushes \in 0 .. MaxPushes
      /\ fence_seq <= tail /\ tail <= tail_intent /\ tail_intent <= fence_seq + Capacity
      /\ \A i \in Anchors : GateOk(i) /\ slots[i] \in Int
  <2>1. NewTail \in Nat /\ p.next < NewTail
    BY PendingType, ProducerType DEF IInv
  <2>2. /\ tail_intent \in Nat /\ tail \in Nat /\ fence_seq \in Nat /\ pushes \in 0 .. MaxPushes
        /\ \A i \in Anchors : slots[i] \in Int
    BY DEF IInv, TypeOK, Producers, DETACHED
  <2> QED BY <2>1, <2>2, ProducerType DEF IInv, GateInv
<1>4. tail_intent' = IF NewTail >= p.intent_floor THEN NewTail ELSE p.intent_floor
  BY <1>1, <1>3, MaxOf
<1>5. /\ tail_intent' \in Nat /\ tail_intent <= tail_intent' /\ NewTail <= tail_intent'
      /\ p.intent_floor <= tail_intent' /\ tail_intent' <= fence_seq + Capacity
      /\ \A i \in Anchors : Live(i) => tail_intent' <= slots[i] + Capacity
  <2>1. ASSUME NEW i \in Anchors, Live(i) PROVE tail_intent' <= slots[i] + Capacity
    <3>1. tail_intent <= slots[i] + Capacity /\ p.cached_min <= slots[i] /\ slots[i] \in Int
      BY <1>2, <1>3, <2>1 DEF GateOk
    <3> QED BY <3>1, <1>2, <1>3, <1>4, CapacityType
  <2> QED BY <1>2, <1>3, <1>4, <2>1, CapacityType
<1>6. /\ p'.next = p.next /\ p'.len = p.len /\ p'.cached_min = p.cached_min
      /\ p'.intent_floor = p.intent_floor /\ p'.pc = "declared" /\ NewTail' = NewTail
  BY <1>1 DEF IInv, TypeOK, Producers, NewTail, Needed, Pad
<1>7. pushes' \in 0 .. MaxPushes /\ pushes' > 0 /\ p.len \in AllLengths
  <2>1. MaxPushes \in Nat /\ pushes + 1 \in 1 .. MaxPushes
    BY <1>2, <1>3, AnchoredBytesAssumption
  <2> QED BY <2>1, <1>1, <1>2, AnchoredBytesAssumption DEF AllLengths, Range
<1>8. TypeOK'
  BY <1>1, <1>5, <1>7 DEF IInv, TypeOK, Producers, gate, Quiet, Writing
<1>9. GateInv'
  <2>1. ASSUME NEW i \in Anchors PROVE GateOk(i)'
    BY <1>1, <1>3, <1>5 DEF GateOk, Live, gate
  <2> QED BY <2>1, <1>1, <1>3, <1>5 DEF GateInv, gate
<1>10. ProducerInv'
  BY <1>1, <1>2, <1>4, <1>5, <1>6, <1>7 DEF ProducerInv, Sized, Writing, Quiet, Live, gate, Running
<1>11. FramesInv'
  BY <1>1, FramesKept DEF IInv
<1>12. ContentsInv'
  BY <1>1, <1>3, <1>5, <1>6, LogStill DEF IInv, ContentsInv
<1>13. AnchorInv'
  BY <1>1, AnchorsStill DEF IInv
<1> QED BY <1>8, <1>9, <1>10, <1>11, <1>12, <1>13 DEF IInv

LEMMA WriteLanesInv ==
  ASSUME IInv, WriteLanes
  PROVE  IInv'
<1>1. /\ p.pc = "declared" /\ p' = [p EXCEPT !.pc = "filled"]
      /\ UNCHANGED <<counters, closed, starving, slots, gate, history, a, observer>>
  BY DEF WriteLanes
<1>2. /\ WellFramed(Pending) /\ p.next = tail /\ NewTail <= tail_intent
      /\ Pending.start = p.next /\ Pending.end = NewTail
  BY <1>1, PendingFramed DEF IInv, Writing
<1>3. NewTail <= p.next + Capacity
  BY <1>2 DEF WellFramed
<1>4. Held(Pending)'
  BY <1>2, <1>3, HeldNow DEF IInv
<1>5. \A n \in DOMAIN frames' : Held(frames[n])'
  <2> SUFFICES ASSUME NEW n \in DOMAIN frames PROVE Held(frames[n])'
    BY <1>1 DEF history
  <2>1. PICK f : f = frames[n]
    OBVIOUS
  <2>2. WellFramed(f) /\ f.end <= p.next /\ Held(f)
    BY <1>2, <2>1, FrameTail DEF IInv, ContentsInv
  <2>3. Held(f)'
    BY <1>2, <2>2, HeldOver DEF IInv
  <2>4. f = frames'[n]
    BY <1>1, <2>1 DEF history
  <2> QED BY <2>3, <2>4 DEF Held, HeldPadding, HeldRecord
<1>6. ContentsInv'
  BY <1>4, <1>5 DEF ContentsInv
<1>7. TypeOK'
  BY <1>1, LanesKept DEF IInv, TypeOK, Producers, counters, gate, history, Quiet, Writing
<1>8. GateInv'
  BY <1>1, GateStill DEF IInv, gate
<1>9. FramesInv'
  BY <1>1, FramesKept DEF IInv, counters, history
<1>10. AnchorInv'
  BY <1>1, AnchorsStill DEF IInv, history
<1>11. /\ p'.next = p.next /\ p'.len = p.len /\ p'.cached_min = p.cached_min
       /\ p'.intent_floor = p.intent_floor /\ p'.pc = "filled" /\ NewTail' = NewTail
  BY <1>1 DEF IInv, TypeOK, Producers, NewTail, Needed, Pad
<1>12. ProducerInv'
  BY <1>1, <1>11 DEF IInv, ProducerInv, Sized, Writing, Quiet, Live, counters, gate, history, Running
<1> QED BY <1>6, <1>7, <1>8, <1>9, <1>10, <1>12 DEF IInv

LEMMA StoreLatestInv ==
  ASSUME IInv, StoreLatest
  PROVE  IInv'
<1>1. /\ p.pc = "filled" /\ latest' = RecordAt /\ p' = [p EXCEPT !.pc = "pointed"]
      /\ UNCHANGED <<buffer, tail_intent, tail, closed, starving, slots, gate, history, a, observer>>
  BY DEF StoreLatest
<1>2. RecordAt \in Nat /\ tail_intent \in Nat
  BY PendingType DEF IInv, TypeOK, Producers
<1>3. TypeOK'
  BY <1>1, <1>2 DEF IInv, TypeOK, Producers, gate, history, Quiet, Writing
<1>4. GateInv'
  BY <1>1 DEF IInv, GateInv, GateOk, gate, Live
<1>5. FramesInv'
  BY <1>1, FramesKept DEF IInv, history
<1>6. AnchorInv'
  BY <1>1, AnchorsStill DEF IInv, history
<1>7. /\ p'.next = p.next /\ p'.len = p.len /\ p'.cached_min = p.cached_min
      /\ p'.intent_floor = p.intent_floor /\ p'.pc = "pointed" /\ NewTail' = NewTail /\ RecordAt' = RecordAt
  BY <1>1 DEF IInv, TypeOK, Producers, NewTail, RecordAt, Needed, Pad
<1>8. ProducerInv'
  BY <1>1, <1>7 DEF IInv, ProducerInv, Sized, Writing, Quiet, Live, gate, history, Running
<1>9. Pending' = Pending /\ Held(Pending)
  BY <1>1, <1>7 DEF Pending, history, IInv, ContentsInv
<1>10. Held(Pending)'
  BY <1>1, <1>9 DEF Held, HeldPadding, HeldRecord, Position, PayloadAt
<1>11. \A n \in DOMAIN frames' : Held(frames[n])'
  BY <1>1, <1>2, LogStill DEF IInv, history
<1> QED BY <1>3, <1>4, <1>5, <1>6, <1>8, <1>10, <1>11 DEF IInv, ContentsInv

\* The log after a record more.
LEMMA FramesGrow ==
  ASSUME FramesInv, NEW f, WellFramed(f), f.start = tail, frames' = Append(frames, f), tail' = f.end
  PROVE  /\ FramesInv' /\ tail < tail'
         /\ Len(frames') = Len(frames) + 1 /\ frames'[Len(frames) + 1] = f
         /\ \A n \in DOMAIN frames : n \in DOMAIN frames' /\ frames'[n] = frames[n]
         /\ \A n \in DOMAIN frames' : n \in DOMAIN frames \/ n = Len(frames) + 1
         /\ DOMAIN frames' = 1 .. Len(frames) + 1
         /\ Ends \subseteq Ends' /\ Ends' \subseteq Ends \union {f.end}
<1>0. PICK N : N = Len(frames)
  OBVIOUS
<1>1. N \in Nat /\ DOMAIN frames = 1 .. N /\ frames \in Seq(Frames) /\ f \in Frames
  BY <1>0, FrameIndex DEF WellFramed
<1>2. /\ frames' \in Seq(Frames) /\ Len(frames') = N + 1 /\ frames'[N + 1] = f
      /\ \A n \in 1 .. N : frames'[n] = frames[n]
  BY <1>0, <1>1, AppendProperties
<1>3. DOMAIN frames' = 1 .. N + 1
  BY <1>2, LenProperties
<1>4. /\ f.end \in Nat /\ f.start \in Nat /\ f.start < f.end
  BY Framed
<1>5. tail = End(N) /\ \A n \in 1 .. N : WellFramed(frames[n]) /\ frames[n].start = End(n - 1)
  BY <1>0, <1>1 DEF FramesInv
<1>6. \A m, n \in 0 .. N : m < n => End(m) < End(n)
  BY <1>0 DEF FramesInv
<1>7. \A n \in 0 .. N : End(n) \in Nat /\ End(n) <= tail
  BY <1>0, EndType
<1>8. ASSUME NEW n \in 0 .. N PROVE End(n)' = End(n)
  <2>1. n = 0 \/ n \in 1 .. N
    BY <1>1
  <2> QED BY <1>2, <2>1 DEF End
<1>9. N + 1 # 0 /\ End(N + 1)' = f.end
  BY <1>1, <1>2 DEF End
<1>10. \A m, n \in 0 .. N + 1 : m < n => End(m)' < End(n)'
  <2> SUFFICES ASSUME NEW m \in 0 .. N + 1, NEW n \in 0 .. N + 1, m < n
               PROVE  End(m)' < End(n)'
    OBVIOUS
  <2>1. m \in 0 .. N /\ (n \in 0 .. N \/ n = N + 1)
    BY <1>1
  <2>2. CASE n \in 0 .. N
    BY <1>6, <1>8, <2>1, <2>2
  <2>3. CASE n = N + 1
    <3>1. End(m) \in Nat /\ End(m) <= tail /\ End(m)' = End(m)
      BY <1>7, <1>8, <2>1
    <3>2. End(n)' = f.end
      BY <1>9, <2>3
    <3> QED BY <3>1, <3>2, <1>4
  <2> QED BY <2>1, <2>2, <2>3
<1>11. ASSUME NEW n \in 1 .. N + 1 PROVE WellFramed(frames'[n]) /\ frames'[n].start = End(n - 1)'
  <2>1. n - 1 \in 0 .. N /\ (n \in 1 .. N \/ n = N + 1)
    BY <1>1
  <2>2. End(n - 1)' = End(n - 1)
    BY <1>8, <2>1
  <2>3. CASE n \in 1 .. N
    BY <1>2, <1>5, <2>2, <2>3
  <2>4. CASE n = N + 1
    <3>1. n - 1 = N
      BY <1>1, <2>4
    <3>2. End(n - 1) = tail
      BY <1>5, <3>1
    <3> QED BY <1>2, <2>2, <2>4, <3>2
  <2> QED BY <2>1, <2>3, <2>4
<1>12. FramesInv'
  <2>1. \A n \in DOMAIN frames' : WellFramed(frames[n])' /\ frames'[n].start = End(n - 1)'
    BY <1>3, <1>11 DEF WellFramed, Position, ToEnd
  <2>2. tail' = End(Len(frames))'
    BY <1>2, <1>9 DEF End
  <2>3. \A m, n \in 0 .. Len(frames') : m < n => End(m)' < End(n)'
    BY <1>2, <1>10
  <2> QED BY <1>2, <2>1, <2>2, <2>3 DEF FramesInv
<1>13. Ends \subseteq Ends'
  <2> SUFFICES ASSUME NEW e \in Ends PROVE e \in Ends'
    OBVIOUS
  <2>1. PICK n \in 0 .. N : e = End(n)
    BY <1>0 DEF Ends
  <2>2. n \in 0 .. N + 1 /\ e = End(n)'
    BY <1>1, <1>8, <2>1
  <2> QED BY <1>2, <2>2 DEF Ends
<1>14. Ends' \subseteq Ends \union {f.end}
  <2> SUFFICES ASSUME NEW e \in Ends' PROVE e \in Ends \union {f.end}
    OBVIOUS
  <2>1. PICK n \in 0 .. N + 1 : e = End(n)'
    BY <1>2 DEF Ends
  <2>2. n \in 0 .. N \/ n = N + 1
    BY <1>1
  <2>3. CASE n \in 0 .. N
    BY <1>0, <1>8, <2>1, <2>3 DEF Ends
  <2>4. CASE n = N + 1
    BY <1>9, <2>1, <2>4
  <2> QED BY <2>2, <2>3, <2>4
<1>15. \A n \in 1 .. N + 1 : n \in 1 .. N \/ n = N + 1
  BY <1>1
<1> QED BY <1>0, <1>1, <1>2, <1>3, <1>4, <1>12, <1>13, <1>14, <1>15

LEMMA AnchorGrow ==
  ASSUME NEW i \in Anchors, AnchorOk(i), UNCHANGED <<a, slots>>, Ends \subseteq Ends',
         \A n \in DOMAIN frames : n \in DOMAIN frames' /\ frames'[n] = frames[n]
  PROVE  AnchorOk(i)'
<1>1. Live(i)' = Live(i) /\ CaughtUp(a[i])' = CaughtUp(a[i])
  BY DEF Live, CaughtUp
<1>2. ASSUME NEW n \in DOMAIN frames, StandsAt(a[i], n) PROVE n \in DOMAIN frames' /\ StandsAt(a[i], n)'
  BY <1>2 DEF StandsAt
<1> QED BY <1>1, <1>2 DEF AnchorOk, Placed

LEMMA StoreTailInv ==
  ASSUME IInv, StoreTail
  PROVE  IInv'
<1>1. /\ p.pc = "pointed" /\ tail' = NewTail /\ frames' = Append(frames, Pending)
      /\ p' = [p EXCEPT !.pc = "idle", !.next = NewTail, !.len = 0]
      /\ UNCHANGED <<buffer, tail_intent, latest, closed, starving, slots, gate, closes, pushes, sessions,
                     a, observer>>
  BY DEF StoreTail, Pending
<1>2. PICK f : f = Pending
  OBVIOUS
<1>3. /\ WellFramed(f) /\ f.start = tail /\ f.end = NewTail /\ NewTail <= tail_intent
  BY <1>1, <1>2, PendingFramed DEF IInv, Writing
<1>4. /\ FramesInv' /\ tail < tail' /\ frames'[Len(frames) + 1] = f
      /\ \A n \in DOMAIN frames : n \in DOMAIN frames' /\ frames'[n] = frames[n]
      /\ \A n \in DOMAIN frames' : n \in DOMAIN frames \/ n = Len(frames) + 1
      /\ Ends \subseteq Ends'
  BY <1>1, <1>2, <1>3, FramesGrow DEF IInv
<1>5. NewTail \in Nat /\ tail_intent \in Nat /\ fence_seq \in Nat /\ tail \in Nat
  BY PendingType DEF IInv, TypeOK
<1>6. TypeOK'
  BY <1>1, <1>5 DEF IInv, TypeOK, Producers, gate, Quiet, Writing
<1>7. AnchorInv'
  BY <1>1, <1>4, AnchorGrow DEF IInv, AnchorInv
<1>8. GateInv'
  <2>1. ASSUME NEW i \in Anchors PROVE GateOk(i)'
    <3>1. GateOk(i) /\ a[i].read_cursor \in Nat /\ slots[i] \in Int /\ cached_cursors[i] \in Int
      BY DEF IInv, GateInv, TypeOK, Handles, DETACHED
    <3> QED BY <1>1, <1>4, <1>5, <3>1 DEF GateOk, Live, gate
  <2> QED BY <2>1, <1>1, <1>3, <1>4, <1>5 DEF IInv, GateInv, gate
<1>9. ProducerInv'
  <2>1. /\ p'.next = NewTail /\ p'.cached_min = p.cached_min /\ p'.intent_floor = p.intent_floor
        /\ p'.pc = "idle"
    BY <1>1 DEF IInv, TypeOK, Producers
  <2> QED BY <1>1, <2>1 DEF IInv, ProducerInv, Sized, Writing, Quiet, Live, gate, Running
<1>10. \A n \in DOMAIN frames' : Held(frames[n])'
  <2> SUFFICES ASSUME NEW n \in DOMAIN frames' PROVE Held(frames[n])'
    OBVIOUS
  <2>1. PICK g : g = frames'[n]
    OBVIOUS
  <2>2. WellFramed(g) /\ Held(g)
    <3>1. CASE n \in DOMAIN frames
      <4>1. g = frames[n]
        BY <1>4, <2>1, <3>1
      <4> QED BY <3>1, <4>1 DEF IInv, FramesInv, ContentsInv
    <3>2. CASE n = Len(frames) + 1
      <4>1. g = f
        BY <1>4, <2>1, <3>2
      <4>2. Held(Pending)
        BY <1>1 DEF IInv, ContentsInv
      <4> QED BY <1>2, <1>3, <4>1, <4>2
    <3> QED BY <1>4, <3>1, <3>2
  <2>3. Held(g)'
    BY <1>1, <1>5, <2>2, HeldStill
  <2> QED BY <2>1, <2>3 DEF Held, HeldPadding, HeldRecord
<1>11. ContentsInv'
  BY <1>1, <1>10 DEF ContentsInv, IInv, TypeOK, Producers
<1> QED BY <1>4, <1>6, <1>7, <1>8, <1>9, <1>11 DEF IInv

-----------------------------------------------------------------------------
(* The end of a session, and the next *)

\* Without a producer there is no record being pushed.
LEMMA EndStep ==
  ASSUME IInv, TypeOK', p'.pc \in {"gone", "healing"},
         UNCHANGED <<buffer, tail_intent, tail, slots, gate, frames, a>>
  PROVE  IInv'
<1>1. tail_intent \in Nat /\ tail_intent' = tail_intent /\ tail' = tail
  BY DEF IInv, TypeOK
<1>2. FramesInv' /\ AnchorInv'
  BY FramesKept, AnchorsStill DEF IInv
<1>3. GateInv'
  BY DEF IInv, GateInv, GateOk, gate, Live
<1>4. ContentsInv'
  BY <1>1, LogStill DEF IInv, ContentsInv
<1>5. ProducerInv'
  <2>1. ~Running'
    BY DEF Running
  <2> QED BY <2>1 DEF ProducerInv
<1> QED BY <1>2, <1>3, <1>4, <1>5 DEF IInv

LEMMA DropProducerInv ==
  ASSUME IInv, DropProducer
  PROVE  IInv'
<1>1. TypeOK' /\ p'.pc = "gone"
  BY DEF DropProducer, IInv, TypeOK, Producers, counters, gate
<1> QED BY <1>1, EndStep DEF DropProducer, counters

LEMMA DieInv ==
  ASSUME IInv, Die
  PROVE  IInv'
<1>1. TypeOK' /\ p'.pc = "gone"
  BY DEF Die, IInv, TypeOK, Producers, shared, counters, gate, history
<1> QED BY <1>1, EndStep DEF Die, shared, counters, history

LEMMA AttachInv ==
  ASSUME IInv, Attach
  PROVE  IInv'
<1>1. p' = [p EXCEPT !.pc = "healing"] /\ p \in Producers
  BY DEF Attach, IInv, TypeOK
<1>2. p' \in Producers /\ p'.pc = "healing"
  BY <1>1 DEF Producers
<1>3. closed' \in BOOLEAN /\ starving' \in Nat /\ sessions' \in Nat
  <2>1. closed' \in BOOLEAN
    BY Zenon DEF Attach
  <2>2. starving' \in Nat /\ sessions' \in Nat
    <3>1. sessions \in Nat /\ starving' = 0 /\ sessions' = sessions + 1
      BY DEF Attach, IInv, TypeOK
    <3> QED BY <3>1
  <2> QED BY <2>1, <2>2
<1>4. TypeOK'
  BY <1>2, <1>3 DEF Attach, IInv, TypeOK, counters, gate
<1> QED BY <1>2, <1>4, EndStep DEF Attach, counters

LEMMA HealInv ==
  ASSUME IInv, Heal
  PROVE  IInv'
<1> DEFINE old == [i \in Anchors |-> tail - Capacity]
           cursors == Scanned(tail, old, 1)
           min == NewMin(tail, cursors)
<1>1. /\ latest' = IF tail_intent # tail THEN tail ELSE latest
      /\ cached_cursors' = cursors /\ p' = Producer(tail, min, Max({tail_intent, tail})) /\ fence_seq' = tail
      /\ UNCHANGED <<buffer, tail_intent, tail, closed, starving, slots, history, a, observer>>
  BY DEF Heal
<1>2. /\ tail_intent \in Nat /\ tail \in Nat /\ fence_seq \in Nat /\ tail <= tail_intent
      /\ tail_intent <= fence_seq + Capacity
  BY DEF IInv, TypeOK, GateInv
<1>3. \A i \in Anchors : old[i] = tail - Capacity /\ old[i] \in Int
  BY <1>2, CapacityType
<1>4. \A i \in Anchors : /\ -Capacity <= old[i] /\ tail + 1 - old[i] > Capacity
                         /\ old[i] <= tail
  BY <1>2, <1>3, CapacityType
<1>5. old \in [Anchors -> Int]
  BY <1>3
<1> HIDE DEF old
<1>6. /\ cursors \in [Anchors -> Int] /\ min \in Int /\ min <= tail
      /\ \A i \in Anchors : Live(i) => min <= slots[i]
  BY <1>4, <1>5, ScanFinds DEF IInv
<1>7. GateInv'
  BY <1>1, <1>4, <1>5, ScanGate DEF IInv
<1> HIDE DEF cursors, min
<1>8. p' = Producer(tail, min, tail_intent)
  <2>1. Max({tail_intent, tail}) = tail_intent
    BY <1>2, MaxOf
  <2> QED BY <1>1, <2>1
<1>9. /\ p'.next = tail /\ p'.cached_min = min /\ p'.intent_floor = tail_intent /\ p'.pc = "idle"
      /\ p' \in Producers
  BY <1>2, <1>6, <1>8 DEF Producer, Producers, Quiet
<1>10. TypeOK'
  BY <1>1, <1>2, <1>6, <1>9 DEF IInv, TypeOK, history
<1>11. ProducerInv'
  <2>1. /\ tail' = tail /\ tail_intent' = tail_intent /\ fence_seq' = tail
        /\ \A i \in Anchors : Live(i)' = Live(i) /\ slots'[i] = slots[i]
    BY <1>1 DEF Live
  <2>2. p'.next = tail' /\ p'.intent_floor <= tail_intent' /\ p'.cached_min <= fence_seq'
    BY <2>1, <1>2, <1>6, <1>9
  <2>3. \A i \in Anchors : Live(i)' => p'.cached_min <= slots'[i]
    BY <2>1, <1>6, <1>9
  <2>4. /\ p'.pc \notin Sized \union Writing /\ p'.pc # "granted" /\ tail_intent' = p'.intent_floor
    BY <2>1, <1>9 DEF Sized, Writing
  <2> QED BY <2>2, <2>3, <2>4 DEF ProducerInv, Sized
<1>12. FramesInv' /\ AnchorInv'
  BY <1>1, FramesKept, AnchorsStill DEF IInv, history
<1>13. ContentsInv'
  BY <1>1, <1>2, <1>9, LogStill DEF IInv, ContentsInv, history
<1> QED BY <1>7, <1>10, <1>11, <1>12, <1>13 DEF IInv

-----------------------------------------------------------------------------
(* The anchors *)

\* One anchor moves: what it must show of itself, for the rest to follow.
LEMMA AnchorMove ==
  ASSUME IInv, NEW i \in Anchors, NEW h \in Handles, NEW s \in Nat \union {DETACHED},
         a' = [a EXCEPT ![i] = h], slots' = [slots EXCEPT ![i] = s],
         UNCHANGED <<buffer, counters, closed, starving, p, gate, history>>,
         s # DETACHED <=> h.pc # "out",
         s # DETACHED => /\ s = h.published /\ h.published \in Ends /\ h.tail_cache \in Ends /\ Placed(h)
                         /\ cached_cursors[i] <= s /\ tail_intent <= s + Capacity
                         /\ Running => p.cached_min <= s,
         s = DETACHED => /\ h.read_cursor <= tail
                         /\ cached_cursors[i] <= h.read_cursor \/ cached_cursors[i] <= fence_seq
  PROVE  IInv'
<1>1. a \in [Anchors -> Handles] /\ slots \in [Anchors -> Nat \union {DETACHED}]
  BY DEF IInv, TypeOK
<1>2. /\ a' \in [Anchors -> Handles] /\ slots' \in [Anchors -> Nat \union {DETACHED}]
      /\ a'[i] = h /\ slots'[i] = s
      /\ \A j \in Anchors \ {i} : a'[j] = a[j] /\ slots'[j] = slots[j]
  BY <1>1
<1>3. TypeOK'
  BY <1>2 DEF IInv, TypeOK, counters, gate, history
<1>4. FramesInv' /\ Ends' = Ends
  BY FramesKept DEF IInv, counters, history
<1>5. ContentsInv'
  BY DEF IInv, ContentsInv, Held, HeldPadding, HeldRecord, Position, PayloadAt, Pending, RecordAt, NewTail,
         Needed, Pad, ToEnd, counters, history
<1>6. AnchorInv'
  <2> SUFFICES ASSUME NEW j \in Anchors PROVE AnchorOk(j)'
    BY DEF AnchorInv
  <2>1. CASE j = i
    <3>1. Live(i)' <=> s # DETACHED
      BY <1>2 DEF Live
    <3>2. Placed(h) => Placed(a[i])'
      BY <1>2 DEF Placed, CaughtUp, StandsAt, history
    <3> QED BY <1>2, <1>4, <2>1, <3>1, <3>2 DEF AnchorOk
  <2>2. CASE j # i
    BY <1>2, <2>2, AnchorStill DEF IInv, AnchorInv, history
  <2> QED BY <2>1, <2>2
<1>7. GateInv'
  <2>1. ASSUME NEW j \in Anchors PROVE GateOk(j)'
    <3>1. CASE j = i
      <4>1. s # DETACHED => s <= tail
        BY <1>2, EndsType DEF IInv
      <4>2. -Capacity <= cached_cursors[i]
        BY DEF IInv, GateInv, GateOk
      <4> QED BY <1>2, <3>1, <4>1, <4>2 DEF GateOk, Live, gate, counters
    <3>2. CASE j # i
      <4>1. GateOk(j)
        BY DEF IInv, GateInv
      <4> QED BY <1>2, <3>2, <4>1 DEF GateOk, Live, gate, counters
    <3> QED BY <3>1, <3>2
  <2> QED BY <2>1 DEF IInv, GateInv, gate, counters
<1>8. ProducerInv'
  <2> SUFFICES ASSUME Running PROVE ProducerInv'
    BY DEF ProducerInv, Running
  <2>1. ASSUME NEW j \in Anchors, Live(j)' PROVE p.cached_min <= slots'[j]
    <3>1. CASE j = i
      BY <1>2, <2>1, <3>1 DEF Live
    <3>2. CASE j # i
      <4>1. Live(j) => p.cached_min <= slots[j]
        BY DEF IInv, ProducerInv
      <4> QED BY <1>2, <2>1, <3>2, <4>1 DEF Live
    <3> QED BY <3>1, <3>2
  <2>2. NewTail' = NewTail
    BY DEF NewTail, Needed, Pad
  <2> QED BY <2>1, <2>2 DEF IInv, ProducerInv, gate, counters, history, Running
<1> QED BY <1>3, <1>4, <1>5, <1>6, <1>7, <1>8 DEF IInv

LEMMA LiveAnchor ==
  ASSUME IInv, NEW i \in Anchors
  PROVE  /\ a[i] \in Handles /\ slots[i] \in Nat \union {DETACHED} /\ cached_cursors[i] \in Int
         /\ tail \in Nat /\ tail_intent \in Nat /\ p.cached_min \in Int
         /\ Live(i) <=> a[i].pc # "out"
         /\ Live(i) => /\ slots[i] \in Nat /\ slots[i] = a[i].published /\ slots[i] \in Ends
                       /\ a[i].tail_cache \in Ends /\ a[i].tail_cache <= tail
                       /\ Placed(a[i])
                       /\ cached_cursors[i] <= slots[i] /\ slots[i] <= tail
                       /\ tail_intent <= slots[i] + Capacity
                       /\ Running => p.cached_min <= slots[i]
<1>1. /\ a[i] \in Handles /\ slots[i] \in Nat \union {DETACHED} /\ cached_cursors[i] \in Int
      /\ tail \in Nat /\ tail_intent \in Nat /\ p.cached_min \in Int
  BY ProducerType DEF IInv, TypeOK
<1>2. /\ Live(i) <=> a[i].pc # "out"
      /\ Live(i) => /\ slots[i] = a[i].published /\ a[i].published \in Ends
                    /\ a[i].tail_cache \in Ends /\ Placed(a[i])
  BY DEF IInv, AnchorInv, AnchorOk
<1>3. Live(i) => slots[i] \in Nat
  BY <1>1 DEF Live
<1>4. Live(i) => /\ cached_cursors[i] <= slots[i] /\ slots[i] <= tail
                 /\ tail_intent <= slots[i] + Capacity
                 /\ Running => p.cached_min <= slots[i]
  BY DEF IInv, GateInv, GateOk, ProducerInv
<1>5. Live(i) => a[i].tail_cache <= tail
  BY <1>2, EndsType DEF IInv
<1> QED BY <1>1, <1>2, <1>3, <1>4, <1>5

\* A live anchor that keeps or raises its slot.
LEMMA AnchorAdvance ==
  ASSUME IInv, NEW i \in Anchors, Live(i), NEW h \in Handles, NEW s \in Nat,
         a' = [a EXCEPT ![i] = h], slots' = [slots EXCEPT ![i] = s],
         UNCHANGED <<buffer, counters, closed, starving, p, gate, history>>,
         h.pc # "out", s = h.published, s \in Ends, slots[i] <= s, h.tail_cache \in Ends, Placed(h)
  PROVE  IInv'
<1>1. s # DETACHED /\ s \in Nat \union {DETACHED}
  BY DEF DETACHED
<1>2. cached_cursors[i] <= s /\ tail_intent <= s + Capacity /\ (Running => p.cached_min <= s)
  BY LiveAnchor, CapacityType
<1> QED BY <1>1, <1>2, AnchorMove

LEMMA AnchorStays ==
  ASSUME IInv, NEW i \in Anchors, Live(i), NEW h \in Handles,
         a' = [a EXCEPT ![i] = h], UNCHANGED <<shared, p, gate, history>>,
         h.pc # "out", h.published = a[i].published, h.tail_cache \in Ends, Placed(h)
  PROVE  IInv'
<1>1. slots[i] \in Nat /\ slots[i] = a[i].published /\ slots[i] \in Ends /\ slots[i] <= slots[i]
  BY LiveAnchor
<1>2. slots' = [slots EXCEPT ![i] = slots[i]]
  BY DEF shared, IInv, TypeOK
<1> QED BY <1>1, <1>2, AnchorAdvance DEF shared

\* What an anchor reads in front of it is the record there, whole.
LEMMA Decoded ==
  ASSUME IInv, NEW i \in Anchors, Live(i), NEW n \in DOMAIN frames, slots[i] <= frames[n].start,
         NEW r \in {frames[n].start, frames[n].at}
  PROVE  /\ decode_record(r) = [cur |-> frames[n].at, len |-> frames[n].record[1]]
         /\ {buffer[w] : w \in PayloadAt(Position(frames[n].at), frames[n].record[1])} = frames[n].record[2]
<1>1. PICK f : f = frames[n]
  OBVIOUS
<1>2. WellFramed(f) /\ Held(f)
  BY <1>1 DEF IInv, FramesInv, ContentsInv
<1>3. /\ f.start \in Nat /\ f.at \in Nat /\ f.record[1] \in Nat /\ f.record = <<f.record[1], f.record[2]>>
      /\ f.start <= f.at
  BY <1>2, Framed
<1>4. tail_intent <= f.start + Capacity /\ tail_intent <= f.at + Capacity
  BY <1>1, <1>3, LiveAnchor, CapacityType
<1>5. /\ buffer[Position(f.at)] = f.record[1]
      /\ {buffer[w] : w \in PayloadAt(Position(f.at), f.record[1])} = f.record[2]
  BY <1>2, <1>3, <1>4 DEF Held, HeldRecord
<1>6. decode_record(r) = [cur |-> f.at, len |-> f.record[1]]
  <2>1. CASE r = f.at
    <3>1. buffer[Position(r)] # PADDING
      BY <1>3, <1>5, <2>1 DEF PADDING
    <3>2. r + 0 = f.at
      BY <1>3, <2>1
    <3> QED BY <1>5, <3>1, <3>2 DEF decode_record
  <2>2. CASE r = f.start /\ f.at # f.start
    <3>1. buffer[Position(r)] = PADDING
      BY <1>2, <1>4, <2>2 DEF Held, HeldPadding
    <3>2. r + ToEnd(r) = f.at
      BY <1>2, <2>2 DEF WellFramed
    <3> QED BY <1>5, <3>1, <3>2 DEF decode_record
  <2> QED BY <1>1, <2>1, <2>2
<1> QED BY <1>1, <1>5, <1>6

LEMMA AtFrame ==
  ASSUME IInv, NEW n \in DOMAIN frames
  PROVE  /\ frames[n].start \in Nat /\ frames[n].at \in Nat /\ frames[n].end \in Nat
         /\ frames[n].record[1] \in Nat /\ frames[n].start <= frames[n].at /\ frames[n].at < frames[n].end
         /\ frames[n].end = frames[n].at + record_len(frames[n].record[1])
         /\ frames[n].start \in Ends /\ frames[n].end \in Ends /\ frames[n].end <= tail
<1>1. PICK f : f = frames[n]
  OBVIOUS
<1>2. WellFramed(f) /\ f.end <= tail /\ f.start \in Ends /\ f.end \in Ends
  BY <1>1, FrameTail DEF IInv
<1>3. /\ f.start \in Nat /\ f.at \in Nat /\ f.end \in Nat /\ f.record[1] \in Nat
      /\ f.start <= f.at /\ f.at + 8 <= f.end
      /\ f.end = f.at + record_len(f.record[1])
  BY <1>2, Framed
<1>4. f.at < f.end
  BY <1>3
<1> QED BY <1>1, <1>2, <1>3, <1>4

\* The anchor's published cursor is no further than what it knows of.
LEMMA KnowsItsSlot ==
  ASSUME IInv, NEW i \in Anchors, Live(i)
  PROVE  slots[i] <= a[i].tail_cache
<1>1. slots[i] = a[i].published /\ a[i] \in Handles /\ Placed(a[i])
  BY LiveAnchor
<1>2. CASE CaughtUp(a[i])
  BY <1>1, <1>2 DEF CaughtUp
<1>3. CASE \E n \in DOMAIN frames : StandsAt(a[i], n)
  <2>1. PICK n \in DOMAIN frames : StandsAt(a[i], n)
    BY <1>3
  <2>2. a[i].published <= frames[n].start /\ frames[n].end <= a[i].tail_cache
    BY <2>1 DEF StandsAt
  <2>3. a[i].published \in Nat /\ a[i].tail_cache \in Nat
    BY <1>1 DEF Handles
  <2> QED BY <1>1, <2>2, <2>3, AtFrame
<1> QED BY <1>1, <1>2, <1>3 DEF Placed

\* The record in front of an anchor that has seen the tail go past it.
LEMMA InFront ==
  ASSUME IInv, NEW i \in Anchors, Live(i), a[i].pc = "live",
         NEW c \in Ends, a[i].tail_cache <= c, a[i].read_cursor # c
  PROVE  \E n \in DOMAIN frames :
           /\ a[i].read_cursor \in {frames[n].start, frames[n].at}
           /\ slots[i] <= frames[n].start /\ frames[n].end <= c
<1>1. /\ slots[i] = a[i].published /\ a[i] \in Handles /\ Placed(a[i]) /\ a[i].tail_cache \in Ends
      /\ slots[i] \in Nat
  BY LiveAnchor
<1>2. c \in Nat /\ a[i].read_cursor \in Nat /\ a[i].tail_cache \in Nat
  BY <1>1, EndsType DEF Handles, IInv
<1>3. CASE CaughtUp(a[i])
  <2>1. a[i].read_cursor = a[i].tail_cache /\ a[i].published <= a[i].read_cursor
    BY <1>3 DEF CaughtUp
  <2>2. a[i].read_cursor < c /\ a[i].read_cursor \in Ends
    BY <2>1, <1>1, <1>2
  <2>3. PICK n \in DOMAIN frames : frames[n].start = a[i].read_cursor /\ frames[n].end <= c
    BY <2>2, NextFrame DEF IInv
  <2> QED BY <2>1, <2>3, <1>1
<1>4. CASE \E n \in DOMAIN frames : StandsAt(a[i], n)
  <2>1. PICK n \in DOMAIN frames : StandsAt(a[i], n)
    BY <1>4
  <2>2. /\ a[i].published <= frames[n].start /\ frames[n].end <= a[i].tail_cache
        /\ a[i].read_cursor \in {frames[n].start, frames[n].at}
    BY <2>1 DEF StandsAt
  <2>3. frames[n].end <= c
    BY <2>2, <1>2, AtFrame
  <2> QED BY <2>2, <2>3, <1>1
<1> QED BY <1>1, <1>3, <1>4 DEF Placed

\* Past the end of a record, an anchor is at the next one or it has caught up.
LEMMA PlacedAfter ==
  ASSUME IInv, NEW h \in Handles, h.pc = "live", NEW n \in DOMAIN frames, h.read_cursor = frames[n].end,
         h.tail_cache \in Ends, frames[n].end <= h.tail_cache, h.published <= frames[n].end
  PROVE  Placed(h)
<1>1. frames[n].end \in Nat /\ frames[n].end \in Ends /\ h.tail_cache \in Nat /\ h.published \in Nat
  BY AtFrame DEF Handles
<1>2. CASE frames[n].end = h.tail_cache
  BY <1>2 DEF Placed, CaughtUp
<1>3. CASE frames[n].end # h.tail_cache
  <2>1. frames[n].end < h.tail_cache
    BY <1>1, <1>3
  <2>2. PICK m \in DOMAIN frames : frames[m].start = frames[n].end /\ frames[m].end <= h.tail_cache
    BY <1>1, <2>1, NextFrame DEF IInv
  <2> QED BY <2>2 DEF Placed, StandsAt
<1> QED BY <1>2, <1>3

LEMMA SubscribeInv ==
  ASSUME IInv, NEW i \in Anchors, Subscribe(i)
  PROVE  IInv'
<1>1. PICK joined \in {0} \union {frames[n].end : n \in DOMAIN frames} :
        /\ fence_seq <= joined /\ a[i].read_cursor <= joined
        /\ slots' = [slots EXCEPT ![i] = joined]
        /\ a' = [a EXCEPT ![i] = Subscribed(joined)]
  BY DEF Subscribe
<1>2. a[i].pc = "out" /\ UNCHANGED <<buffer, counters, closed, starving, p, gate, history>>
  BY DEF Subscribe
<1>3. joined \in Ends
  BY <1>1, AtFrame, EndsType DEF IInv
<1>4. joined \in Nat
  BY <1>3, EndsType DEF IInv
<1>5. PICK h : h = Subscribed(joined)
  OBVIOUS
<1>6. /\ h \in Handles /\ h.pc = "live" /\ h.published = joined /\ h.tail_cache = joined
      /\ h.read_cursor = joined
  BY <1>4, <1>5 DEF Subscribed, NoAnchor, Handles
<1>7. Placed(h)
  BY <1>4, <1>6 DEF Placed, CaughtUp
<1>8. joined # DETACHED /\ ~Live(i)
  BY <1>2, <1>4, LiveAnchor DEF DETACHED
<1>9. cached_cursors[i] <= joined
  <2>1. /\ cached_cursors[i] <= a[i].read_cursor \/ cached_cursors[i] <= fence_seq
        /\ cached_cursors[i] \in Int /\ a[i].read_cursor \in Nat /\ fence_seq \in Nat
    BY <1>8, LiveAnchor DEF IInv, GateInv, GateOk, TypeOK, Handles
  <2> QED BY <2>1, <1>1, <1>4
<1>10. tail_intent <= joined + Capacity /\ (Running => p.cached_min <= joined)
  <2>1. /\ tail_intent <= fence_seq + Capacity /\ fence_seq \in Nat /\ tail_intent \in Nat
        /\ p.cached_min \in Int /\ (Running => p.cached_min <= fence_seq)
    BY LiveAnchor DEF IInv, GateInv, ProducerInv, TypeOK
  <2> QED BY <2>1, <1>1, <1>4, CapacityType
<1> QED BY <1>1, <1>2, <1>3, <1>4, <1>5, <1>6, <1>7, <1>8, <1>9, <1>10, AnchorMove

LEMMA HasItem ==
  ASSUME IInv, NEW i \in Anchors, Live(i)
  PROVE  /\ has_item(a[i]) \in Ends /\ a[i].tail_cache <= has_item(a[i])
<1>1. /\ a[i].tail_cache \in Ends /\ a[i].tail_cache <= tail /\ a[i] \in Handles
      /\ tail \in Ends
  BY LiveAnchor, EndsType DEF IInv
<1>2. a[i].tail_cache \in Nat
  BY <1>1 DEF Handles
<1> QED BY <1>1, <1>2 DEF has_item

LEMMA PopInv ==
  ASSUME IInv, NEW i \in Anchors, pop(i)
  PROVE  IInv'
<1>1. a[i].pc = "live" /\ UNCHANGED <<shared, p, gate, history>>
  BY DEF pop
<1>2. Live(i) /\ a[i] \in Handles /\ slots[i] = a[i].published
  BY <1>1, LiveAnchor
<1>3. PICK c : c = has_item(a[i])
  OBVIOUS
<1>4. c \in Ends /\ a[i].tail_cache <= c /\ c # a[i].read_cursor /\ c \in Nat
  BY <1>2, <1>3, HasItem, EndsType DEF pop, IInv
<1>5. PICK n \in DOMAIN frames : /\ a[i].read_cursor \in {frames[n].start, frames[n].at}
                                 /\ slots[i] <= frames[n].start /\ frames[n].end <= c
  BY <1>1, <1>2, <1>4, InFront
<1>6. decode_record(a[i].read_cursor) = [cur |-> frames[n].at, len |-> frames[n].record[1]]
  BY <1>2, <1>5, Decoded
<1>7. PICK h : h = [a[i] EXCEPT !.pc = "holding", !.tail_cache = c, !.read_cursor = frames[n].at,
                                !.len = frames[n].record[1]]
  OBVIOUS
<1>8. a' = [a EXCEPT ![i] = h]
  <2>1. a' = [a EXCEPT ![i].pc = "holding", ![i].tail_cache = c, ![i].read_cursor = frames[n].at,
                       ![i].len = frames[n].record[1]]
    BY <1>3, <1>6 DEF pop, next_msg
  <2>2. DOMAIN a = Anchors
    BY DEF IInv, TypeOK
  <2>3. a'[i] = h /\ DOMAIN a' = Anchors /\ \A j \in Anchors \ {i} : a'[j] = a[j]
    BY <2>1, <2>2, <1>7
  <2> QED BY <2>1, <2>2, <2>3, <1>7
<1>9. /\ h \in Handles /\ h.pc = "holding" /\ h.tail_cache = c /\ h.read_cursor = frames[n].at
      /\ h.len = frames[n].record[1] /\ h.published = a[i].published
  BY <1>2, <1>4, <1>7, AtFrame DEF Handles
<1>10. Placed(h)
  BY <1>2, <1>5, <1>9 DEF Placed, StandsAt
<1> QED BY <1>1, <1>2, <1>4, <1>8, <1>9, <1>10, AnchorStays

\* The record that an anchor borrows.
LEMMA Borrowed ==
  ASSUME IInv, NEW i \in Anchors, a[i].pc \in {"holding", "releasing", "callback"}
  PROVE  /\ Live(i) /\ a[i] \in Handles /\ slots[i] = a[i].published /\ slots[i] \in Nat
         /\ a[i].tail_cache \in Ends
         /\ \E n \in DOMAIN frames : StandsAt(a[i], n) /\ slots[i] <= frames[n].start
<1>1. /\ Live(i) /\ a[i] \in Handles /\ slots[i] = a[i].published /\ slots[i] \in Nat /\ Placed(a[i])
      /\ a[i].tail_cache \in Ends
  BY LiveAnchor
<1>2. PICK n \in DOMAIN frames : StandsAt(a[i], n)
  BY <1>1 DEF Placed, CaughtUp
<1> QED BY <1>1, <1>2 DEF StandsAt

LEMMA ForgetInv ==
  ASSUME IInv, NEW i \in Anchors, Forget(i)
  PROVE  IInv'
<1>1. a[i].pc = "holding" /\ UNCHANGED <<shared, p, gate, history>>
  BY DEF Forget
<1>2. /\ Live(i) /\ a[i] \in Handles /\ slots[i] = a[i].published /\ a[i].tail_cache \in Ends
  BY <1>1, Borrowed
<1>3. PICK n \in DOMAIN frames : StandsAt(a[i], n)
  BY <1>1, Borrowed
<1>4. PICK h : h = [a[i] EXCEPT !.pc = "live", !.len = 0]
  OBVIOUS
<1>5. a' = [a EXCEPT ![i] = h]
  <2>1. a' = [a EXCEPT ![i].pc = "live", ![i].len = 0] /\ DOMAIN a = Anchors
    BY DEF Forget, IInv, TypeOK
  <2>2. a'[i] = h /\ DOMAIN a' = Anchors /\ \A j \in Anchors \ {i} : a'[j] = a[j]
    BY <2>1, <1>4
  <2> QED BY <2>1, <2>2, <1>4
<1>6. /\ h \in Handles /\ h.pc = "live" /\ h.tail_cache = a[i].tail_cache
      /\ h.read_cursor = a[i].read_cursor /\ h.published = a[i].published
  BY <1>2, <1>4 DEF Handles
<1>7. Placed(h)
  BY <1>1, <1>3, <1>6 DEF Placed, StandsAt
<1> QED BY <1>1, <1>2, <1>5, <1>6, <1>7, AnchorStays

LEMMA LoadStarvingInv ==
  ASSUME IInv, NEW i \in Anchors, LoadStarving(i)
  PROVE  IInv'
<1>1. a[i].pc = "holding" /\ UNCHANGED <<shared, p, gate, history>>
  BY DEF LoadStarving
<1>2. /\ Live(i) /\ a[i] \in Handles /\ slots[i] = a[i].published /\ a[i].tail_cache \in Ends
  BY <1>1, Borrowed
<1>3. PICK n \in DOMAIN frames : StandsAt(a[i], n)
  BY <1>1, Borrowed
<1>4. PICK h : h = [a[i] EXCEPT !.pc = "releasing", !.span = starving]
  OBVIOUS
<1>5. a' = [a EXCEPT ![i] = h]
  <2>1. a' = [a EXCEPT ![i].pc = "releasing", ![i].span = starving] /\ DOMAIN a = Anchors
    BY DEF LoadStarving, IInv, TypeOK
  <2>2. a'[i] = h /\ DOMAIN a' = Anchors /\ \A j \in Anchors \ {i} : a'[j] = a[j]
    BY <2>1, <1>4
  <2> QED BY <2>1, <2>2, <1>4
<1>6. /\ h \in Handles /\ h.pc = "releasing" /\ h.tail_cache = a[i].tail_cache /\ h.len = a[i].len
      /\ h.read_cursor = a[i].read_cursor /\ h.published = a[i].published
  BY <1>2, <1>4 DEF Handles, IInv, TypeOK
<1>7. Placed(h)
  BY <1>1, <1>3, <1>6 DEF Placed, StandsAt
<1> QED BY <1>1, <1>2, <1>5, <1>6, <1>7, AnchorStays

LEMMA AdvanceInv ==
  ASSUME IInv, NEW i \in Anchors, advance(i)
  PROVE  IInv'
<1>1. a[i].pc = "releasing" /\ UNCHANGED <<buffer, counters, closed, starving, p, gate, history>>
  BY DEF advance
<1>2. /\ Live(i) /\ a[i] \in Handles /\ slots[i] = a[i].published /\ a[i].tail_cache \in Ends
      /\ slots[i] \in Nat
  BY <1>1, Borrowed
<1>3. PICK n \in DOMAIN frames : StandsAt(a[i], n) /\ slots[i] <= frames[n].start
  BY <1>1, Borrowed
<1>4. PICK read : read = a[i].read_cursor + record_len(a[i].len)
  OBVIOUS
<1>5. /\ read = frames[n].end /\ read <= a[i].tail_cache /\ slots[i] <= read /\ read \in Ends /\ read \in Nat
  <2>1. a[i].read_cursor = frames[n].at /\ a[i].len = frames[n].record[1] /\ frames[n].end <= a[i].tail_cache
    BY <1>1, <1>3 DEF StandsAt
  <2> QED BY <2>1, <1>2, <1>3, <1>4, AtFrame
<1>6. PICK h : h = [a[i] EXCEPT !.pc = "live", !.len = 0, !.span = 0, !.read_cursor = read]
  OBVIOUS
<1>7. /\ h \in Handles /\ h.pc = "live" /\ h.tail_cache = a[i].tail_cache
      /\ h.read_cursor = read /\ h.published = a[i].published
  BY <1>2, <1>5, <1>6 DEF Handles
<1>8. CASE MustPublish(a[i], read)
  <2>1. PICK g : g = [h EXCEPT !.published = read]
    OBVIOUS
  <2>2. slots' = [slots EXCEPT ![i] = read] /\ a' = [a EXCEPT ![i] = g]
    BY <1>4, <1>6, <1>8, <2>1 DEF advance
  <2>3. /\ g \in Handles /\ g.pc = "live" /\ g.tail_cache = a[i].tail_cache
        /\ g.read_cursor = read /\ g.published = read
    BY <1>5, <1>7, <2>1 DEF Handles
  <2>4. Placed(g)
    BY <1>2, <1>5, <2>3, PlacedAfter
  <2> QED BY <1>1, <1>2, <1>5, <2>2, <2>3, <2>4, AnchorAdvance
<1>9. CASE ~MustPublish(a[i], read)
  <2>1. UNCHANGED slots /\ a' = [a EXCEPT ![i] = h]
    BY <1>4, <1>6, <1>9 DEF advance
  <2>2. Placed(h)
    BY <1>2, <1>5, <1>7, PlacedAfter
  <2> QED BY <1>1, <1>2, <1>7, <2>1, <2>2, AnchorStays DEF shared
<1> QED BY <1>8, <1>9

\* drain, on to the record in front.
LEMMA PassRecordInv ==
  ASSUME IInv, NEW i \in Anchors, Live(i), NEW c \in Ends, NEW limit \in Nat, limit <= c,
         NEW n \in DOMAIN frames, a[i].read_cursor \in {frames[n].start, frames[n].at},
         slots[i] <= frames[n].start, frames[n].end <= c,
         PassRecord(i, c, limit), UNCHANGED <<shared, p, gate, history>>
  PROVE  IInv'
<1>1. a[i] \in Handles /\ slots[i] = a[i].published /\ c \in Nat
  BY LiveAnchor, EndsType DEF IInv
<1>2. decode_record(a[i].read_cursor) = [cur |-> frames[n].at, len |-> frames[n].record[1]]
  BY Decoded
<1>3. PICK h : h = [a[i] EXCEPT !.pc = "callback", !.tail_cache = c, !.limit = limit,
                                !.read_cursor = frames[n].end, !.len = frames[n].record[1]]
  OBVIOUS
<1>4. a' = [a EXCEPT ![i] = h]
  <2>1. PICK msg : msg = decode_record(a[i].read_cursor)
    OBVIOUS
  <2>2. msg.len = frames[n].record[1] /\ msg.cur + record_len(msg.len) = frames[n].end
    BY <1>2, <2>1, AtFrame
  <2>3. a' = [a EXCEPT ![i].pc = "callback", ![i].tail_cache = c, ![i].limit = limit,
                       ![i].read_cursor = msg.cur + record_len(msg.len), ![i].len = msg.len]
    BY <2>1 DEF PassRecord
  <2>4. a' = [a EXCEPT ![i].pc = "callback", ![i].tail_cache = c, ![i].limit = limit,
                       ![i].read_cursor = frames[n].end, ![i].len = frames[n].record[1]]
    BY <2>2, <2>3
  <2>5. DOMAIN a = Anchors
    BY DEF IInv, TypeOK
  <2>6. a'[i] = h /\ DOMAIN a' = Anchors /\ \A j \in Anchors \ {i} : a'[j] = a[j]
    BY <2>4, <2>5, <1>3
  <2> QED BY <2>4, <2>5, <2>6, <1>3
<1>5. /\ h \in Handles /\ h.pc = "callback" /\ h.tail_cache = c /\ h.read_cursor = frames[n].end
      /\ h.len = frames[n].record[1] /\ h.published = a[i].published /\ h.limit = limit
  BY <1>1, <1>3, AtFrame DEF Handles
<1>6. Placed(h)
  BY <1>1, <1>5 DEF Placed, StandsAt
<1> QED BY <1>4, <1>5, <1>6, AnchorStays

LEMMA BatchType == Batch \in Nat
<1>1. BatchDivisor \in Nat \ {0}
  BY AnchoredBytesAssumption
<1>2. Capacity \div BatchDivisor \in Int
  BY <1>1, CapacityType
<1> QED BY <1>2 DEF Batch, publish_batch, Clamp, MAX_PUBLISH_BATCH_BYTES

LEMMA DrainBeginInv ==
  ASSUME IInv, NEW i \in Anchors, DrainBegin(i)
  PROVE  IInv'
<1>1. /\ a[i].pc = "live" /\ tail # a[i].read_cursor /\ UNCHANGED <<shared, p, gate, history>>
      /\ PassRecord(i, tail, Min({tail, a[i].read_cursor + Batch}))
  BY DEF DrainBegin
<1>2. Live(i) /\ a[i] \in Handles /\ a[i].tail_cache <= tail /\ tail \in Ends /\ tail \in Nat
  BY <1>1, LiveAnchor, EndsType DEF IInv
<1>3. PICK n \in DOMAIN frames : /\ a[i].read_cursor \in {frames[n].start, frames[n].at}
                                 /\ slots[i] <= frames[n].start /\ frames[n].end <= tail
  BY <1>1, <1>2, InFront
<1>4. PICK limit : limit = Min({tail, a[i].read_cursor + Batch})
  OBVIOUS
<1>5. limit \in Nat /\ limit <= tail
  <2>1. a[i].read_cursor + Batch \in Nat
    BY <1>2, BatchType DEF Handles
  <2> QED BY <2>1, <1>2, <1>4, MinOf
<1> QED BY <1>1, <1>2, <1>3, <1>4, <1>5, PassRecordInv

LEMMA DrainRecordInv ==
  ASSUME IInv, NEW i \in Anchors, DrainRecord(i)
  PROVE  IInv'
<1>1. /\ a[i].pc = "callback" /\ a[i].read_cursor < a[i].limit /\ UNCHANGED <<shared, p, gate, history>>
      /\ PassRecord(i, a[i].tail_cache, a[i].limit)
  BY DEF DrainRecord
<1>2. Live(i) /\ a[i] \in Handles /\ a[i].tail_cache \in Ends /\ slots[i] \in Nat
  BY <1>1, Borrowed
<1>3. PICK m \in DOMAIN frames : StandsAt(a[i], m) /\ slots[i] <= frames[m].start
  BY <1>1, Borrowed
<1>4. a[i].read_cursor = frames[m].end /\ a[i].limit <= a[i].tail_cache
  BY <1>1, <1>3 DEF StandsAt
<1>5. a[i].limit \in Nat /\ a[i].tail_cache \in Nat
  BY <1>2 DEF Handles
<1>6. frames[m].end < a[i].tail_cache /\ slots[i] <= frames[m].end
  BY <1>1, <1>2, <1>3, <1>4, <1>5, AtFrame
<1>7. PICK n \in DOMAIN frames : frames[n].start = frames[m].end /\ frames[n].end <= a[i].tail_cache
  BY <1>2, <1>6, AtFrame, NextFrame DEF IInv
<1> QED BY <1>1, <1>2, <1>4, <1>5, <1>6, <1>7, PassRecordInv

LEMMA DrainEndInv ==
  ASSUME IInv, NEW i \in Anchors, DrainEnd(i)
  PROVE  IInv'
<1>1. /\ a[i].pc = "callback" /\ UNCHANGED <<buffer, counters, closed, starving, p, gate, history>>
      /\ slots' = [slots EXCEPT ![i] = a[i].read_cursor]
  BY DEF DrainEnd
<1>2. Live(i) /\ a[i] \in Handles /\ a[i].tail_cache \in Ends /\ slots[i] \in Nat
  BY <1>1, Borrowed
<1>3. PICK n \in DOMAIN frames : StandsAt(a[i], n) /\ slots[i] <= frames[n].start
  BY <1>1, Borrowed
<1>4. /\ a[i].read_cursor = frames[n].end /\ frames[n].end <= a[i].tail_cache
      /\ slots[i] <= frames[n].end /\ frames[n].end \in Ends /\ frames[n].end \in Nat
  <2>1. a[i].read_cursor = frames[n].end /\ frames[n].end <= a[i].tail_cache
    BY <1>1, <1>3 DEF StandsAt
  <2> QED BY <2>1, <1>2, <1>3, AtFrame
<1>5. PICK h : h = [a[i] EXCEPT !.pc = "live", !.published = frames[n].end, !.len = 0, !.limit = 0]
  OBVIOUS
<1>6. a' = [a EXCEPT ![i] = h]
  <2>1. a' = [a EXCEPT ![i].pc = "live", ![i].published = frames[n].end, ![i].len = 0, ![i].limit = 0]
    BY <1>4 DEF DrainEnd
  <2>2. DOMAIN a = Anchors
    BY DEF IInv, TypeOK
  <2>3. a'[i] = h /\ DOMAIN a' = Anchors /\ \A j \in Anchors \ {i} : a'[j] = a[j]
    BY <2>1, <2>2, <1>5
  <2> QED BY <2>1, <2>2, <2>3, <1>5
<1>7. /\ h \in Handles /\ h.pc = "live" /\ h.tail_cache = a[i].tail_cache
      /\ h.read_cursor = frames[n].end /\ h.published = frames[n].end
  BY <1>2, <1>4, <1>5 DEF Handles
<1>8. Placed(h)
  BY <1>2, <1>4, <1>7, PlacedAfter
<1> QED BY <1>1, <1>2, <1>4, <1>6, <1>7, <1>8, AnchorAdvance

LEMMA DetachInv ==
  ASSUME IInv, NEW i \in Anchors, Detach(i)
  PROVE  IInv'
<1>1. /\ a[i].pc = "live" /\ UNCHANGED <<buffer, counters, closed, starving, p, gate, history>>
      /\ slots' = [slots EXCEPT ![i] = DETACHED]
      /\ a' = [a EXCEPT ![i] = [NoAnchor EXCEPT !.read_cursor = a[i].tail_cache]]
  BY DEF Detach
<1>2. /\ Live(i) /\ a[i] \in Handles /\ slots[i] \in Nat /\ a[i].tail_cache <= tail
      /\ cached_cursors[i] <= slots[i] /\ cached_cursors[i] \in Int
  BY <1>1, LiveAnchor
<1>3. slots[i] <= a[i].tail_cache /\ a[i].tail_cache \in Nat
  BY <1>2, KnowsItsSlot DEF Handles
<1>4. PICK h : h = [NoAnchor EXCEPT !.read_cursor = a[i].tail_cache]
  OBVIOUS
<1>5. h \in Handles /\ h.pc = "out" /\ h.read_cursor = a[i].tail_cache
  BY <1>3, <1>4 DEF NoAnchor, Handles
<1>6. cached_cursors[i] <= h.read_cursor
  BY <1>2, <1>3, <1>5
<1> QED BY <1>1, <1>2, <1>4, <1>5, <1>6, AnchorMove

-----------------------------------------------------------------------------
(* The invariant, and what gates the producer *)

\* An observer stores nothing that anyone else reads.
LEMMA ObserverQuiet ==
  ASSUME ObserverNext
  PROVE  UNCHANGED <<shared, p, gate, history, a>>
BY DEF ObserverNext, Observe, Refresh, ObserveClosed, Recheck, read_record, WindowCheck, LoadHeader,
       SkipPadding, Copy, Accept, reposition, RepositionTail, RepositionLatest, SkipToLatest

LEMMA QuietStep ==
  ASSUME IInv, UNCHANGED <<shared, p, gate, history, a>>
  PROVE  IInv'
<1>1. TypeOK'
  BY DEF IInv, TypeOK, shared, counters, gate, history
<1>2. FramesInv' /\ AnchorInv'
  BY FramesKept, AnchorsStill DEF IInv, shared, counters, history
<1>3. GateInv'
  BY GateStill DEF IInv, shared, gate
<1>4. NewTail' = NewTail /\ RecordAt' = RecordAt /\ Pending' = Pending
  BY DEF NewTail, RecordAt, Needed, Pad, Pending, history
<1>5. ProducerInv'
  BY <1>4 DEF IInv, ProducerInv, Running, Live, shared, counters, gate, history
<1>6. ContentsInv'
  BY <1>4 DEF IInv, ContentsInv, Held, HeldPadding, HeldRecord, PayloadAt, shared, counters, history
<1> QED BY <1>1, <1>2, <1>3, <1>5, <1>6 DEF IInv

LEMMA Initial == Init => IInv
<1> SUFFICES ASSUME Init PROVE IInv
  OBVIOUS
<1>1. PICK first \in Anchors :
        /\ slots = [i \in Anchors |-> IF i = first THEN 0 ELSE DETACHED]
        /\ a = [i \in Anchors |-> IF i = first THEN Subscribed(0) ELSE NoAnchor]
  BY DEF Init
<1>2. /\ buffer = [w \in Lanes |-> 0] /\ tail_intent = 0 /\ latest = 0 /\ tail = 0 /\ closed = FALSE
      /\ starving = 0 /\ p = Producer(0, 0, 0) /\ cached_cursors = [i \in Anchors |-> 0] /\ fence_seq = 0
      /\ frames = << >> /\ closes = {} /\ pushes = 0 /\ sessions = 1
  BY DEF Init, Lanes
<1>3. /\ p \in Producers /\ p.pc = "idle" /\ p.next = 0 /\ p.cached_min = 0 /\ p.intent_floor = 0
  BY <1>2 DEF Producer, Producers, Quiet
<1>4. NoAnchor \in Handles /\ Subscribed(0) \in Handles
  BY DEF NoAnchor, Subscribed, Handles
<1>5. TypeOK
  <2>1. slots \in [Anchors -> Nat \union {DETACHED}] /\ a \in [Anchors -> Handles]
    BY <1>1, <1>4
  <2>2. closed \in BOOLEAN
    BY <1>2, Zenon
  <2> QED BY <1>2, <1>3, <2>1, <2>2, AnchoredBytesAssumption DEF TypeOK
<1>6. Len(frames) = 0 /\ DOMAIN frames = {} /\ frames \in Seq(Frames)
  BY <1>2, EmptySeq
<1>7. FramesInv /\ Ends = {0}
  <2>1. \A n \in 0 .. Len(frames) : n = 0
    BY <1>6
  <2>2. End(0) = 0 /\ 0 \in 0 .. Len(frames)
    BY <1>6 DEF End
  <2>3. \A m, n \in 0 .. Len(frames) : m < n => End(m) < End(n)
    BY <2>1
  <2>4. Ends = {0}
    BY <2>1, <2>2 DEF Ends
  <2> QED BY <1>2, <1>6, <2>2, <2>3, <2>4 DEF FramesInv
<1>8. ContentsInv
  BY <1>3, <1>6 DEF ContentsInv
<1>9. \A i \in Anchors :
        \/ slots[i] = 0 /\ a[i] = Subscribed(0) /\ Live(i)
        \/ slots[i] = DETACHED /\ a[i] = NoAnchor /\ ~Live(i)
  BY <1>1 DEF Live, DETACHED
<1>10. AnchorInv
  <2> SUFFICES ASSUME NEW i \in Anchors PROVE AnchorOk(i)
    BY DEF AnchorInv
  <2>1. CASE slots[i] = 0 /\ a[i] = Subscribed(0) /\ Live(i)
    BY <1>7, <2>1 DEF AnchorOk, Placed, CaughtUp, Subscribed, NoAnchor
  <2>2. CASE a[i] = NoAnchor /\ ~Live(i)
    BY <2>2 DEF AnchorOk, NoAnchor
  <2> QED BY <1>9, <2>1, <2>2
<1>11. GateInv
  <2>1. ASSUME NEW i \in Anchors PROVE GateOk(i)
    <3>1. cached_cursors[i] = 0 /\ tail = 0 /\ tail_intent = 0 /\ fence_seq = 0
      BY <1>2
    <3>2. CASE slots[i] = 0 /\ Live(i)
      BY <3>1, <3>2, CapacityType DEF GateOk
    <3>3. CASE a[i] = NoAnchor /\ ~Live(i)
      BY <3>1, <3>3, CapacityType DEF GateOk, NoAnchor
    <3> QED BY <1>9, <3>2, <3>3
  <2> QED BY <1>2, <2>1, CapacityType DEF GateInv
<1>12. ProducerInv
  <2>1. \A i \in Anchors : Live(i) => p.cached_min <= slots[i]
    BY <1>3, <1>9
  <2> QED BY <1>2, <1>3, <2>1 DEF ProducerInv, Sized, Writing, Quiet
<1> QED BY <1>5, <1>7, <1>8, <1>10, <1>11, <1>12 DEF IInv

LEMMA Inductive == IInv /\ [Next]_vars => IInv'
<1> SUFFICES ASSUME IInv, [Next]_vars PROVE IInv'
  OBVIOUS
<1>1. CASE Gate
  BY <1>1, FrameInv, RescanInv, RaiseStarvingInv, WaitForSpaceInv, AbandonInv DEF Gate
<1>2. CASE write_frame
  BY <1>2, DeclareInv, WriteLanesInv, StoreLatestInv, StoreTailInv DEF write_frame
<1>3. CASE Succession
  BY <1>3, DropProducerInv, DieInv, AttachInv, HealInv DEF Succession
<1>4. ASSUME NEW i \in Anchors, AnchorNext(i) PROVE IInv'
  BY <1>4, SubscribeInv, PopInv, ForgetInv, LoadStarvingInv, AdvanceInv, DrainBeginInv, DrainRecordInv,
     DrainEndInv, DetachInv DEF AnchorNext, Release, Drain
<1>5. CASE ObserverNext
  BY <1>5, ObserverQuiet, QuietStep
<1>6. CASE UNCHANGED vars
  BY <1>6, QuietStep DEF vars
<1> QED BY <1>1, <1>2, <1>3, <1>4, <1>5, <1>6 DEF Next

\* The two protocols of the ring, with any number of anchors and over any number of
\* sessions: the gate, the frames, the lanes they hold and where the anchors stand.
THEOREM Invariance == Spec => []IInv
<1>1. Init => IInv
  BY Initial
<1>2. IInv /\ [Next]_vars => IInv'
  BY Inductive
<1> QED BY <1>1, <1>2, PTL DEF Spec

\* The intent never passes what a live anchor has released by more than a ring, so
\* that an observer at or past it never fails a window check.
THEOREM AnchorsShield == Spec => []AnchorShieldsObservers
<1>1. IInv => AnchorShieldsObservers
  <2> SUFFICES ASSUME IInv, NEW i \in Anchors, Live(i) PROVE tail_intent - slots[i] <= Capacity
    BY DEF AnchorShieldsObservers
  <2>1. tail_intent \in Nat /\ slots[i] \in Nat /\ tail_intent <= slots[i] + Capacity
    BY LiveAnchor
  <2> QED BY <2>1, CapacityType
<1> QED BY <1>1, Invariance, PTL

-----------------------------------------------------------------------------
(* What the anchors are lent *)

\* How many records end at or before a cursor.
LEMMA PastIs ==
  ASSUME FramesInv, NEW n \in 0 .. Len(frames), NEW c \in Nat, End(n) <= c,
         n + 1 \in DOMAIN frames => c < frames[n + 1].end
  PROVE  PastOf(c) = n
<1>1. Len(frames) \in Nat /\ DOMAIN frames = 1 .. Len(frames) /\ n \in Nat
  BY FrameIndex
<1>2. ASSUME NEW m \in DOMAIN frames PROVE frames[m].end <= c <=> m \in 1 .. n
  <2>1. /\ m \in Nat /\ m > 0 /\ m \in 0 .. Len(frames) /\ frames[m].end = End(m) /\ End(m) \in Nat
        /\ End(n) \in Nat
    BY FrameIndex, EndType
  <2>2. CASE m < n
    <3>1. End(m) < End(n)
      BY <2>1, <2>2 DEF FramesInv
    <3> QED BY <1>1, <2>1, <2>2, <3>1
  <2>3. CASE m = n
    BY <2>1, <2>3
  <2>4. CASE m = n + 1
    BY <1>1, <2>1, <2>4
  <2>5. CASE m > n + 1
    <3>1. n + 1 \in DOMAIN frames /\ n + 1 \in 0 .. Len(frames)
      BY <1>1, <2>1, <2>5
    <3>2. End(n + 1) < End(m)
      BY <2>1, <2>5, <3>1 DEF FramesInv
    <3>3. frames[n + 1].end = End(n + 1) /\ End(n + 1) \in Nat
      BY <3>1, FrameIndex, EndType
    <3> QED BY <1>1, <2>1, <2>5, <3>1, <3>2, <3>3
  <2> QED BY <1>1, <2>1, <2>2, <2>3, <2>4, <2>5
<1>3. {m \in DOMAIN frames : frames[m].end <= c} = 1 .. n
  <2>1. \A m \in 1 .. n : m \in DOMAIN frames
    BY <1>1
  <2> QED BY <1>2, <2>1
<1>4. Cardinality(1 .. n) = n
  <2>1. Cardinality(1 .. n) = IF 1 > n THEN 0 ELSE n - 1 + 1
    BY <1>1, FS_Interval
  <2> QED BY <2>1, <1>1
<1> QED BY <1>3, <1>4 DEF PastOf

LEMMA PastInFrame ==
  ASSUME IInv, NEW n \in DOMAIN frames, NEW c \in Nat, frames[n].start <= c, c < frames[n].end
  PROVE  PastOf(c) = n - 1
<1>1. /\ n \in Nat /\ n - 1 \in 0 .. Len(frames) /\ (n - 1) + 1 = n /\ frames[n].start = End(n - 1)
  BY FrameIndex DEF IInv
<1> QED BY <1>1, PastIs DEF IInv

LEMMA PastAtEnd ==
  ASSUME IInv, NEW n \in 0 .. Len(frames)
  PROVE  PastOf(End(n)) = n
<1>1. End(n) \in Nat
  BY EndType DEF IInv
<1>2. ASSUME n + 1 \in DOMAIN frames PROVE End(n) < frames[n + 1].end
  <2>1. (n + 1) - 1 = n /\ frames[n + 1].start = End((n + 1) - 1)
    BY <1>2, FrameIndex DEF IInv
  <2> QED BY <1>2, <2>1, AtFrame
<1> QED BY <1>1, <1>2, PastIs DEF IInv

\* Where an anchor stands in the log: before the record that it is at, and past
\* the one whose end it is at.
LEMMA PastOfAnchor ==
  ASSUME IInv, NEW i \in Anchors, NEW n \in DOMAIN frames, StandsAt(a[i], n)
  PROVE  Past(i) = n - 1 /\ (Lending(i) => Start(i) = frames[n].at /\ a[i].len = frames[n].record[1])
<1>1. /\ frames[n].start \in Nat /\ frames[n].at \in Nat /\ frames[n].end \in Nat
      /\ frames[n].start <= frames[n].at /\ frames[n].at < frames[n].end
      /\ frames[n].end = frames[n].at + record_len(frames[n].record[1])
  BY AtFrame
<1>2. record_len(frames[n].record[1]) \in Nat
  <2>1. frames[n].record[1] \in Int /\ frames[n].record[1] >= -1
    BY AtFrame
  <2> QED BY <2>1, RecordLen
<1>3. CASE a[i].pc = "live"
  <2>1. Start(i) \in {frames[n].start, frames[n].at}
    BY <1>3 DEF StandsAt, Start
  <2>2. Start(i) \in Nat /\ frames[n].start <= Start(i) /\ Start(i) < frames[n].end
    BY <1>1, <2>1
  <2>3. PICK c \in Nat : c = Start(i)
    BY <2>2
  <2> QED BY <1>3, <2>2, <2>3, PastInFrame DEF Past, Lending
<1>4. CASE a[i].pc # "live"
  <2>1. Start(i) = frames[n].at /\ a[i].len = frames[n].record[1]
    <3>1. CASE a[i].pc = "callback"
      <4>1. a[i].read_cursor = frames[n].end /\ a[i].len = frames[n].record[1]
        BY <3>1 DEF StandsAt
      <4>2. a[i].read_cursor - record_len(a[i].len) = frames[n].at
        BY <4>1, <1>1, <1>2
      <4> QED BY <3>1, <4>1, <4>2 DEF Start
    <3>2. CASE a[i].pc # "callback"
      BY <1>4, <3>2 DEF StandsAt, Start
    <3> QED BY <3>1, <3>2
  <2> QED BY <1>1, <2>1, PastInFrame DEF Past
<1> QED BY <1>3, <1>4

\* The abstract position of an anchor, in every state of the invariant.
AbstractInv ==
  \A i \in Anchors :
    /\ Live(i) <=> a[i].pc # "out"
    /\ Live(i) => Start(i) <= tail /\ Start(i) \in Nat
    /\ Lending(i) => /\ Live(i) /\ Past(i) + 1 \in DOMAIN frames
                     /\ Lent(i) = frames[Past(i) + 1].record /\ Lent(i) # << >>

LEMMA Abstracts == IInv => AbstractInv
<1> SUFFICES ASSUME IInv, NEW i \in Anchors
             PROVE  /\ Live(i) <=> a[i].pc # "out"
                    /\ Live(i) => Start(i) <= tail /\ Start(i) \in Nat
                    /\ Lending(i) => /\ Live(i) /\ Past(i) + 1 \in DOMAIN frames
                                     /\ Lent(i) = frames[Past(i) + 1].record /\ Lent(i) # << >>
  BY DEF AbstractInv
<1>1. /\ Live(i) <=> a[i].pc # "out"
      /\ Live(i) => a[i].tail_cache <= tail /\ Placed(a[i]) /\ tail \in Nat /\ a[i] \in Handles
  BY LiveAnchor
<1>2. ASSUME Live(i) PROVE Start(i) <= tail /\ Start(i) \in Nat
  <2>1. CASE CaughtUp(a[i])
    BY <1>1, <1>2, <2>1 DEF CaughtUp, Start, Handles
  <2>2. CASE \E n \in DOMAIN frames : StandsAt(a[i], n)
    <3>1. PICK n \in DOMAIN frames : StandsAt(a[i], n)
      BY <2>2
    <3>2. Start(i) \in {frames[n].start, frames[n].at}
      <4>1. CASE Lending(i)
        BY <3>1, <4>1, PastOfAnchor
      <4>2. CASE ~Lending(i)
        BY <3>1, <4>2 DEF StandsAt, Start, Lending
      <4> QED BY <4>1, <4>2
    <3> QED BY <1>1, <1>2, <3>2, AtFrame
  <2> QED BY <1>1, <1>2, <2>1, <2>2 DEF Placed
<1>3. ASSUME Lending(i)
      PROVE  /\ Live(i) /\ Past(i) + 1 \in DOMAIN frames
             /\ Lent(i) = frames[Past(i) + 1].record /\ Lent(i) # << >>
  <2>1. a[i].pc \in {"holding", "releasing", "callback"}
    BY <1>3 DEF Lending
  <2>2. PICK n \in DOMAIN frames : StandsAt(a[i], n) /\ slots[i] <= frames[n].start
    BY <2>1, Borrowed
  <2>3. Past(i) = n - 1 /\ Start(i) = frames[n].at /\ a[i].len = frames[n].record[1]
    BY <1>3, <2>2, PastOfAnchor
  <2>4. n \in Nat /\ Past(i) + 1 = n
    BY <2>3, FrameIndex DEF IInv
  <2>5. Live(i)
    BY <2>1, Borrowed
  <2>6. {buffer[w] : w \in PayloadAt(Position(frames[n].at), frames[n].record[1])} = frames[n].record[2]
    BY <2>2, <2>5, Decoded
  <2>7. PICK f : f = frames[n]
    OBVIOUS
  <2>8. f.record = <<f.record[1], f.record[2]>>
    BY <2>7, Framed DEF IInv, FramesInv
  <2>9. Lent(i) = <<f.record[1], f.record[2]>>
    BY <1>3, <2>3, <2>6, <2>7 DEF Lent
  <2>10. Lent(i) # << >>
    BY <2>9
  <2> QED BY <2>4, <2>5, <2>7, <2>8, <2>9, <2>10
<1> QED BY <1>1, <1>2, <1>3

-----------------------------------------------------------------------------
(* The refinement of RecordBroadcast *)

LEMMA LogType ==
  ASSUME FramesInv
  PROVE  /\ Log \in Seq(AllRecords) /\ Len(Log) = Len(frames) /\ DOMAIN Log = DOMAIN frames
         /\ \A n \in DOMAIN frames : Log[n] = frames[n].record
<1>1. Len(frames) \in Nat /\ DOMAIN frames = 1 .. Len(frames)
  BY FrameIndex
<1>2. \A n \in DOMAIN frames : frames[n].record \in AllRecords
  BY DEF FramesInv, WellFramed, Frames
<1>3. PICK N \in Nat : N = Len(frames)
  BY <1>1
<1>4. Log = [n \in 1 .. N |-> frames[n].record]
  BY <1>1, <1>3 DEF Log
<1>5. Log \in [1 .. N -> AllRecords]
  BY <1>1, <1>2, <1>3, <1>4
<1>6. Log \in Seq(AllRecords)
  BY <1>5, IsASeq
<1>7. Len(Log) = N
  BY <1>5, <1>6, LenProperties
<1> QED BY <1>1, <1>3, <1>4, <1>6, <1>7

Borrowing == {"holding", "releasing", "callback"}

\* The abstract position of an anchor, before a step and after it.
LEMMA Before ==
  ASSUME IInv, NEW i \in Anchors
  PROVE  At[i] = [past |-> IF a[i].pc = "out" THEN -1 ELSE Past(i),
                  lent |-> IF a[i].pc \in Borrowing THEN Log[Past(i) + 1] ELSE << >>]
<1>1. AbstractInv
  BY Abstracts
<1>2. Lent(i) = IF a[i].pc \in Borrowing THEN Log[Past(i) + 1] ELSE << >>
  BY <1>1, LogType DEF AbstractInv, Lending, Lent, Borrowing, IInv
<1> QED BY <1>1, <1>2 DEF At, AbstractInv

LEMMA After ==
  ASSUME FramesInv, AbstractInv', UNCHANGED frames, NEW i \in Anchors, NEW c, Start(i)' = c
  PROVE  At'[i] = [past |-> IF a'[i].pc = "out" THEN -1 ELSE PastOf(c),
                   lent |-> IF a'[i].pc \in Borrowing THEN Log[PastOf(c) + 1] ELSE << >>]
<1>1. Past(i)' = PastOf(c) /\ DOMAIN frames' = DOMAIN frames
  BY DEF Past, PastOf
<1>2. Lent(i)' = IF a'[i].pc \in Borrowing THEN Log[PastOf(c) + 1] ELSE << >>
  BY <1>1, LogType DEF AbstractInv, Lending, Lent, Borrowing
<1> QED BY <1>1, <1>2 DEF At, AbstractInv

LEMMA Stutters ==
  ASSUME IInv, AbstractInv', UNCHANGED <<frames, a, slots>>
  PROVE  Log' = Log /\ At' = At
<1>1. Log' = Log
  BY DEF Log
<1>2. ASSUME NEW i \in Anchors PROVE At'[i] = At[i]
  <2>1. PICK c : c = Start(i)
    OBVIOUS
  <2>2. Start(i)' = c /\ Past(i) = PastOf(c) /\ a'[i].pc = a[i].pc
    BY <2>1 DEF Start, Past
  <2> QED BY <2>2, Before, After DEF IInv
<1>3. At = [i \in Anchors |-> At[i]] /\ At' = [i \in Anchors |-> At'[i]]
  BY DEF At
<1> QED BY <1>1, <1>2, <1>3

\* A step of one anchor leaves the others where they are.
LEMMA OthersKeep ==
  ASSUME IInv, AbstractInv', NEW i \in Anchors, UNCHANGED frames,
         \A j \in Anchors \ {i} : a'[j] = a[j]
  PROVE  Log' = Log /\ \A j \in Anchors \ {i} : At'[j] = At[j]
<1>1. Log' = Log
  BY DEF Log
<1>2. ASSUME NEW j \in Anchors, j # i PROVE At'[j] = At[j]
  <2>1. PICK c : c = Start(j)
    OBVIOUS
  <2>2. a'[j] = a[j]
    BY <1>2
  <2>3. Start(j)' = c /\ Past(j) = PastOf(c)
    BY <2>1, <2>2 DEF Start, Past
  <2>4. At'[j] = [past |-> IF a'[j].pc = "out" THEN -1 ELSE PastOf(c),
                  lent |-> IF a'[j].pc \in Borrowing THEN Log[PastOf(c) + 1] ELSE << >>]
    BY <2>3, After DEF IInv
  <2>5. At[j] = [past |-> IF a[j].pc = "out" THEN -1 ELSE Past(j),
                 lent |-> IF a[j].pc \in Borrowing THEN Log[Past(j) + 1] ELSE << >>]
    BY Before
  <2> QED BY <2>2, <2>3, <2>4, <2>5
<1> QED BY <1>1, <1>2

LEMMA OneMoves ==
  ASSUME IInv, AbstractInv', NEW i \in Anchors, UNCHANGED frames,
         \A j \in Anchors \ {i} : a'[j] = a[j],
         ToAnchors!Move(At[i], At'[i])
  PROVE  ToAnchors!Next
<1>1. Log' = Log /\ \A j \in Anchors \ {i} : At'[j] = At[j]
  BY OthersKeep
<1> QED BY <1>1 DEF ToAnchors!Next

LEMMA OthersStay ==
  ASSUME IInv, AbstractInv', NEW i \in Anchors, UNCHANGED frames,
         \A j \in Anchors \ {i} : a'[j] = a[j], At'[i] = At[i]
  PROVE  Log' = Log /\ At' = At
<1>1. Log' = Log /\ \A j \in Anchors \ {i} : At'[j] = At[j]
  BY OthersKeep
<1>2. At = [j \in Anchors |-> At[j]] /\ At' = [j \in Anchors |-> At'[j]]
  BY DEF At
<1>3. \A j \in Anchors : At'[j] = At[j]
  BY <1>1
<1> QED BY <1>1, <1>2, <1>3

LEMMA StoreTailPublishes ==
  ASSUME IInv, AbstractInv, AbstractInv', StoreTail
  PROVE  ToAnchors!Next
<1>1. /\ p.pc = "pointed" /\ tail' = NewTail /\ frames' = Append(frames, Pending)
      /\ UNCHANGED <<slots, a>>
  BY DEF StoreTail, Pending
<1>2. PICK f : f = Pending
  OBVIOUS
<1>3. WellFramed(f) /\ f.start = tail /\ f.end = NewTail
  BY <1>1, <1>2, PendingFramed DEF IInv, Writing
<1>4. /\ FramesInv' /\ tail < tail' /\ frames'[Len(frames) + 1] = f
      /\ Len(frames') = Len(frames) + 1 /\ DOMAIN frames' = 1 .. Len(frames) + 1
      /\ \A n \in DOMAIN frames : n \in DOMAIN frames' /\ frames'[n] = frames[n]
      /\ \A n \in DOMAIN frames' : n \in DOMAIN frames \/ n = Len(frames) + 1
  BY <1>1, <1>2, <1>3, FramesGrow DEF IInv
<1>5. PICK N \in Nat : N = Len(frames) /\ DOMAIN frames = 1 .. N
  BY FrameIndex DEF IInv
<1>6. f.record \in AllRecords
  BY <1>3 DEF WellFramed, Frames
<1>7. Log \in Seq(AllRecords) /\ Len(Log) = N /\ \A n \in 1 .. N : Log[n] = frames[n].record
  BY <1>5, LogType DEF IInv
<1>8. Log' = [n \in 1 .. N + 1 |-> frames'[n].record]
  BY <1>4, <1>5 DEF Log
<1>9. /\ Append(Log, f.record) \in Seq(AllRecords) /\ Len(Append(Log, f.record)) = N + 1
      /\ Append(Log, f.record)[N + 1] = f.record
      /\ \A n \in 1 .. N : Append(Log, f.record)[n] = Log[n]
  BY <1>6, <1>7, AppendProperties
<1>10. Log' = Append(Log, f.record)
  <2>1. DOMAIN Append(Log, f.record) = 1 .. N + 1
    BY <1>9, LenProperties
  <2>2. Append(Log, f.record) = [n \in 1 .. N + 1 |-> Append(Log, f.record)[n]]
    BY <2>1, <1>6, <1>7
  <2>3. ASSUME NEW n \in 1 .. N + 1 PROVE frames'[n].record = Append(Log, f.record)[n]
    <3>1. CASE n \in 1 .. N
      <4>1. frames'[n] = frames[n]
        BY <1>4, <1>5, <3>1
      <4>2. Append(Log, f.record)[n] = frames[n].record
        BY <1>7, <1>9, <3>1
      <4> QED BY <4>1, <4>2
    <3>2. CASE n = N + 1
      <4>1. frames'[n] = f
        BY <1>4, <1>5, <3>2
      <4> QED BY <1>9, <3>2, <4>1
    <3>3. n \in 1 .. N \/ n = N + 1
      BY <1>5
    <3> QED BY <3>1, <3>2, <3>3
  <2> QED BY <1>8, <2>2, <2>3
<1>11. Len(Log') = Len(Log) + 1
  BY <1>7, <1>9, <1>10
<1>12. ASSUME NEW i \in Anchors PROVE At'[i] = At[i]
  <2>1. Live(i)' = Live(i) /\ Start(i)' = Start(i) /\ Lending(i)' = Lending(i)
    BY <1>1 DEF Live, Start, Lending
  <2>2. CASE ~Live(i)
    BY <2>1, <2>2 DEF At, AbstractInv, Lent
  <2>3. CASE Live(i)
    <3>1. Start(i) \in Nat /\ Start(i) <= tail /\ tail \in Nat /\ NewTail \in Nat
      BY <2>3, PendingType DEF AbstractInv, IInv, TypeOK
    <3>2. PICK c \in Nat : c = Start(i)
      BY <3>1
    <3>3. ~(f.end <= c)
      BY <1>1, <1>3, <1>4, <3>1, <3>2
    <3>4. {n \in DOMAIN frames' : frames'[n].end <= c} = {n \in DOMAIN frames : frames[n].end <= c}
      BY <1>4, <3>3
    <3>5. Past(i)' = Past(i)
      BY <2>1, <3>2, <3>4 DEF Past, PastOf
    <3>6. Lent(i)' = Lent(i)
      <4>1. CASE Lending(i)
        BY <1>4, <2>1, <3>5, <4>1 DEF AbstractInv
      <4>2. CASE ~Lending(i)
        BY <2>1, <4>2 DEF Lent
      <4> QED BY <4>1, <4>2
    <3> QED BY <2>1, <3>5, <3>6 DEF At
  <2> QED BY <2>2, <2>3
<1>13. At' = At
  <2>1. At = [i \in Anchors |-> At[i]] /\ At' = [i \in Anchors |-> At'[i]]
    BY DEF At
  <2> QED BY <1>12, <2>1
<1> QED BY <1>6, <1>10, <1>11, <1>13 DEF ToAnchors!Next, ToAnchors!Publish

\* Where a step leaves an anchor: at the end of a record, before one, or borrowing it.
LEMMA EndsUp ==
  ASSUME IInv, AbstractInv', UNCHANGED frames, NEW i \in Anchors, a'[i].pc = "live",
         NEW k \in 0 .. Len(frames), Start(i)' = End(k)
  PROVE  At'[i] = ToAnchors!Past(k)
<1>1. PICK c : c = End(k)
  OBVIOUS
<1>2. PastOf(c) = k
  BY <1>1, PastAtEnd
<1>3. At'[i] = [past |-> PastOf(c), lent |-> << >>]
  <2>1. Start(i)' = c
    BY <1>1
  <2>2. a'[i].pc # "out" /\ a'[i].pc \notin Borrowing
    BY DEF Borrowing
  <2> QED BY <2>1, <2>2, After DEF IInv
<1> QED BY <1>2, <1>3 DEF ToAnchors!Past, ToAnchors!None

LEMMA GivenBack ==
  ASSUME IInv, AbstractInv', UNCHANGED frames, NEW i \in Anchors, a'[i].pc = "live",
         NEW n \in DOMAIN frames, Start(i)' = frames[n].at
  PROVE  At'[i] = ToAnchors!Past(n - 1)
<1>1. PICK c : c = frames[n].at
  OBVIOUS
<1>2. PastOf(c) = n - 1
  BY <1>1, AtFrame, PastInFrame
<1>3. At'[i] = [past |-> PastOf(c), lent |-> << >>]
  <2>1. Start(i)' = c
    BY <1>1
  <2>2. a'[i].pc # "out" /\ a'[i].pc \notin Borrowing
    BY DEF Borrowing
  <2> QED BY <2>1, <2>2, After DEF IInv
<1> QED BY <1>2, <1>3 DEF ToAnchors!Past, ToAnchors!None

LEMMA IsLent ==
  ASSUME IInv, AbstractInv', UNCHANGED frames, NEW i \in Anchors, a'[i].pc \in Borrowing,
         NEW n \in DOMAIN frames, Start(i)' = frames[n].at
  PROVE  At'[i] = ToAnchors!Following(n - 1)
<1>1. PICK c : c = frames[n].at
  OBVIOUS
<1>2. PastOf(c) = n - 1
  BY <1>1, AtFrame, PastInFrame
<1>3. At'[i] = [past |-> PastOf(c), lent |-> Log[PastOf(c) + 1]]
  <2>1. Start(i)' = c
    BY <1>1
  <2>2. a'[i].pc # "out"
    BY DEF Borrowing
  <2> QED BY <2>1, <2>2, After DEF IInv
<1> QED BY <1>2, <1>3 DEF ToAnchors!Following

\* Where a step finds an anchor.
LEMMA FoundFree ==
  ASSUME IInv, NEW i \in Anchors, a[i].pc = "live", NEW n \in DOMAIN frames,
         a[i].read_cursor \in {frames[n].start, frames[n].at}
  PROVE  At[i] = ToAnchors!Past(n - 1) /\ ToAnchors!More(n - 1)
<1>1. PICK c : c = a[i].read_cursor
  OBVIOUS
<1>2. PastOf(c) = n - 1
  <2>1. c \in Nat /\ frames[n].start <= c /\ c < frames[n].end
    BY <1>1, AtFrame
  <2> QED BY <2>1, PastInFrame
<1>3. Past(i) = PastOf(c)
  BY <1>1 DEF Past, Start
<1>4. At[i] = [past |-> Past(i), lent |-> << >>]
  BY Before DEF Borrowing
<1>5. n - 1 < Len(Log)
  BY LogType, FrameIndex DEF IInv
<1> QED BY <1>2, <1>3, <1>4, <1>5 DEF ToAnchors!Past, ToAnchors!None, ToAnchors!More

LEMMA FoundLent ==
  ASSUME IInv, NEW i \in Anchors, a[i].pc \in Borrowing, NEW n \in DOMAIN frames, StandsAt(a[i], n)
  PROVE  /\ At[i] = ToAnchors!Following(n - 1) /\ At[i].lent # ToAnchors!None
         /\ At[i].past = n - 1 /\ n \in Nat /\ n > 0
<1>1. Past(i) = n - 1 /\ n \in Nat /\ n > 0
  BY PastOfAnchor, FrameIndex DEF IInv
<1>2. At[i] = [past |-> Past(i), lent |-> Log[Past(i) + 1]]
  BY Before DEF Borrowing
<1>3. Lent(i) # << >> /\ Live(i)
  BY Abstracts DEF AbstractInv, Lending, Borrowing
<1>4. At[i].lent # << >>
  BY <1>3 DEF At
<1> QED BY <1>1, <1>2, <1>4 DEF ToAnchors!Following, ToAnchors!None

LEMMA SubscribeJoins ==
  ASSUME IInv, AbstractInv', NEW i \in Anchors, Subscribe(i)
  PROVE  ToAnchors!Next
<1>1. PICK joined \in {0} \union {frames[n].end : n \in DOMAIN frames} :
        a' = [a EXCEPT ![i] = Subscribed(joined)]
  BY DEF Subscribe
<1>2. a[i].pc = "out" /\ UNCHANGED frames /\ a \in [Anchors -> Handles]
  BY DEF Subscribe, history, IInv, TypeOK
<1>3. PICK k \in 0 .. Len(frames) : joined = End(k)
  <2>1. CASE joined = 0
    BY <2>1, FrameIndex DEF End, IInv
  <2>2. CASE joined \in {frames[n].end : n \in DOMAIN frames}
    BY <2>2, FrameIndex DEF IInv
  <2> QED BY <2>1, <2>2
<1>4. a'[i] = Subscribed(joined) /\ \A j \in Anchors \ {i} : a'[j] = a[j]
  BY <1>1, <1>2
<1>5. a'[i].pc = "live" /\ Start(i)' = End(k)
  BY <1>3, <1>4 DEF Start, Subscribed, NoAnchor
<1>6. At'[i] = ToAnchors!Past(k)
  BY <1>2, <1>5, EndsUp
<1>7. At[i] = ToAnchors!Out
  <2>1. At[i] = [past |-> -1, lent |-> << >>]
    BY <1>2, Before DEF Borrowing
  <2> QED BY <2>1 DEF ToAnchors!Out, ToAnchors!None
<1>8. Len(Log) = Len(frames)
  BY LogType DEF IInv
<1>9. ToAnchors!Join(At[i], At'[i])
  BY <1>6, <1>7, <1>8 DEF ToAnchors!Join, ToAnchors!Past
<1> QED BY <1>2, <1>4, <1>9, OneMoves DEF ToAnchors!Move

LEMMA PopLends ==
  ASSUME IInv, AbstractInv', NEW i \in Anchors, pop(i)
  PROVE  ToAnchors!Next
<1>1. a[i].pc = "live" /\ UNCHANGED frames /\ next_msg(i, has_item(a[i])) /\ a \in [Anchors -> Handles]
  BY DEF pop, history, IInv, TypeOK
<1>2. Live(i)
  BY <1>1, LiveAnchor
<1>3. PICK c : c = has_item(a[i])
  OBVIOUS
<1>4. c \in Ends /\ a[i].tail_cache <= c /\ c # a[i].read_cursor
  BY <1>2, <1>3, HasItem DEF pop
<1>5. PICK n \in DOMAIN frames : /\ a[i].read_cursor \in {frames[n].start, frames[n].at}
                                 /\ slots[i] <= frames[n].start
  BY <1>1, <1>2, <1>4, InFront
<1>6. decode_record(a[i].read_cursor) = [cur |-> frames[n].at, len |-> frames[n].record[1]]
  BY <1>2, <1>5, Decoded
<1>7. /\ a'[i].pc = "holding" /\ a'[i].read_cursor = frames[n].at
      /\ \A j \in Anchors \ {i} : a'[j] = a[j]
  <2>1. a' = [a EXCEPT ![i].pc = "holding", ![i].tail_cache = c, ![i].read_cursor = frames[n].at,
                       ![i].len = frames[n].record[1]]
    BY <1>1, <1>3, <1>6 DEF next_msg
  <2> QED BY <1>1, <2>1 DEF Handles
<1>8. Start(i)' = frames[n].at
  BY <1>7 DEF Start
<1>9. At'[i] = ToAnchors!Following(n - 1)
  BY <1>1, <1>7, <1>8, IsLent DEF Borrowing
<1>10. At[i] = ToAnchors!Past(n - 1) /\ ToAnchors!More(n - 1)
  BY <1>1, <1>5, FoundFree
<1>11. n - 1 >= 0
  BY FrameIndex DEF IInv
<1>12. ToAnchors!Lend(At[i], At'[i])
  BY <1>9, <1>10, <1>11 DEF ToAnchors!Lend, ToAnchors!Past
<1> QED BY <1>1, <1>7, <1>12, OneMoves DEF ToAnchors!Move

LEMMA ForgetForgets ==
  ASSUME IInv, AbstractInv', NEW i \in Anchors, Forget(i)
  PROVE  ToAnchors!Next
<1>1. a[i].pc = "holding" /\ UNCHANGED frames /\ a \in [Anchors -> Handles]
  BY DEF Forget, history, IInv, TypeOK
<1>2. PICK n \in DOMAIN frames : StandsAt(a[i], n)
  BY <1>1, Borrowed
<1>3. a[i].read_cursor = frames[n].at
  BY <1>1, <1>2 DEF StandsAt
<1>4. /\ a'[i].pc = "live" /\ a'[i].read_cursor = frames[n].at
      /\ \A j \in Anchors \ {i} : a'[j] = a[j]
  BY <1>1, <1>3 DEF Forget, Handles
<1>5. Start(i)' = frames[n].at
  BY <1>4 DEF Start
<1>6. At'[i] = ToAnchors!Past(n - 1)
  BY <1>1, <1>4, <1>5, GivenBack
<1>7. At[i].lent # ToAnchors!None /\ At[i].past = n - 1
  BY <1>1, <1>2, FoundLent DEF Borrowing
<1>8. ToAnchors!Forget(At[i], At'[i])
  BY <1>6, <1>7 DEF ToAnchors!Forget
<1> QED BY <1>1, <1>4, <1>8, OneMoves DEF ToAnchors!Move

\* The load of the flag on the way to a release moves nobody.
LEMMA LoadStarvingStutters ==
  ASSUME IInv, AbstractInv', NEW i \in Anchors, LoadStarving(i)
  PROVE  UNCHANGED ToAnchors!vars
<1>1. a[i].pc = "holding" /\ UNCHANGED frames /\ a \in [Anchors -> Handles]
  BY DEF LoadStarving, history, IInv, TypeOK
<1>2. /\ a'[i].pc = "releasing" /\ a'[i].read_cursor = a[i].read_cursor
      /\ \A j \in Anchors \ {i} : a'[j] = a[j]
  BY <1>1 DEF LoadStarving, Handles
<1>3. PICK n \in DOMAIN frames : StandsAt(a[i], n)
  BY <1>1, Borrowed
<1>4. a[i].read_cursor = frames[n].at
  BY <1>1, <1>3 DEF StandsAt
<1>5. Start(i)' = frames[n].at
  BY <1>2, <1>4 DEF Start
<1>6. At'[i] = ToAnchors!Following(n - 1)
  BY <1>1, <1>2, <1>5, IsLent DEF Borrowing
<1>7. At'[i] = At[i]
  BY <1>1, <1>3, <1>6, FoundLent DEF Borrowing
<1>8. At' = At /\ Log' = Log
  BY <1>1, <1>2, <1>7, OthersStay
<1> QED BY <1>8 DEF ToAnchors!vars

LEMMA AdvanceReturns ==
  ASSUME IInv, AbstractInv', NEW i \in Anchors, advance(i)
  PROVE  ToAnchors!Next
<1>1. a[i].pc = "releasing" /\ UNCHANGED frames /\ a \in [Anchors -> Handles]
  BY DEF advance, history, IInv, TypeOK
<1>2. PICK n \in DOMAIN frames : StandsAt(a[i], n)
  BY <1>1, Borrowed
<1>3. a[i].read_cursor + record_len(a[i].len) = frames[n].end
  BY <1>1, <1>2, AtFrame DEF StandsAt
<1>4. /\ a'[i].pc = "live" /\ a'[i].read_cursor = frames[n].end
      /\ \A j \in Anchors \ {i} : a'[j] = a[j]
  <2>1. PICK h : h = [a[i] EXCEPT !.pc = "live", !.len = 0, !.span = 0, !.read_cursor = frames[n].end]
    OBVIOUS
  <2>2. PICK g : g = [h EXCEPT !.published = frames[n].end]
    OBVIOUS
  <2>3. a' = [a EXCEPT ![i] = g] \/ a' = [a EXCEPT ![i] = h]
    BY <1>3, <2>1, <2>2 DEF advance
  <2>4. /\ h.pc = "live" /\ h.read_cursor = frames[n].end
        /\ g.pc = "live" /\ g.read_cursor = frames[n].end
    BY <1>1, <2>1, <2>2 DEF Handles
  <2> QED BY <1>1, <2>3, <2>4
<1>5. Start(i)' = End(n) /\ n \in 0 .. Len(frames)
  BY <1>4, FrameIndex DEF Start, IInv
<1>6. At'[i] = ToAnchors!Past(n)
  BY <1>1, <1>4, <1>5, EndsUp
<1>7. At[i].lent # ToAnchors!None /\ At[i].past + 1 = n
  BY <1>1, <1>2, FoundLent DEF Borrowing
<1>8. ToAnchors!Return(At[i], At'[i])
  BY <1>6, <1>7 DEF ToAnchors!Return
<1> QED BY <1>1, <1>4, <1>8, OneMoves DEF ToAnchors!Move

\* drain, on to the record in front.
LEMMA PassRecordLends ==
  ASSUME IInv, AbstractInv', NEW i \in Anchors, Live(i), UNCHANGED frames, NEW c, NEW limit,
         NEW n \in DOMAIN frames, a[i].read_cursor \in {frames[n].start, frames[n].at},
         slots[i] <= frames[n].start, PassRecord(i, c, limit)
  PROVE  /\ At'[i] = ToAnchors!Following(n - 1)
         /\ \A j \in Anchors \ {i} : a'[j] = a[j]
<1>1. decode_record(a[i].read_cursor) = [cur |-> frames[n].at, len |-> frames[n].record[1]]
  BY Decoded
<1>2. PICK len : len = frames[n].record[1]
  OBVIOUS
<1>3. PICK bytes : bytes = record_len(len)
  OBVIOUS
<1>4. bytes \in Nat /\ frames[n].at \in Nat
  <2>1. len \in Int /\ len >= -1
    BY <1>2, AtFrame
  <2> QED BY <1>3, <2>1, AtFrame, RecordLen
<1>5. /\ a'[i].pc = "callback" /\ a'[i].len = len /\ a'[i].read_cursor = frames[n].at + bytes
      /\ \A j \in Anchors \ {i} : a'[j] = a[j]
  <2>1. a' = [a EXCEPT ![i].pc = "callback", ![i].tail_cache = c, ![i].limit = limit,
                       ![i].read_cursor = frames[n].at + bytes, ![i].len = len]
    BY <1>1, <1>2, <1>3 DEF PassRecord
  <2>2. a \in [Anchors -> Handles]
    BY DEF IInv, TypeOK
  <2> QED BY <2>1, <2>2 DEF Handles
<1>6. Start(i)' = frames[n].at
  <2>1. record_len(a'[i].len) = bytes
    BY <1>3, <1>5 DEF record_len
  <2>2. a'[i].read_cursor - record_len(a'[i].len) = frames[n].at
    BY <1>4, <1>5, <2>1
  <2>3. Start(i)' = IF a'[i].pc = "callback" THEN a'[i].read_cursor - record_len(a'[i].len)
                    ELSE a'[i].read_cursor
    BY DEF Start, record_len
  <2> QED BY <1>5, <2>2, <2>3
<1> QED BY <1>5, <1>6, IsLent DEF Borrowing

LEMMA DrainBeginLends ==
  ASSUME IInv, AbstractInv', NEW i \in Anchors, DrainBegin(i)
  PROVE  ToAnchors!Next
<1>1. /\ a[i].pc = "live" /\ tail # a[i].read_cursor /\ UNCHANGED frames
      /\ PassRecord(i, tail, Min({tail, a[i].read_cursor + Batch}))
  BY DEF DrainBegin, history
<1>2. Live(i) /\ a[i].tail_cache <= tail /\ tail \in Ends
  BY <1>1, LiveAnchor, EndsType DEF IInv
<1>3. PICK n \in DOMAIN frames : /\ a[i].read_cursor \in {frames[n].start, frames[n].at}
                                 /\ slots[i] <= frames[n].start
  BY <1>1, <1>2, InFront
<1>4. At'[i] = ToAnchors!Following(n - 1) /\ \A j \in Anchors \ {i} : a'[j] = a[j]
  BY <1>1, <1>2, <1>3, PassRecordLends
<1>5. At[i] = ToAnchors!Past(n - 1) /\ ToAnchors!More(n - 1)
  BY <1>1, <1>3, FoundFree
<1>6. n - 1 >= 0
  BY FrameIndex DEF IInv
<1>7. ToAnchors!Lend(At[i], At'[i])
  BY <1>4, <1>5, <1>6 DEF ToAnchors!Lend, ToAnchors!Past
<1> QED BY <1>1, <1>4, <1>7, OneMoves DEF ToAnchors!Move

LEMMA DrainRecordReturns ==
  ASSUME IInv, AbstractInv', NEW i \in Anchors, DrainRecord(i)
  PROVE  ToAnchors!Next
<1>1. /\ a[i].pc = "callback" /\ a[i].read_cursor < a[i].limit /\ UNCHANGED frames
      /\ PassRecord(i, a[i].tail_cache, a[i].limit)
  BY DEF DrainRecord, history
<1>2. Live(i) /\ a[i] \in Handles /\ a[i].tail_cache \in Ends /\ slots[i] \in Nat
  BY <1>1, Borrowed
<1>3. PICK m \in DOMAIN frames : StandsAt(a[i], m) /\ slots[i] <= frames[m].start
  BY <1>1, Borrowed
<1>4. a[i].read_cursor = frames[m].end /\ a[i].limit <= a[i].tail_cache
  BY <1>1, <1>3 DEF StandsAt
<1>5. a[i].limit \in Nat /\ a[i].tail_cache \in Nat
  BY <1>2 DEF Handles
<1>6. frames[m].end < a[i].tail_cache /\ slots[i] <= frames[m].end
  BY <1>1, <1>2, <1>3, <1>4, <1>5, AtFrame
<1>7. PICK n \in DOMAIN frames : frames[n].start = frames[m].end
  BY <1>2, <1>6, AtFrame, NextFrame DEF IInv
<1>8. n - 1 = m
  <2>1. /\ frames[n].start = End(n - 1) /\ n - 1 \in 0 .. Len(frames)
        /\ frames[m].end = End(m) /\ m \in 0 .. Len(frames)
    BY FrameIndex DEF IInv
  <2>2. PastOf(End(n - 1)) = n - 1 /\ PastOf(End(m)) = m
    BY <2>1, PastAtEnd
  <2> QED BY <1>7, <2>1, <2>2
<1>9. At'[i] = ToAnchors!Following(m) /\ \A j \in Anchors \ {i} : a'[j] = a[j]
  BY <1>1, <1>2, <1>4, <1>6, <1>7, <1>8, PassRecordLends
<1>10. At[i].lent # ToAnchors!None /\ At[i].past + 1 = m
  BY <1>1, <1>3, FoundLent DEF Borrowing
<1>11. ToAnchors!More(m)
  BY <1>8, LogType, FrameIndex DEF ToAnchors!More, IInv
<1>12. ToAnchors!Return(At[i], At'[i])
  BY <1>9, <1>10, <1>11 DEF ToAnchors!Return
<1> QED BY <1>1, <1>9, <1>12, OneMoves DEF ToAnchors!Move

LEMMA DrainEndReturns ==
  ASSUME IInv, AbstractInv', NEW i \in Anchors, DrainEnd(i)
  PROVE  ToAnchors!Next
<1>1. a[i].pc = "callback" /\ UNCHANGED frames /\ a \in [Anchors -> Handles]
  BY DEF DrainEnd, history, IInv, TypeOK
<1>2. PICK n \in DOMAIN frames : StandsAt(a[i], n)
  BY <1>1, Borrowed
<1>3. a[i].read_cursor = frames[n].end
  BY <1>1, <1>2 DEF StandsAt
<1>4. /\ a'[i].pc = "live" /\ a'[i].read_cursor = frames[n].end
      /\ \A j \in Anchors \ {i} : a'[j] = a[j]
  BY <1>1, <1>3 DEF DrainEnd, Handles
<1>5. Start(i)' = End(n) /\ n \in 0 .. Len(frames)
  BY <1>4, FrameIndex DEF Start, IInv
<1>6. At'[i] = ToAnchors!Past(n)
  BY <1>1, <1>4, <1>5, EndsUp
<1>7. At[i].lent # ToAnchors!None /\ At[i].past + 1 = n
  BY <1>1, <1>2, FoundLent DEF Borrowing
<1>8. ToAnchors!Return(At[i], At'[i])
  BY <1>6, <1>7 DEF ToAnchors!Return
<1> QED BY <1>1, <1>4, <1>8, OneMoves DEF ToAnchors!Move

LEMMA DetachLeaves ==
  ASSUME IInv, AbstractInv', NEW i \in Anchors, Detach(i)
  PROVE  ToAnchors!Next
<1>1. a[i].pc = "live" /\ UNCHANGED frames /\ a \in [Anchors -> Handles]
  BY DEF Detach, history, IInv, TypeOK
<1>2. a'[i].pc = "out" /\ \A j \in Anchors \ {i} : a'[j] = a[j]
  BY <1>1 DEF Detach, NoAnchor
<1>3. PICK c : c = Start(i)'
  OBVIOUS
<1>4. At'[i] = [past |-> -1, lent |-> << >>]
  BY <1>1, <1>2, <1>3, After DEF Borrowing, IInv
<1>5. At[i].lent = << >>
  <2>1. a[i].pc # "out" /\ a[i].pc \notin Borrowing
    BY <1>1 DEF Borrowing
  <2>2. At[i] = [past |-> Past(i), lent |-> << >>]
    BY <2>1, Before
  <2> QED BY <2>2
<1>6. ToAnchors!Leave(At[i], At'[i])
  BY <1>4, <1>5 DEF ToAnchors!Leave, ToAnchors!Out, ToAnchors!None
<1> QED BY <1>1, <1>2, <1>6, OneMoves DEF ToAnchors!Move

LEMMA AbstractInit == Init => ToAnchors!Init
<1> SUFFICES ASSUME Init PROVE ToAnchors!Init
  OBVIOUS
<1>1. IInv /\ frames = << >>
  BY Initial DEF Init
<1>2. Log = << >>
  <2>1. Len(Log) = 0 /\ Log \in Seq(AllRecords)
    BY <1>1, LogType DEF IInv
  <2> QED BY <2>1, EmptySeq
<1>3. PICK first \in Anchors : a = [i \in Anchors |-> IF i = first THEN Subscribed(0) ELSE NoAnchor]
  BY DEF Init
<1>4. ASSUME NEW i \in Anchors PROVE At[i] \in {ToAnchors!Out, ToAnchors!Past(0)}
  <2>1. CASE a[i] = NoAnchor
    <3>1. a[i].pc = "out" /\ a[i].pc \notin Borrowing
      BY <2>1 DEF NoAnchor, Borrowing
    <3> QED BY <1>1, <3>1, Before DEF ToAnchors!Out, ToAnchors!None
  <2>2. CASE a[i] = Subscribed(0)
    <3>1. a[i].pc = "live" /\ a[i].read_cursor = 0 /\ a[i].pc \notin Borrowing
      BY <2>2 DEF Subscribed, NoAnchor, Borrowing
    <3>2. 0 \in 0 .. Len(frames) /\ End(0) = 0
      BY <1>1, FrameIndex DEF IInv, End
    <3>3. Past(i) = 0
      BY <1>1, <3>1, <3>2, PastAtEnd DEF Past, Start
    <3> QED BY <1>1, <3>1, <3>3, Before DEF ToAnchors!Past, ToAnchors!None
  <2> QED BY <1>3, <2>1, <2>2
<1>5. At \in [Anchors -> {ToAnchors!Out, ToAnchors!Past(0)}]
  BY <1>4 DEF At
<1> QED BY <1>2, <1>5 DEF ToAnchors!Init

LEMMA StepsMap ==
  ASSUME IInv, AbstractInv, AbstractInv', [Next]_vars
  PROVE  [ToAnchors!Next]_(ToAnchors!vars)
<1>1. ASSUME UNCHANGED <<frames, a, slots>> PROVE UNCHANGED ToAnchors!vars
  BY <1>1, Stutters DEF ToAnchors!vars
<1>2. CASE Gate
  BY <1>1, <1>2 DEF Gate, Frame, Granted, Rescan, RaiseStarving, WaitForSpace, Abandon, history, shared
<1>3. CASE write_frame
  <2>1. CASE Declare \/ WriteLanes \/ StoreLatest
    BY <1>1, <2>1 DEF Declare, WriteLanes, StoreLatest, history
  <2>2. CASE StoreTail
    BY <2>2, StoreTailPublishes
  <2> QED BY <1>3, <2>1, <2>2 DEF write_frame
<1>4. CASE Succession
  BY <1>1, <1>4 DEF Succession, DropProducer, Die, Attach, Heal, history, shared
<1>5. ASSUME NEW i \in Anchors, AnchorNext(i) PROVE ToAnchors!Next \/ UNCHANGED ToAnchors!vars
  BY <1>5, SubscribeJoins, PopLends, ForgetForgets, LoadStarvingStutters, AdvanceReturns, DrainBeginLends,
     DrainRecordReturns, DrainEndReturns, DetachLeaves DEF AnchorNext, Release, Drain
<1>6. CASE ObserverNext
  BY <1>1, <1>6, ObserverQuiet DEF history, shared
<1>7. CASE UNCHANGED vars
  BY <1>1, <1>7 DEF vars, history, shared
<1> QED BY <1>2, <1>3, <1>4, <1>5, <1>6, <1>7 DEF Next

\* Every anchor is lent every record in order and whole, as it was committed, and keeps
\* it until it hands it back: over any number of anchors, records and sessions, the
\* ring implements the gating one (RecordBroadcast).
THEOREM LosesNothing == Spec => AnchorsLoseNothing
<1>1. Init => ToAnchors!Init
  BY AbstractInit
<1>2. IInv /\ AbstractInv /\ AbstractInv' /\ [Next]_vars => [ToAnchors!Next]_(ToAnchors!vars)
  BY StepsMap
<1>3. IInv => AbstractInv
  BY Abstracts
<1> QED BY <1>1, <1>2, <1>3, Invariance, PTL DEF Spec, AnchorsLoseNothing, ToAnchors!Spec

-----------------------------------------------------------------------------
(* Where a frame can be read from *)

\* A lap of the buffer that begins within a frame begins with it, or with its record.
LEMMA LapStart ==
  ASSUME NEW f, WellFramed(f), NEW c \in Nat, f.start <= c, c < f.end, Position(c) = 0
  PROVE  c \in {f.start, f.at}
<1>1. /\ f.start \in Nat /\ f.at \in Nat /\ f.end \in Nat /\ record_len(f.record[1]) \in Nat
      /\ f.end = f.at + record_len(f.record[1])
  BY Framed
<1>2. /\ Position(f.at) + record_len(f.record[1]) <= Capacity
      /\ f.at = f.start \/ f.at = f.start + ToEnd(f.start)
  BY DEF WellFramed
<1>3. CASE f.at <= c
  <2>1. PICK k \in Nat : c = f.at + k
    <3>1. c - f.at \in Nat /\ c = f.at + (c - f.at)
      BY <1>1, <1>3
    <3> QED BY <3>1
  <2>2. Position(f.at) \in Nat /\ Position(f.at) + k < Capacity
    BY <1>1, <1>2, <2>1, PositionType, CapacityType
  <2>3. Position(f.at + k) = Position(f.at) + k
    BY <1>1, <2>2, PositionPlus
  <2>4. k = 0
    BY <2>1, <2>2, <2>3
  <2> QED BY <1>1, <2>1, <2>4
<1>4. CASE c < f.at
  <2>1. f.at = f.start + ToEnd(f.start)
    BY <1>1, <1>2, <1>4
  <2>2. PICK k \in Nat : c = f.start + k
    <3>1. c - f.start \in Nat /\ c = f.start + (c - f.start)
      BY <1>1
    <3> QED BY <3>1
  <2>3. Position(f.start) \in Nat /\ Position(f.start) + k < Capacity
    <3>1. /\ Position(f.start) \in Nat /\ ToEnd(f.start) \in Nat
          /\ Position(f.start) + ToEnd(f.start) = Capacity
      BY <1>1, PositionType
    <3>2. k < ToEnd(f.start)
      BY <1>1, <1>4, <2>1, <2>2, <3>1
    <3> QED BY <3>1, <3>2, CapacityType
  <2>4. Position(f.start + k) = Position(f.start) + k
    BY <1>1, <2>3, PositionPlus
  <2>5. k = 0
    BY <2>2, <2>3, <2>4
  <2> QED BY <1>1, <2>2, <2>5
<1> QED BY <1>1, <1>3, <1>4

LEMMA PlaceType ==
  ASSUME IInv, NEW x \in Place
  PROVE  /\ x \in Nat /\ x <= tail_intent
         /\ x < tail => \E n \in DOMAIN frames : x \in {frames[n].start, frames[n].at}
<1>1. tail \in Nat /\ tail_intent \in Nat /\ tail <= tail_intent
  BY DEF IInv, TypeOK, GateInv
<1>2. CASE x \in Ends
  <2>1. x \in Nat /\ x <= tail /\ tail \in Ends
    BY <1>2, EndsType DEF IInv
  <2>2. x < tail => \E n \in DOMAIN frames : frames[n].start = x
    BY <1>2, <2>1, NextFrame DEF IInv
  <2> QED BY <1>1, <2>1, <2>2
<1>3. CASE x \in {frames[n].at : n \in DOMAIN frames}
  <2>1. PICK n \in DOMAIN frames : x = frames[n].at
    BY <1>3
  <2>2. x \in Nat /\ x <= tail
    BY <1>1, <2>1, AtFrame
  <2> QED BY <1>1, <2>1, <2>2
<1>4. CASE x \in {c \in tail .. tail_intent : Position(c) = 0}
  BY <1>1, <1>4
<1> QED BY <1>2, <1>3, <1>4 DEF Place

\* It stays one, whatever the producer does.
LEMMA PlaceKept ==
  ASSUME IInv, UNCHANGED <<frames, tail>>, tail_intent' \in Nat, tail_intent <= tail_intent'
  PROVE  Place \subseteq Place' /\ Ends' = Ends
<1>1. Ends' = Ends
  BY DEF Ends, End
<1>2. tail \in Nat /\ tail_intent \in Nat
  BY DEF IInv, TypeOK
<1>3. \A c \in tail .. tail_intent : c \in tail' .. tail_intent'
  BY <1>2
<1> QED BY <1>1, <1>3 DEF Place

LEMMA PlaceCommitted ==
  ASSUME IInv, StoreTail
  PROVE  /\ Place \subseteq Place' /\ tail <= tail'
         /\ \A n \in DOMAIN frames : n \in DOMAIN frames' /\ frames'[n] = frames[n]
<1>1. p.pc = "pointed" /\ tail' = NewTail /\ frames' = Append(frames, Pending) /\ tail_intent' = tail_intent
  BY DEF StoreTail, Pending
<1>2. PICK f : f = Pending
  OBVIOUS
<1>3. WellFramed(f) /\ f.start = tail /\ f.end = NewTail
  BY <1>1, <1>2, PendingFramed DEF IInv, Writing
<1>4. /\ FramesInv' /\ tail < tail' /\ frames'[Len(frames) + 1] = f
      /\ DOMAIN frames' = 1 .. Len(frames) + 1 /\ Ends \subseteq Ends'
      /\ \A n \in DOMAIN frames : n \in DOMAIN frames' /\ frames'[n] = frames[n]
  BY <1>1, <1>2, <1>3, FramesGrow DEF IInv
<1>5. tail \in Nat /\ tail_intent \in Nat /\ NewTail \in Nat
  BY PendingType DEF IInv, TypeOK
<1>6. f.at \in {frames'[n].at : n \in DOMAIN frames'}
  <2>1. Len(frames) + 1 \in DOMAIN frames'
    BY <1>4, FrameIndex DEF IInv
  <2> QED BY <1>4, <2>1
<1>7. tail \in Ends
  BY EndsType DEF IInv
<1>8. ASSUME NEW c \in {c \in tail .. tail_intent : Position(c) = 0} PROVE c \in Place'
  <2>1. c \in Nat /\ tail <= c /\ c <= tail_intent /\ Position(c) = 0
    BY <1>5
  <2>2. CASE c < NewTail
    <3>1. c \in {f.start, f.at}
      BY <1>3, <2>1, <2>2, LapStart
    <3> QED BY <1>3, <1>4, <1>6, <1>7, <3>1 DEF Place
  <2>3. CASE NewTail <= c
    <3>1. c \in tail' .. tail_intent'
      BY <1>1, <1>5, <2>1, <2>3
    <3> QED BY <2>1, <3>1 DEF Place
  <2> QED BY <1>5, <2>1, <2>2, <2>3
<1>9. {frames[n].at : n \in DOMAIN frames} \subseteq {frames'[n].at : n \in DOMAIN frames'}
  BY <1>4
<1>10. Place \subseteq Place'
  <2> SUFFICES ASSUME NEW x \in Place PROVE x \in Place'
    OBVIOUS
  <2>1. CASE x \in Ends
    BY <1>4, <2>1 DEF Place
  <2>2. CASE x \in {frames[n].at : n \in DOMAIN frames}
    BY <1>9, <2>2 DEF Place
  <2> QED BY <1>8, <2>1, <2>2 DEF Place
<1> QED BY <1>1, <1>4, <1>5, <1>10

LEMMA Window ==
  ASSUME IInv, ObserverInv
  PROVE  /\ o \in Observers /\ o.pos \in Nat /\ o.tail_cache \in Nat /\ tail \in Nat /\ tail_intent \in Nat
         /\ o.pos <= tail_intent /\ tail <= tail_intent
         /\ Overrun <=> tail_intent > o.pos + Capacity
<1>1. o \in Observers /\ o.pos \in Place
  BY DEF ObserverInv
<1>2. o.pos \in Nat /\ o.pos <= tail_intent
  BY <1>1, PlaceType
<1>3. tail \in Nat /\ tail_intent \in Nat /\ tail <= tail_intent
  BY DEF IInv, TypeOK, GateInv
<1>4. Overrun <=> tail_intent > o.pos + Capacity
  BY <1>2, <1>3, CapacityType DEF Overrun
<1> QED BY <1>1, <1>2, <1>3, <1>4 DEF Observers

-----------------------------------------------------------------------------
(* What the others' steps leave an observer *)

LEMMA ReadingKept ==
  ASSUME IInv, ObserverInv, UNCHANGED o, tail_intent' \in Nat, tail_intent <= tail_intent',
         NEW n \in DOMAIN frames, frames'[n] = frames[n], Reading(n)
  PROVE  Reading(n)'
<1>1. /\ o.pos \in Nat /\ tail_intent \in Nat /\ o.pos <= tail_intent
      /\ Overrun <=> tail_intent > o.pos + Capacity
  BY Window
<1>2. ~Overrun' => ~Overrun
  BY <1>1, CapacityType DEF Overrun
<1> QED BY <1>2 DEF Reading

\* Nobody but the observer moves it, and what the others do only grows.
LEMMA ObserverWaits ==
  ASSUME IInv, IInv', ObserverInv, UNCHANGED observer,
         tail <= tail', tail_intent <= tail_intent', Place \subseteq Place', latest' \in Place',
         \A n \in DOMAIN frames : n \in DOMAIN frames' /\ frames'[n] = frames[n],
         closes \subseteq closes', closed' => closes' # {}, \A c \in closes' : c <= tail'
  PROVE  ObserverInv'
<1>1. /\ o \in Observers /\ o.pos \in Nat /\ o.tail_cache \in Nat /\ tail \in Nat /\ tail_intent \in Nat
      /\ tail' \in Nat /\ tail_intent' \in Nat /\ o' = o /\ result' = result
  BY Window DEF observer, IInv, TypeOK
<1>2. o'.pos \in Place' /\ o'.tail_cache <= tail'
  BY <1>1 DEF ObserverInv
<1>3. o'.pc \in {"lapped", "jump"} => tail_intent' > o'.pos + Capacity
  BY <1>1, CapacityType DEF ObserverInv
<1>4. ASSUME o'.pc \in {"window", "padding", "skipped", "copy", "copied"}
      PROVE  \E n \in DOMAIN frames' : Reading(n)'
  <2>1. PICK n \in DOMAIN frames : Reading(n)
    BY <1>1, <1>4 DEF ObserverInv
  <2> QED BY <1>1, <2>1, ReadingKept
<1>5. closed' \/ o'.pc = "recheck" => closes' # {}
  BY <1>1 DEF ObserverInv
<1>6. o'.pc = "out" <=> result' = Returned("out", 0)
  BY <1>1 DEF ObserverInv
<1> QED BY <1>1, <1>2, <1>3, <1>4, <1>5, <1>6 DEF ObserverInv

\* Steps that touch nothing an observer looks at, but lanes.
LEMMA ObserverUntouched ==
  ASSUME IInv, IInv', ObserverInv, UNCHANGED <<counters, closed, history, observer>>
  PROVE  ObserverInv' /\ UNCHANGED ToObserver!vars
<1>1. tail \in Nat /\ tail_intent \in Nat /\ UNCHANGED <<tail, tail_intent, latest, frames, closes>>
  BY DEF IInv, TypeOK, counters, history
<1>2. Place \subseteq Place'
  BY <1>1, PlaceKept
<1>3. /\ latest' \in Place' /\ tail <= tail' /\ tail_intent <= tail_intent' /\ closes \subseteq closes'
      /\ closed' => closes' # {}
      /\ \A c \in closes' : c <= tail'
      /\ \A n \in DOMAIN frames : n \in DOMAIN frames' /\ frames'[n] = frames[n]
  BY <1>1, <1>2 DEF ObserverInv
<1>4. ObserverInv'
  BY <1>1, <1>2, <1>3, ObserverWaits
<1> QED BY <1>1, <1>4 DEF ToObserver!vars, observer

LEMMA LogFacts ==
  ASSUME IInv
  PROVE  /\ ToObserver!Committed = tail /\ ToObserver!Ends = Ends
         /\ ToObserver!Starts = {frames[n].at : n \in DOMAIN frames}
<1>1. Len(frames) \in Nat /\ DOMAIN frames = 1 .. Len(frames) /\ tail = End(Len(frames)) /\ frames \in Seq(Frames)
  BY FrameIndex DEF IInv, FramesInv
<1>2. ToObserver!Committed = tail
  <2>1. CASE frames = << >>
    BY <1>1, <2>1 DEF ToObserver!Committed, End
  <2>2. CASE frames # << >>
    <3>1. Len(frames) # 0
      BY <1>1, <2>2, EmptySeq
    <3> QED BY <1>1, <2>2, <3>1 DEF ToObserver!Committed, End
  <2> QED BY <2>1, <2>2
<1>3. ToObserver!Ends = Ends
  <2>1. ASSUME NEW x \in Ends PROVE x \in ToObserver!Ends
    <3>1. PICK n \in 0 .. Len(frames) : x = End(n)
      BY DEF Ends
    <3>2. CASE n = 0
      BY <3>1, <3>2 DEF End, ToObserver!Ends
    <3>3. CASE n # 0
      <4>1. n \in DOMAIN frames
        BY <1>1, <3>3
      <4> QED BY <3>1, <3>3, <4>1 DEF End, ToObserver!Ends
    <3> QED BY <3>2, <3>3
  <2>2. ASSUME NEW x \in ToObserver!Ends PROVE x \in Ends
    BY AtFrame, EndsType DEF ToObserver!Ends, IInv
  <2> QED BY <2>1, <2>2
<1> QED BY <1>2, <1>3 DEF ToObserver!Starts

LEMMA DeclareDeclares ==
  ASSUME IInv, IInv', ObserverInv, Declare
  PROVE  ObserverInv' /\ ToObserver!Next
<1>1. /\ p.pc = "granted" /\ tail_intent' = Declared /\ UNCHANGED <<latest, tail, closed, frames, closes, observer>>
  BY DEF Declare
<1>2. /\ tail \in Nat /\ tail_intent \in Nat /\ tail_intent' \in Nat /\ NewTail \in Nat /\ RecordAt \in Nat
      /\ p.intent_floor \in Nat /\ p.next <= RecordAt /\ RecordAt + 8 <= NewTail /\ p.next \in Nat
  BY PendingType, ProducerType DEF IInv, TypeOK
<1>3. p.next = tail /\ tail_intent \in {tail, p.intent_floor}
  BY <1>1 DEF IInv, ProducerInv, Running
<1>4. tail_intent <= tail_intent'
  <2>1. Declared = IF NewTail >= p.intent_floor THEN NewTail ELSE p.intent_floor
    BY <1>2, MaxOf DEF Declared
  <2>2. tail <= NewTail
    BY <1>2, <1>3
  <2> QED BY <1>1, <1>2, <1>3, <2>1, <2>2
<1>5. Place \subseteq Place'
  BY <1>1, <1>2, <1>4, PlaceKept
<1>6. /\ latest' \in Place' /\ tail <= tail' /\ closes \subseteq closes'
      /\ closed' => closes' # {}
      /\ \A c \in closes' : c <= tail'
      /\ \A n \in DOMAIN frames : n \in DOMAIN frames' /\ frames'[n] = frames[n]
  BY <1>1, <1>2, <1>5 DEF ObserverInv
<1>7. ObserverInv'
  BY <1>1, <1>4, <1>5, <1>6, ObserverWaits
<1>8. ToObserver!Declare
  BY <1>1, <1>2, <1>4 DEF ToObserver!Declare, observer
<1> QED BY <1>7, <1>8 DEF ToObserver!Next

LEMMA StoreLatestPoints ==
  ASSUME IInv, IInv', ObserverInv, StoreLatest
  PROVE  ObserverInv' /\ UNCHANGED ToObserver!vars
<1>1. /\ p.pc = "filled" /\ latest' = RecordAt
      /\ UNCHANGED <<tail_intent, tail, closed, frames, closes, observer>>
  BY DEF StoreLatest, history
<1>2. tail \in Nat /\ tail_intent \in Nat
  BY DEF IInv, TypeOK
<1>3. Place \subseteq Place'
  BY <1>1, <1>2, PlaceKept
<1>4. RecordAt \in Place
  <2>1. PICK f : f = Pending
    OBVIOUS
  <2>2. WellFramed(f) /\ f.start = tail /\ f.at = RecordAt /\ f.end <= tail_intent
    BY <1>1, <2>1, PendingFramed DEF IInv, Writing
  <2>3. f.start <= f.at /\ f.at + 8 <= f.end /\ f.start \in Nat /\ f.at \in Nat /\ f.end \in Nat
    BY <2>2, Framed
  <2>4. CASE f.at = f.start
    BY <2>2, <2>4, EndsType DEF Place, IInv
  <2>5. CASE Position(f.at) = 0
    <3>1. f.at \in tail .. tail_intent
      BY <1>2, <2>2, <2>3
    <3> QED BY <2>2, <2>5, <3>1 DEF Place
  <2> QED BY <2>2, <2>4, <2>5 DEF WellFramed
<1>5. /\ latest' \in Place' /\ tail <= tail' /\ tail_intent <= tail_intent' /\ closes \subseteq closes'
      /\ closed' => closes' # {}
      /\ \A c \in closes' : c <= tail'
      /\ \A n \in DOMAIN frames : n \in DOMAIN frames' /\ frames'[n] = frames[n]
  BY <1>1, <1>2, <1>3, <1>4 DEF ObserverInv
<1>6. ObserverInv'
  BY <1>1, <1>3, <1>5, ObserverWaits
<1> QED BY <1>1, <1>6 DEF ToObserver!vars, observer

LEMMA StoreTailCommits ==
  ASSUME IInv, IInv', ObserverInv, StoreTail
  PROVE  ObserverInv' /\ ToObserver!Next
<1>1. /\ p.pc = "pointed" /\ tail' = NewTail /\ frames' = Append(frames, Pending)
      /\ UNCHANGED <<tail_intent, latest, closed, closes, observer>>
  BY DEF StoreTail, Pending
<1>2. /\ Place \subseteq Place' /\ tail <= tail'
      /\ \A n \in DOMAIN frames : n \in DOMAIN frames' /\ frames'[n] = frames[n]
  BY PlaceCommitted
<1>3. tail \in Nat /\ tail' \in Nat /\ tail_intent \in Nat /\ closes \subseteq Nat
  BY DEF IInv, TypeOK
<1>4. \A c \in closes' : c <= tail'
  <2> SUFFICES ASSUME NEW c \in closes PROVE c <= tail'
    BY <1>1
  <2>1. c \in Nat /\ c <= tail
    BY <1>3 DEF ObserverInv
  <2> QED BY <1>2, <1>3, <2>1
<1>5. /\ latest' \in Place' /\ tail_intent <= tail_intent' /\ closes \subseteq closes'
      /\ closed' => closes' # {}
  BY <1>1, <1>2, <1>3 DEF ObserverInv
<1>6. ObserverInv'
  BY <1>1, <1>2, <1>4, <1>5, ObserverWaits
<1>7. PICK f : f = Pending
  OBVIOUS
<1>8. WellFramed(f) /\ f.start = tail /\ f.end <= tail_intent
  BY <1>1, <1>7, PendingFramed DEF IInv, Writing
<1>9. f.start <= f.at /\ f.at < f.end /\ f.record \in AllRecords /\ f \in Frames
  <2>1. f.start <= f.at /\ f.at + 8 <= f.end /\ f.at \in Nat /\ f.end \in Nat
    BY <1>8, Framed
  <2> QED BY <1>8, <2>1 DEF WellFramed, Frames
<1>10. /\ frames \in Seq(Frames) /\ Len(frames) \in Nat
  BY FrameIndex DEF IInv
<1>11. /\ Len(frames') = Len(frames) + 1 /\ frames'[Len(frames')] = f
       /\ SubSeq(frames', 1, Len(frames)) = frames
  BY <1>1, <1>7, <1>9, <1>10, AppendProperties
<1>12. ToObserver!Commit
  BY <1>1, <1>8, <1>9, <1>11, LogFacts DEF ToObserver!Commit, observer
<1> QED BY <1>6, <1>12 DEF ToObserver!Next

LEMMA DropProducerCloses ==
  ASSUME IInv, IInv', ObserverInv, DropProducer
  PROVE  ObserverInv' /\ ToObserver!Next
<1>1. closes' = closes \union {tail} /\ UNCHANGED <<counters, frames, observer>>
  BY DEF DropProducer
<1>2. tail \in Nat /\ tail_intent \in Nat /\ UNCHANGED <<tail, tail_intent, latest>>
  BY <1>1 DEF IInv, TypeOK, counters
<1>3. Place \subseteq Place'
  BY <1>1, <1>2, PlaceKept
<1>4. /\ latest' \in Place' /\ tail <= tail' /\ tail_intent <= tail_intent' /\ closes \subseteq closes'
      /\ closed' => closes' # {}
      /\ \A c \in closes' : c <= tail'
      /\ \A n \in DOMAIN frames : n \in DOMAIN frames' /\ frames'[n] = frames[n]
  BY <1>1, <1>2, <1>3 DEF ObserverInv
<1>5. ObserverInv'
  BY <1>1, <1>3, <1>4, ObserverWaits
<1>6. ToObserver!Close
  BY <1>1, <1>2, LogFacts DEF ToObserver!Close, observer
<1> QED BY <1>5, <1>6 DEF ToObserver!Next

\* The next session: the ring is open again, and `latest` repaired.
LEMMA AttachKeeps ==
  ASSUME IInv, IInv', ObserverInv, Attach \/ Heal
  PROVE  ObserverInv' /\ UNCHANGED ToObserver!vars
<1>1. /\ UNCHANGED <<tail, tail_intent, frames, closes, observer>>
      /\ latest' \in {latest, tail} /\ (closed' => closed)
  <2>1. CASE Attach
    BY <2>1 DEF Attach, counters
  <2>2. CASE Heal
    BY <2>2 DEF Heal, history
  <2> QED BY <2>1, <2>2
<1>2. tail \in Nat /\ tail_intent \in Nat /\ tail \in Place
  BY EndsType DEF IInv, TypeOK, Place
<1>3. Place \subseteq Place'
  BY <1>1, <1>2, PlaceKept
<1>4. /\ latest' \in Place' /\ tail <= tail' /\ tail_intent <= tail_intent' /\ closes \subseteq closes'
      /\ closed' => closes' # {}
      /\ \A c \in closes' : c <= tail'
      /\ \A n \in DOMAIN frames : n \in DOMAIN frames' /\ frames'[n] = frames[n]
  BY <1>1, <1>2, <1>3 DEF ObserverInv
<1>5. ObserverInv'
  BY <1>1, <1>3, <1>4, ObserverWaits
<1> QED BY <1>1, <1>5 DEF ToObserver!vars, observer

-----------------------------------------------------------------------------
(* The observer's own steps *)

LEMMA ObserverMoves ==
  ASSUME IInv, ObserverInv, UNCHANGED <<shared, p, gate, history, a>>,
         o' \in Observers, o'.pos \in Place, o'.tail_cache <= tail,
         o'.pc = "out" <=> result' = Returned("out", 0),
         o'.pc \in {"lapped", "jump"} => tail_intent > o'.pos + Capacity,
         o'.pc \in {"window", "padding", "skipped", "copy", "copied"} =>
           \E n \in DOMAIN frames : Reading(n)',
         o'.pc = "recheck" => closes # {}
  PROVE  ObserverInv'
<1>1. UNCHANGED <<tail_intent, latest, tail, closed, frames, closes>>
  BY DEF shared, counters, history
<1>2. tail_intent \in Nat
  BY DEF IInv, TypeOK
<1>3. Place \subseteq Place'
  BY <1>1, <1>2, PlaceKept
<1>4. latest' \in Place' /\ o'.pos \in Place'
  BY <1>1, <1>3 DEF ObserverInv
<1> QED BY <1>1, <1>4 DEF ObserverInv

LEMMA ObserveJoins ==
  ASSUME IInv, ObserverInv, Observe
  PROVE  ObserverInv' /\ ToObserver!Next
<1>1. /\ o.pc = "out" /\ o' = [o EXCEPT !.pc = "idle", !.pos = tail, !.tail_cache = tail]
      /\ result' = Returned("none", 0) /\ UNCHANGED <<shared, p, gate, history, a>>
  BY DEF Observe
<1>2. o \in Observers /\ tail \in Nat /\ tail \in Ends
  BY Window, EndsType DEF IInv
<1>3. o' \in Observers /\ o'.pc = "idle" /\ o'.pos = tail /\ o'.tail_cache = tail
  BY <1>1, <1>2 DEF Observers
<1>4. result' # Returned("out", 0)
  BY <1>1 DEF Returned
<1>5. ObserverInv'
  BY <1>1, <1>2, <1>3, <1>4, ObserverMoves DEF Place
<1>6. ToObserver!Join
  BY <1>1, <1>2, <1>3, LogFacts
  DEF ToObserver!Join, ToObserver!Out, ToObserver!Nothing, ObserverInv, Returned, shared, counters, history
<1> QED BY <1>5, <1>6 DEF ToObserver!Next

\* A step that starts a call, or goes on with one, and returns nothing yet.
LEMMA Calls ==
  ASSUME IInv, ObserverInv, UNCHANGED <<shared, p, gate, history, a>>, o.pc # "out",
         o'.pos = o.pos, result' = Returned("none", 0)
  PROVE  ToObserver!Next
<1>1. result # Returned("out", 0)
  BY DEF ObserverInv
<1>2. ToObserver!Call
  BY <1>1 DEF ToObserver!Call, ToObserver!Out, ToObserver!Nothing, Returned, shared, counters, history
<1> QED BY <1>2 DEF ToObserver!Next

LEMMA RefreshCalls ==
  ASSUME IInv, ObserverInv, Refresh
  PROVE  ObserverInv' /\ ToObserver!Next
<1>1. /\ o.pc = "idle" /\ result' = Returned("none", 0) /\ UNCHANGED <<shared, p, gate, history, a>>
      /\ \E pc \in {"idle", "empty"} : o' = [o EXCEPT !.tail_cache = tail, !.pc = pc]
  BY DEF Refresh
<1>2. o \in Observers /\ tail \in Nat /\ o.pos \in Place
  BY Window DEF ObserverInv
<1>3. o' \in Observers /\ o'.pc \in {"idle", "empty"} /\ o'.pos = o.pos /\ o'.tail_cache = tail
  BY <1>1, <1>2 DEF Observers
<1>4. result' # Returned("out", 0)
  BY <1>1 DEF Returned
<1>5. ObserverInv'
  BY <1>1, <1>2, <1>3, <1>4, ObserverMoves
<1>6. ToObserver!Next
  BY <1>1, <1>3, Calls
<1> QED BY <1>5, <1>6

\* A step that keeps its place and what was last returned.
LEMMA Unreturned ==
  ASSUME IInv, ObserverInv, UNCHANGED <<shared, p, gate, history, a>>, UNCHANGED result, o'.pos = o.pos
  PROVE  UNCHANGED ToObserver!vars
BY DEF ToObserver!vars, shared, counters, history

LEMMA ObserveClosedLooks ==
  ASSUME IInv, ObserverInv, ObserveClosed
  PROVE  ObserverInv' /\ UNCHANGED ToObserver!vars
<1>1. /\ o.pc = "empty" /\ UNCHANGED result /\ UNCHANGED <<shared, p, gate, history, a>>
      /\ o' = [o EXCEPT !.pc = IF closed THEN "recheck" ELSE "idle"]
  BY DEF ObserveClosed
<1>2. o \in Observers /\ o.tail_cache <= tail /\ o.pos \in Place /\ result # Returned("out", 0)
  BY <1>1 DEF ObserverInv
<1>3. /\ o' \in Observers /\ o'.pc \in {"recheck", "idle"} /\ o'.pos = o.pos /\ o'.tail_cache = o.tail_cache
      /\ o'.pc = "recheck" => closed
  BY <1>1, <1>2 DEF Observers
<1>4. closed => closes # {}
  BY DEF ObserverInv
<1>5. ObserverInv'
  BY <1>1, <1>2, <1>3, <1>4, ObserverMoves
<1> QED BY <1>1, <1>3, <1>5, Unreturned

LEMMA RecheckFinishes ==
  ASSUME IInv, ObserverInv, Recheck
  PROVE  ObserverInv' /\ (ToObserver!Next \/ UNCHANGED ToObserver!vars)
<1>1. /\ o.pc = "recheck" /\ UNCHANGED <<shared, p, gate, history, a>>
      /\ o' = [o EXCEPT !.tail_cache = tail, !.pc = "idle"]
      /\ result' = IF tail <= o.pos THEN Returned("closed", 0) ELSE result
  BY DEF Recheck
<1>2. /\ o \in Observers /\ tail \in Nat /\ o.pos \in Nat /\ o.pos \in Place
      /\ result # Returned("out", 0) /\ closes # {}
  BY <1>1, Window DEF ObserverInv
<1>3. /\ o' \in Observers /\ o'.pc = "idle" /\ o'.pos = o.pos /\ o'.tail_cache = tail
  BY <1>1, <1>2 DEF Observers
<1>4. result' # Returned("out", 0)
  BY <1>1, <1>2 DEF Returned
<1>5. ObserverInv'
  BY <1>1, <1>2, <1>3, <1>4, ObserverMoves
<1>6. CASE tail <= o.pos
  <2>1. PICK c \in closes : c <= tail
    BY <1>2 DEF ObserverInv
  <2>2. c \in Nat /\ o.pos >= c
    BY <1>2, <1>6, <2>1 DEF IInv, TypeOK
  <2>3. result' = Returned("closed", 0)
    BY <1>1, <1>6
  <2>4. ToObserver!Finish
    BY <1>1, <1>3, <2>2, <2>3
    DEF ToObserver!Finish, ToObserver!Closed, Returned, shared, counters, history
  <2> QED BY <1>5, <2>4 DEF ToObserver!Next
<1>7. CASE ~(tail <= o.pos)
  BY <1>1, <1>3, <1>5, <1>7, Unreturned
<1> QED BY <1>6, <1>7

LEMMA WindowCheckCalls ==
  ASSUME IInv, ObserverInv, WindowCheck
  PROVE  ObserverInv' /\ ToObserver!Next
<1>1. /\ (o.pc = "idle" /\ available) \/ o.pc = "skipped"
      /\ result' = Returned("none", 0) /\ UNCHANGED <<shared, p, gate, history, a>>
      /\ o' = [o EXCEPT !.pc = IF Overrun THEN "lapped" ELSE "window",
                        !.cursor = IF o.pc = "idle" THEN o.pos ELSE @]
  BY DEF WindowCheck
<1>2. /\ o \in Observers /\ o.pos \in Nat /\ o.tail_cache \in Nat /\ tail \in Nat
      /\ Overrun <=> tail_intent > o.pos + Capacity
  BY Window
<1>3. o.pos \in Place /\ o.tail_cache <= tail
  BY DEF ObserverInv
<1>4. /\ o' \in Observers /\ o'.pos = o.pos /\ o'.tail_cache = o.tail_cache
      /\ o'.pc = (IF Overrun THEN "lapped" ELSE "window")
      /\ o'.cursor = (IF o.pc = "idle" THEN o.pos ELSE o.cursor)
  BY <1>1, <1>2 DEF Observers
<1>5. result' # Returned("out", 0)
  BY <1>1 DEF Returned
<1>6. \E n \in DOMAIN frames : Reading(n)'
  <2>1. Overrun' <=> Overrun
    BY <1>1, <1>4 DEF Overrun, shared, counters
  <2>2. CASE o.pc = "idle" /\ available
    <3>1. o.pos < tail
      BY <1>2, <1>3, <2>2 DEF available
    <3>2. PICK n \in DOMAIN frames : o.pos \in {frames[n].start, frames[n].at}
      BY <1>3, <3>1, PlaceType
    <3>3. o'.cursor = o.pos /\ frames'[n] = frames[n] /\ DOMAIN frames' = DOMAIN frames
      BY <1>1, <1>4, <2>2 DEF history
    <3>4. o'.pc \in {"lapped", "window"}
      BY <1>4
    <3> QED BY <1>4, <3>2, <3>3, <3>4 DEF Reading
  <2>3. CASE o.pc = "skipped"
    <3>1. PICK n \in DOMAIN frames : Reading(n)
      BY <2>3 DEF ObserverInv
    <3>2. o'.cursor = o.cursor /\ frames'[n] = frames[n] /\ DOMAIN frames' = DOMAIN frames
      BY <1>1, <1>4, <2>3 DEF history
    <3>3. o'.pc \in {"lapped", "window"}
      BY <1>4
    <3> QED BY <1>4, <2>1, <2>3, <3>1, <3>2, <3>3 DEF Reading
  <2> QED BY <1>1, <2>2, <2>3
<1>7. ObserverInv'
  BY <1>1, <1>2, <1>3, <1>4, <1>5, <1>6, ObserverMoves
<1>8. o.pc # "out"
  BY <1>1
<1> QED BY <1>1, <1>4, <1>7, <1>8, Calls

\* What an observer reads of a frame that it has not been overrun in.
LEMMA ReadsFrame ==
  ASSUME IInv, ObserverInv, NEW n \in DOMAIN frames, Reading(n), ~Overrun
  PROVE  /\ buffer[Position(frames[n].at)] = frames[n].record[1]
         /\ {buffer[w] : w \in PayloadAt(Position(frames[n].at), frames[n].record[1])} = frames[n].record[2]
         /\ frames[n].record = <<frames[n].record[1], frames[n].record[2]>>
         /\ o.pc = "window" /\ o.cursor # frames[n].at => buffer[Position(o.cursor)] = PADDING
         /\ frames[n].record[1] \in Nat /\ frames[n].record[1] <= max_message_len
         /\ record_len(frames[n].record[1]) <= ToEnd(frames[n].at)
         /\ o.cursor # frames[n].at => frames[n].at = o.cursor + ToEnd(o.cursor)
<1>1. PICK f : f = frames[n]
  OBVIOUS
<1>2. WellFramed(f) /\ Held(f)
  BY <1>1 DEF IInv, FramesInv, ContentsInv
<1>3. /\ f.start \in Nat /\ f.at \in Nat /\ f.record[1] \in Nat /\ f.record = <<f.record[1], f.record[2]>>
      /\ f.start <= f.at /\ record_len(f.record[1]) \in Nat
  BY <1>2, Framed
<1>4. o.pos \in {f.start, f.at} /\ o.cursor \in {f.start, f.at}
  BY <1>1 DEF Reading
<1>5. tail_intent <= o.pos + Capacity /\ tail_intent \in Nat /\ o.pos \in Nat
  BY Window, CapacityType
<1>6. tail_intent <= f.at + Capacity
  BY <1>3, <1>4, <1>5, CapacityType
<1>7. /\ buffer[Position(f.at)] = f.record[1]
      /\ {buffer[w] : w \in PayloadAt(Position(f.at), f.record[1])} = f.record[2]
  BY <1>2, <1>3, <1>6 DEF Held, HeldRecord
<1>8. f.record[1] <= max_message_len /\ record_len(f.record[1]) <= ToEnd(f.at)
  <2>1. Position(f.at) + record_len(f.record[1]) <= Capacity /\ f.record[1] <= max_message_len
    BY <1>2 DEF WellFramed
  <2>2. Position(f.at) \in Nat /\ ToEnd(f.at) \in Nat /\ Position(f.at) + ToEnd(f.at) = Capacity
    BY <1>3, PositionType
  <2> QED BY <1>3, <2>1, <2>2, CapacityType
<1>9. ASSUME o.cursor # f.at PROVE f.at = o.cursor + ToEnd(o.cursor)
  <2>1. o.cursor = f.start
    BY <1>4, <1>9
  <2>2. f.at = f.start + ToEnd(f.start)
    BY <1>2, <1>9, <2>1 DEF WellFramed
  <2> QED BY <2>1, <2>2
<1>10. ASSUME o.pc = "window", o.cursor # f.at PROVE buffer[Position(o.cursor)] = PADDING
  <2>1. o.cursor = f.start /\ o.pos = f.start
    BY <1>1, <1>4, <1>10 DEF Reading
  <2>2. tail_intent <= f.start + Capacity
    BY <1>5, <2>1
  <2>3. buffer[Position(f.start)] = PADDING
    BY <1>2, <1>10, <2>1, <2>2 DEF Held, HeldPadding
  <2> QED BY <2>1, <2>3
<1> QED BY <1>1, <1>3, <1>7, <1>8, <1>9, <1>10

\* A step inside a frame that returns nothing: it needs to know only what it reads.
LEMMA ReadsOn ==
  ASSUME IInv, ObserverInv, UNCHANGED <<shared, p, gate, history, a>>, UNCHANGED result,
         o.pc # "out", o' \in Observers, o'.pos = o.pos, o'.tail_cache = o.tail_cache,
         o'.pc \in {"padding", "skipped", "copy", "copied", "lapped"},
         o'.pc = "lapped" => Overrun,
         NEW n \in DOMAIN frames, Reading(n), o'.cursor \in {frames[n].start, frames[n].at},
         ~Overrun =>
           /\ o'.pc = "padding" => o'.cursor = frames[n].start /\ o'.cursor # frames[n].at
           /\ o'.pc \in {"skipped", "copy", "copied"} => o'.cursor = frames[n].at
           /\ o'.pc \in {"copy", "copied"} => o'.len = frames[n].record[1]
           /\ o'.pc = "copied" => o'.copied = frames[n].record[2]
  PROVE  ObserverInv' /\ UNCHANGED ToObserver!vars
<1>1. /\ Overrun <=> tail_intent > o.pos + Capacity
      /\ o.pos \in Place /\ o.tail_cache <= tail /\ result # Returned("out", 0)
  BY Window DEF ObserverInv
<1>2. Overrun' <=> Overrun
  BY DEF Overrun, shared, counters
<1>3. frames' = frames
  BY DEF history
<1>4. Reading(n)'
  BY <1>2, <1>3 DEF Reading
<1>5. o'.pc = "lapped" => tail_intent > o'.pos + Capacity
  BY <1>1
<1>6. ObserverInv'
  BY <1>1, <1>4, <1>5, ObserverMoves
<1> QED BY <1>6, Unreturned

\* Where an observer reads is a lane.
LEMMA ReadsLane ==
  ASSUME IInv, NEW n \in DOMAIN frames, NEW c \in {frames[n].start, frames[n].at}
  PROVE  c \in Nat /\ ToEnd(c) \in Nat /\ buffer[Position(c)] \in Int
<1>1. PICK f : f = frames[n]
  OBVIOUS
<1>2. WellFramed(f)
  BY <1>1 DEF IInv, FramesInv
<1>3. c \in Nat /\ c % 4 = 0
  BY <1>1, <1>2 DEF WellFramed, Frames, LANE
<1>4. Position(c) \in Lanes /\ ToEnd(c) \in Nat
  BY <1>3, PositionLane, PositionType
<1> QED BY <1>3, <1>4 DEF IInv, TypeOK

LEMMA MessageType == max_message_len \in Int
<1>1. LengthDivisor \in Nat \ {0}
  BY AnchoredBytesAssumption
<1> QED BY <1>1, CapacityType DEF max_message_len

LEMMA LoadHeaderReads ==
  ASSUME IInv, ObserverInv, LoadHeader
  PROVE  ObserverInv' /\ UNCHANGED ToObserver!vars
<1>1. o.pc = "window" /\ UNCHANGED result /\ UNCHANGED <<shared, p, gate, history, a>>
  BY DEF LoadHeader
<1>2. PICK n \in DOMAIN frames : Reading(n)
  BY <1>1 DEF ObserverInv
<1>3. PICK header : header = buffer[Position(o.cursor)]
  OBVIOUS
<1>4. header \in Int /\ o \in Observers
  BY <1>2, <1>3, ReadsLane, Window DEF Reading
<1>5. o' = IF header = PADDING THEN [o EXCEPT !.pc = "padding"]
           ELSE IF header > max_message_len \/ record_len(header) > ToEnd(o.cursor)
           THEN [o EXCEPT !.pc = "lapped"]
           ELSE [o EXCEPT !.pc = "copy", !.len = header]
  BY <1>3 DEF LoadHeader
<1>6. /\ o' \in Observers /\ o'.pos = o.pos /\ o'.tail_cache = o.tail_cache /\ o'.cursor = o.cursor
      /\ o'.pc \in {"padding", "lapped", "copy"}
      /\ o'.pc = "padding" => header = PADDING
      /\ o'.pc = "copy" => header # PADDING /\ o'.len = header
      /\ o'.pc = "lapped" =>
           header # PADDING /\ (header > max_message_len \/ record_len(header) > ToEnd(o.cursor))
  BY <1>4, <1>5 DEF Observers
<1>7. o.cursor \in {frames[n].start, frames[n].at}
  BY <1>2 DEF Reading
<1>8. CASE Overrun
  BY <1>1, <1>2, <1>6, <1>7, <1>8, ReadsOn
<1>9. CASE ~Overrun
  <2>1. CASE o.cursor # frames[n].at
    <3>1. header = PADDING
      BY <1>1, <1>2, <1>3, <1>9, <2>1, ReadsFrame
    <3>2. o'.pc = "padding"
      BY <1>6, <3>1
    <3> QED BY <1>1, <1>2, <1>6, <1>7, <1>9, <2>1, <3>2, ReadsOn
  <2>2. CASE o.cursor = frames[n].at
    <3>1. /\ header = frames[n].record[1] /\ header \in Nat /\ header <= max_message_len
          /\ record_len(frames[n].record[1]) <= ToEnd(frames[n].at)
      BY <1>2, <1>3, <1>9, <2>2, ReadsFrame
    <3>2. header # PADDING
      BY <3>1 DEF PADDING
    <3>3. ~(header > max_message_len)
      BY <3>1, MessageType
    <3>4. ~(record_len(header) > ToEnd(o.cursor))
      <4>1. record_len(header) <= ToEnd(o.cursor)
        BY <2>2, <3>1
      <4>2. record_len(header) \in Nat /\ ToEnd(o.cursor) \in Nat
        <5>1. header \in Int /\ header >= -1
          BY <3>1
        <5> QED BY <1>7, <5>1, RecordLen, ReadsLane
      <4> QED BY <4>1, <4>2
    <3>5. o'.pc = "copy" /\ o'.len = frames[n].record[1]
      BY <1>6, <3>1, <3>2, <3>3, <3>4
    <3> QED BY <1>1, <1>2, <1>6, <1>7, <2>2, <3>5, ReadsOn
  <2> QED BY <2>1, <2>2
<1> QED BY <1>8, <1>9

LEMMA SkipPaddingSkips ==
  ASSUME IInv, ObserverInv, SkipPadding
  PROVE  ObserverInv' /\ UNCHANGED ToObserver!vars
<1>1. /\ o.pc = "padding" /\ UNCHANGED result /\ UNCHANGED <<shared, p, gate, history, a>>
      /\ o' = IF Overrun THEN [o EXCEPT !.pc = "lapped"]
              ELSE [o EXCEPT !.pc = "skipped", !.cursor = o.cursor + ToEnd(o.cursor)]
  BY DEF SkipPadding
<1>2. PICK n \in DOMAIN frames : Reading(n)
  BY <1>1 DEF ObserverInv
<1>3. /\ o \in Observers /\ o.cursor \in {frames[n].start, frames[n].at}
      /\ o.cursor \in Nat /\ ToEnd(o.cursor) \in Nat
  BY <1>2, ReadsLane, Window DEF Reading
<1>4. CASE Overrun
  <2>1. /\ o' \in Observers /\ o'.pos = o.pos /\ o'.tail_cache = o.tail_cache /\ o'.pc = "lapped"
        /\ o'.cursor = o.cursor
    BY <1>1, <1>3, <1>4 DEF Observers
  <2> QED BY <1>1, <1>2, <1>3, <1>4, <2>1, ReadsOn
<1>5. CASE ~Overrun
  <2>1. /\ o' \in Observers /\ o'.pos = o.pos /\ o'.tail_cache = o.tail_cache /\ o'.pc = "skipped"
        /\ o'.cursor = o.cursor + ToEnd(o.cursor)
    <3>1. PICK c \in Nat : c = o.cursor + ToEnd(o.cursor)
      BY <1>3
    <3>2. o' = [o EXCEPT !.pc = "skipped", !.cursor = c]
      BY <1>1, <1>5, <3>1
    <3> QED BY <1>3, <3>1, <3>2 DEF Observers
  <2>2. o.cursor # frames[n].at
    BY <1>1, <1>2, <1>5 DEF Reading
  <2>3. o'.cursor = frames[n].at
    BY <1>2, <1>5, <2>1, <2>2, ReadsFrame
  <2> QED BY <1>1, <1>2, <2>1, <2>3, ReadsOn
<1> QED BY <1>4, <1>5

LEMMA CopyCopies ==
  ASSUME IInv, ObserverInv, Copy
  PROVE  ObserverInv' /\ UNCHANGED ToObserver!vars
<1>1. /\ o.pc = "copy" /\ UNCHANGED result /\ UNCHANGED <<shared, p, gate, history, a>>
  BY DEF Copy
<1>2. PICK n \in DOMAIN frames : Reading(n)
  BY <1>1 DEF ObserverInv
<1>3. PICK copied : copied = {buffer[w] : w \in PayloadAt(Position(o.cursor), o.len)}
  OBVIOUS
<1>4. copied \in SUBSET Int
  <2>1. \A w \in PayloadAt(Position(o.cursor), o.len) : buffer[w] \in Int
    BY DEF PayloadAt, IInv, TypeOK
  <2> QED BY <1>3, <2>1
<1>5. o \in Observers /\ o.cursor \in {frames[n].start, frames[n].at}
  BY <1>2, Window DEF Reading
<1>6. o' = [o EXCEPT !.pc = "copied", !.copied = copied]
  BY <1>3 DEF Copy
<1>7. /\ o' \in Observers /\ o'.pos = o.pos /\ o'.tail_cache = o.tail_cache /\ o'.pc = "copied"
      /\ o'.cursor = o.cursor /\ o'.len = o.len /\ o'.copied = copied
  BY <1>4, <1>5, <1>6 DEF Observers
<1>8. ~Overrun => /\ o'.cursor = frames[n].at /\ o'.len = frames[n].record[1]
                  /\ o'.copied = frames[n].record[2]
  <2> SUFFICES ASSUME ~Overrun
               PROVE  /\ o'.cursor = frames[n].at /\ o'.len = frames[n].record[1]
                      /\ o'.copied = frames[n].record[2]
    OBVIOUS
  <2>1. o.cursor = frames[n].at /\ o.len = frames[n].record[1]
    BY <1>1, <1>2 DEF Reading
  <2>2. copied = {buffer[w] : w \in PayloadAt(Position(frames[n].at), frames[n].record[1])}
    BY <1>3, <2>1
  <2> QED BY <1>2, <1>7, <2>1, <2>2, ReadsFrame
<1> QED BY <1>1, <1>2, <1>5, <1>7, <1>8, ReadsOn

LEMMA AcceptReceives ==
  ASSUME IInv, ObserverInv, Accept
  PROVE  ObserverInv' /\ (ToObserver!Next \/ UNCHANGED ToObserver!vars)
<1>1. o.pc = "copied" /\ UNCHANGED <<shared, p, gate, history, a>>
  BY DEF Accept
<1>2. PICK n \in DOMAIN frames : Reading(n)
  BY <1>1 DEF ObserverInv
<1>3. o \in Observers /\ o.cursor \in {frames[n].start, frames[n].at}
  BY <1>2, Window DEF Reading
<1>4. CASE Overrun
  <2>1. o' = [o EXCEPT !.pc = "lapped", !.copied = {}] /\ UNCHANGED result
    BY <1>4 DEF Accept
  <2>2. /\ o' \in Observers /\ o'.pos = o.pos /\ o'.tail_cache = o.tail_cache /\ o'.pc = "lapped"
        /\ o'.cursor = o.cursor
    BY <1>3, <2>1 DEF Observers
  <2> QED BY <1>1, <1>2, <1>3, <1>4, <2>1, <2>2, ReadsOn
<1>5. CASE ~Overrun
  <2>1. o.cursor = frames[n].at /\ o.len = frames[n].record[1] /\ o.copied = frames[n].record[2]
    BY <1>1, <1>2, <1>5 DEF Reading
  <2>2. PICK next : next = frames[n].end
    OBVIOUS
  <2>3. o.cursor + record_len(o.len) = next /\ next \in Ends /\ next \in Nat
    BY <2>1, <2>2, AtFrame
  <2>4. /\ o' = [o EXCEPT !.pc = "idle", !.pos = next, !.len = 0, !.copied = {}]
        /\ result' = Returned("item", <<o.len, o.copied>>)
    BY <1>5, <2>3 DEF Accept
  <2>5. /\ o' \in Observers /\ o'.pos = next /\ o'.tail_cache = o.tail_cache /\ o'.pc = "idle"
    <3>1. PICK h : h = [o EXCEPT !.pc = "idle", !.pos = next]
      OBVIOUS
    <3>2. h \in Observers /\ h.pos = next /\ h.tail_cache = o.tail_cache /\ h.pc = "idle"
      BY <1>3, <2>3, <3>1 DEF Observers
    <3>3. PICK g : g = [h EXCEPT !.len = 0]
      OBVIOUS
    <3>4. g \in Observers /\ g.pos = next /\ g.tail_cache = o.tail_cache /\ g.pc = "idle"
      BY <3>2, <3>3 DEF Observers
    <3>5. o' = [g EXCEPT !.copied = {}]
      BY <2>4, <3>1, <3>3
    <3> QED BY <3>4, <3>5 DEF Observers
  <2>6. result' # Returned("out", 0)
    BY <2>4 DEF Returned
  <2>7. ObserverInv'
    BY <1>1, <2>3, <2>5, <2>6, ObserverMoves DEF Place, ObserverInv
  <2>8. <<o.len, o.copied>> = frames[n].record
    BY <1>2, <1>5, <2>1, ReadsFrame
  <2>9. result' = ToObserver!Item(frames[n].record)
    BY <2>4, <2>8 DEF ToObserver!Item, Returned
  <2>10. ToObserver!Receive
    BY <1>1, <1>2, <2>2, <2>5, <2>9 DEF ToObserver!Receive, Reading, shared, counters, history
  <2> QED BY <2>7, <2>10 DEF ToObserver!Next
<1> QED BY <1>4, <1>5

LEMMA RepositionTailLooks ==
  ASSUME IInv, ObserverInv, RepositionTail
  PROVE  ObserverInv' /\ UNCHANGED ToObserver!vars
<1>1. /\ o.pc = "lapped" /\ UNCHANGED result /\ UNCHANGED <<shared, p, gate, history, a>>
      /\ o' = [o EXCEPT !.tail_cache = tail, !.pc = "jump"]
  BY DEF RepositionTail
<1>2. o \in Observers /\ tail \in Nat /\ o.pos \in Place /\ result # Returned("out", 0)
  BY <1>1, Window DEF ObserverInv
<1>3. o' \in Observers /\ o'.pc = "jump" /\ o'.pos = o.pos /\ o'.tail_cache = tail
  BY <1>1, <1>2 DEF Observers
<1>4. tail_intent > o'.pos + Capacity
  BY <1>1, <1>3 DEF ObserverInv
<1>5. ObserverInv'
  BY <1>1, <1>2, <1>3, <1>4, ObserverMoves
<1> QED BY <1>1, <1>3, <1>5, Unreturned

LEMMA RepositionLatestLags ==
  ASSUME IInv, ObserverInv, RepositionLatest
  PROVE  ObserverInv' /\ ToObserver!Next
<1>1. PICK new_pos : new_pos = Max({latest, o.pos})
  OBVIOUS
<1>2. /\ o.pc = "jump" /\ UNCHANGED <<shared, p, gate, history, a>>
      /\ o' = [o EXCEPT !.pc = "idle", !.pos = new_pos, !.len = 0]
      /\ result' = Returned("lagged", new_pos - o.pos)
  BY <1>1 DEF RepositionLatest
<1>3. o \in Observers /\ latest \in Place /\ o.pos \in Place /\ tail_intent > o.pos + Capacity
  BY <1>2 DEF ObserverInv
<1>4. latest \in Nat /\ o.pos \in Nat
  BY <1>3, PlaceType
<1>5. new_pos \in {latest, o.pos} /\ new_pos >= o.pos /\ new_pos \in Place /\ new_pos \in Nat
  BY <1>1, <1>3, <1>4, MaxOf
<1>6. /\ o' \in Observers /\ o'.pc = "idle" /\ o'.pos = new_pos /\ o'.tail_cache = o.tail_cache
  <2>1. PICK h : h = [o EXCEPT !.pc = "idle", !.pos = new_pos]
    OBVIOUS
  <2>2. h \in Observers /\ h.pos = new_pos /\ h.tail_cache = o.tail_cache /\ h.pc = "idle"
    BY <1>3, <1>5, <2>1 DEF Observers
  <2>3. o' = [h EXCEPT !.len = 0]
    BY <1>2, <2>1
  <2> QED BY <2>2, <2>3 DEF Observers
<1>7. result' # Returned("out", 0)
  BY <1>2 DEF Returned
<1>8. ObserverInv'
  BY <1>2, <1>5, <1>6, <1>7, ObserverMoves DEF ObserverInv
<1>9. new_pos \in ToObserver!Starts \union ToObserver!Ends \union ToObserver!Committed .. tail_intent
  BY <1>5, LogFacts DEF Place
<1>10. ToObserver!Lag
  BY <1>2, <1>3, <1>5, <1>6, <1>9
  DEF ToObserver!Lag, ToObserver!Lagged, Returned, shared, counters, history
<1> QED BY <1>8, <1>10 DEF ToObserver!Next

LEMMA SkipToLatestSkips ==
  ASSUME IInv, ObserverInv, SkipToLatest
  PROVE  ObserverInv' /\ ToObserver!Next
<1>1. PICK new_pos : new_pos = Max({tail, o.pos})
  OBVIOUS
<1>2. /\ o.pc = "idle" /\ UNCHANGED <<shared, p, gate, history, a>>
      /\ o' = [o EXCEPT !.tail_cache = tail, !.pos = new_pos]
      /\ result' = Returned("skipped", new_pos - o.pos)
  BY <1>1 DEF SkipToLatest
<1>3. o \in Observers /\ o.pos \in Place /\ o.pos \in Nat /\ tail \in Nat /\ tail \in Ends
  BY Window, EndsType DEF ObserverInv, IInv
<1>4. new_pos \in {tail, o.pos} /\ new_pos >= o.pos /\ new_pos \in Place /\ new_pos \in Nat
  <2>1. tail \in Place
    BY <1>3 DEF Place
  <2> QED BY <1>1, <1>3, <2>1, MaxOf
<1>5. /\ o' \in Observers /\ o'.pc = "idle" /\ o'.pos = new_pos /\ o'.tail_cache = tail
  BY <1>2, <1>3, <1>4 DEF Observers
<1>6. result' # Returned("out", 0)
  BY <1>2 DEF Returned
<1>7. ObserverInv'
  BY <1>2, <1>3, <1>4, <1>5, <1>6, ObserverMoves
<1>8. ToObserver!Skip
  BY <1>2, <1>3, <1>4, <1>5, LogFacts
  DEF ToObserver!Skip, ToObserver!Skipped, Returned, shared, counters, history
<1> QED BY <1>7, <1>8 DEF ToObserver!Next

-----------------------------------------------------------------------------
(* The refinement of LossyRecords *)

LEMMA ObserverInitial == Init => ObserverInv /\ ToObserver!Init
<1> SUFFICES ASSUME Init PROVE ObserverInv /\ ToObserver!Init
  OBVIOUS
<1>1. /\ tail_intent = 0 /\ latest = 0 /\ tail = 0 /\ closed = FALSE /\ frames = << >> /\ closes = {}
      /\ o = [pc |-> "out", pos |-> 0, tail_cache |-> 0, cursor |-> 0, len |-> 0, copied |-> {}]
      /\ result = Returned("out", 0)
  BY DEF Init
<1>2. IInv
  BY Initial
<1>3. 0 \in Place
  BY <1>2, EndsType DEF Place, IInv
<1>4. o \in Observers /\ o.pc = "out" /\ o.pos = 0 /\ o.tail_cache = 0
  BY <1>1 DEF Observers
<1>5. ObserverInv
  BY <1>1, <1>3, <1>4 DEF ObserverInv
<1>6. ToObserver!Init
  BY <1>1, <1>4 DEF ToObserver!Init, ToObserver!Out, ToObserver!Nothing, Returned
<1> QED BY <1>5, <1>6

LEMMA ObserverStep ==
  ASSUME IInv, IInv', ObserverInv, [Next]_vars
  PROVE  ObserverInv' /\ [ToObserver!Next]_(ToObserver!vars)
<1>1. CASE UNCHANGED <<counters, closed, history, observer>>
  BY <1>1, ObserverUntouched
<1>2. CASE Gate
  BY <1>1, <1>2 DEF Gate, Frame, Granted, Rescan, RaiseStarving, WaitForSpace, Abandon, shared
<1>3. CASE write_frame
  <2>1. CASE WriteLanes
    BY <1>1, <2>1 DEF WriteLanes
  <2> QED BY <1>3, <2>1, DeclareDeclares, StoreLatestPoints, StoreTailCommits DEF write_frame
<1>4. CASE Succession
  <2>1. CASE Die
    BY <1>1, <2>1 DEF Die, shared
  <2> QED BY <1>4, <2>1, DropProducerCloses, AttachKeeps DEF Succession
<1>5. ASSUME NEW i \in Anchors, AnchorNext(i) PROVE ObserverInv' /\ [ToObserver!Next]_(ToObserver!vars)
  BY <1>1, <1>5 DEF AnchorNext, Subscribe, pop, Forget, Release, LoadStarving, advance, Drain, DrainBegin,
                    DrainRecord, DrainEnd, Detach, shared
<1>6. CASE ObserverNext
  BY <1>6, ObserveJoins, RefreshCalls, ObserveClosedLooks, RecheckFinishes, WindowCheckCalls, LoadHeaderReads,
     SkipPaddingSkips, CopyCopies, AcceptReceives, RepositionTailLooks, RepositionLatestLags,
     SkipToLatestSkips DEF ObserverNext, read_record, reposition
<1>7. CASE UNCHANGED vars
  BY <1>1, <1>7 DEF vars, shared
<1> QED BY <1>2, <1>3, <1>4, <1>5, <1>6, <1>7 DEF Next

\* An observer is handed whole records, each once and in order; it lags only where it was
\* overrun, and is told that the ring is closed only past everything a session that
\* closed had committed: over any number of sessions, producers that died between two
\* stores included, the ring implements the lossy one (LossyRecords).
THEOREM ObserversLoseWholeRecords == Spec => ImplementsLossyRecords
<1>1. Init => ObserverInv /\ ToObserver!Init
  BY ObserverInitial
<1>2. IInv /\ IInv' /\ ObserverInv /\ [Next]_vars =>
        ObserverInv' /\ [ToObserver!Next]_(ToObserver!vars)
  BY ObserverStep
<1> QED BY <1>1, <1>2, Invariance, PTL DEF Spec, ImplementsLossyRecords, ToObserver!Spec

=============================================================================
