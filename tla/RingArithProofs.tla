-------------------------- MODULE RingArithProofs --------------------------
(***************************************************************************)
(* What the cursor arithmetic of RingArith computes: a cursor word behaves *)
(* like the unbounded count it is the remainder of, as long as two cursors *)
(* are less than a word apart.                                             *)
(***************************************************************************)
EXTENDS RingArith, TLAPS

\* Euclidean division, in the form the provers can use.
LEMMA ModInterval ==
  ASSUME NEW N \in Nat \ {0}, NEW a \in Int
  PROVE  /\ a % N \in 0 .. N - 1
         /\ \E q \in Int : a = N * q + (a % N)
<1>1. a \div N \in Int /\ a % N \in 0 .. N - 1
  OBVIOUS
<1>2. a = N * (a \div N) + (a % N)
  OBVIOUS
<1> QED BY <1>1, <1>2

\* No multiple of N lies strictly within N above another.
LEMMA NoMultipleInside ==
  ASSUME NEW N \in Nat \ {0}, NEW q \in Int, NEW r \in Int, N * q < N * r, N * r - N * q < N
  PROVE  FALSE
<1>1. N * r - N * q = N * (r - q)
  OBVIOUS
<1>2. CASE r - q >= 1
  <2>1. N * (r - q) >= N
    BY <1>2
  <2> QED BY <2>1, <1>1
<1>3. CASE r - q <= 0
  <2>1. N * (r - q) <= 0
    BY <1>3
  <2> QED BY <2>1, <1>1
<1> QED BY <1>2, <1>3

\* Cursors less than a ring apart have different slots.
LEMMA ModDistinct ==
  ASSUME NEW N \in Nat \ {0}, NEW a \in Nat, NEW b \in Nat, a < b, b - a < N
  PROVE  a % N # b % N
<1> SUFFICES ASSUME a % N = b % N PROVE FALSE
  OBVIOUS
<1>0. a \in Int /\ b \in Int
  OBVIOUS
<1>1. PICK q \in Int : a = N * q + (a % N)
  BY <1>0, ModInterval, Zenon
<1>2. PICK r \in Int : b = N * r + (b % N)
  BY <1>0, ModInterval, Zenon
<1>3. a % N \in Int /\ N * q \in Int /\ N * r \in Int
  BY ModInterval
<1>4. N * r - N * q < N /\ N * q < N * r
  BY <1>1, <1>2, <1>3
<1> QED BY <1>4, NoMultipleInside

\* A quotient and a remainder in range are the quotient and the remainder.
LEMMA ModUnique ==
  ASSUME NEW N \in Nat \ {0}, NEW a \in Int, NEW q \in Int, NEW r \in 0 .. N - 1, a = N * q + r
  PROVE  a % N = r
<1>1. PICK s \in Int : a = N * s + (a % N)
  BY ModInterval
<1>2. a % N \in Int /\ 0 <= a % N /\ a % N < N
  BY ModInterval
<1>3. N * q \in Int /\ N * s \in Int
  OBVIOUS
<1>4. CASE a % N < r
  <2>1. N * q < N * s /\ N * s - N * q < N
    BY <1>1, <1>2, <1>3, <1>4
  <2> QED BY <2>1, NoMultipleInside
<1>5. CASE r < a % N
  <2>1. N * s < N * q /\ N * q - N * s < N
    BY <1>1, <1>2, <1>3, <1>5
  <2> QED BY <2>1, NoMultipleInside
<1> QED BY <1>2, <1>4, <1>5

\* Adding to a cursor word is adding to the count.
LEMMA WrappedAdd ==
  ASSUME NEW N \in Nat \ {0}, NEW a \in Nat, NEW k \in Nat
  PROVE  wrapping_add(a % N, k, N) = (a + k) % N
<1>0. a \in Int
  OBVIOUS
<1>1. PICK q \in Int : a = N * q + (a % N)
  BY <1>0, ModInterval, Zenon
<1>2. a % N \in Int
  BY ModInterval
<1> DEFINE b == (a % N) + k
<1>3. b \in Int
  BY <1>2
<1>4. PICK r \in Int : b = N * r + (b % N)
  BY <1>3, ModInterval
<1>5. b % N \in 0 .. N - 1
  BY <1>3, ModInterval
<1>6. N * q + N * r = N * (q + r) /\ N * q \in Int /\ N * r \in Int
  OBVIOUS
<1>7. a + k = N * (q + r) + (b % N)
  <2> HIDE DEF b
  <2>1. a + k = N * q + b
    BY <1>1, <1>2, <1>6 DEF b
  <2> QED BY <2>1, <1>3, <1>4, <1>5, <1>6
<1>8. (a + k) % N = b % N
  <2> HIDE DEF b
  <2>1. a + k \in Int /\ q + r \in Int
    OBVIOUS
  <2> QED BY <1>5, <1>7, <2>1, ModUnique
<1> QED BY <1>8 DEF wrapping_add

\* Subtracting cursor words is subtracting the counts.
LEMMA WrappedSub ==
  ASSUME NEW N \in Nat \ {0}, NEW a \in Nat, NEW b \in Nat, b <= a, a - b < N
  PROVE  wrapping_sub(a % N, b % N, N) = a - b
<1>0. a \in Int /\ b \in Int
  OBVIOUS
<1>1. PICK q \in Int : a = N * q + (a % N)
  BY <1>0, ModInterval, Zenon
<1>2. PICK r \in Int : b = N * r + (b % N)
  BY <1>0, ModInterval, Zenon
<1>3. a % N \in Int /\ b % N \in Int /\ a - b \in 0 .. N - 1
  BY ModInterval
<1>4. N * r - N * q = N * (r - q) /\ N * q \in Int /\ N * r \in Int
  OBVIOUS
<1>5. (a % N) - (b % N) = N * (r - q) + (a - b)
  <2> DEFINE x == a % N
             y == b % N
             u == N * q
             v == N * r
  <2>1. a = u + x /\ b = v + y /\ v - u = N * (r - q)
    BY <1>1, <1>2, <1>4
  <2>2. x \in Int /\ y \in Int /\ u \in Int /\ v \in Int
    BY <1>3, <1>4
  <2> HIDE DEF x, y, u, v
  <2>3. x - y = (v - u) + (a - b)
    BY <2>1, <2>2
  <2> QED BY <2>1, <2>3 DEF x, y
<1>6. ((a % N) - (b % N)) % N = a - b
  BY <1>3, <1>5, ModUnique
<1> QED BY <1>6 DEF wrapping_sub

\* A ring that divides the word indexes the word as it would the count.
LEMMA ModOfMod ==
  ASSUME NEW N \in Nat \ {0}, NEW M \in Nat \ {0}, M % N = 0, NEW a \in Nat
  PROVE  (a % M) % N = a % N
<1>0. a \in Int /\ M \in Int
  OBVIOUS
<1>1. PICK m \in Int : M = N * m
  <2>1. PICK m \in Int : M = N * m + (M % N)
    BY <1>0, ModInterval, Zenon
  <2> QED BY <2>1
<1>2. PICK q \in Int : a = M * q + (a % M)
  BY <1>0, ModInterval, Zenon
<1> DEFINE b == a % M
<1>3. b \in Int
  BY ModInterval
<1>4. PICK r \in Int : b = N * r + (b % N)
  BY <1>3, ModInterval
<1>5. b % N \in 0 .. N - 1
  BY <1>3, ModInterval
<1>6. M * q = N * (m * q) /\ m * q \in Int
  BY <1>1
<1>7. a = N * (m * q + r) + (b % N)
  <2> HIDE DEF b
  <2>1. N * (m * q + r) = N * (m * q) + N * r
    BY <1>6
  <2>2. a = M * q + b
    BY <1>2 DEF b
  <2> QED BY <1>3, <1>4, <1>5, <1>6, <2>1, <2>2
<1>8. a % N = b % N
  <2> HIDE DEF b
  <2>1. m * q + r \in Int
    BY <1>6
  <2> QED BY <1>0, <1>5, <1>7, <2>1, ModUnique
<1> QED BY <1>8
=============================================================================
