----------------------------- MODULE RingLemmas -----------------------------
(***************************************************************************)
(* Facts about the index arithmetic of module Ring, for every ring size N. *)
(* AddCases removes the modulo operator once and for all: the proofs that  *)
(* follow it are linear arithmetic.                                        *)
(***************************************************************************)
EXTENDS Ring, TLAPS

(***************************************************************************)
(* An index plus a length of at most one lap wraps at most once            *)
(* ((temp + len) % SEND_BUFFER_SIZE in resf.c).                            *)
(***************************************************************************)
LEMMA AddCases ==
  ASSUME NEW p \in Pos, NEW k \in 0 .. N
  PROVE  Add(p, k) = IF p + k < N THEN p + k ELSE p + k - N
BY RingSize DEF Add, Pos

(***************************************************************************)
(* Advancing an index by less than a lap gives an index, at that distance. *)
(***************************************************************************)
LEMMA AddPos ==
  ASSUME NEW p \in Pos, NEW k \in Pos
  PROVE  Add(p, k) \in Pos /\ Dist(p, Add(p, k)) = k
BY RingSize, AddCases DEF Pos, Dist, DistBy

(***************************************************************************)
(* The distance between two indices is less than a lap, and covers it.     *)
(***************************************************************************)
LEMMA DistPos ==
  ASSUME NEW p \in Pos, NEW q \in Pos
  PROVE  Dist(p, q) \in Pos /\ Add(p, Dist(p, q)) = q
BY RingSize, AddCases DEF Pos, Dist, DistBy

(***************************************************************************)
(* Two advances that stay within a lap are one advance.                    *)
(***************************************************************************)
LEMMA AddAdd ==
  ASSUME NEW p \in Pos, NEW j \in Pos, NEW k \in Pos, j + k < N
  PROVE  Add(Add(p, j), k) = Add(p, j + k)
<1>1. Add(p, j) = IF p + j < N THEN p + j ELSE p + j - N
  BY RingSize, AddCases DEF Pos
<1>2. Add(p, j) \in Pos
  BY AddPos
<1>3. Add(Add(p, j), k) = IF Add(p, j) + k < N THEN Add(p, j) + k
                                              ELSE Add(p, j) + k - N
  BY <1>2, RingSize, AddCases DEF Pos
<1>4. Add(p, j + k) = IF p + (j + k) < N THEN p + (j + k) ELSE p + (j + k) - N
  BY RingSize, AddCases DEF Pos
<1> QED
  BY <1>1, <1>2, <1>3, <1>4, RingSize DEF Pos

(***************************************************************************)
(* Whatever is added to an index, the result is an index.                  *)
(***************************************************************************)
LEMMA AddInRing ==
  ASSUME NEW p \in Pos, NEW k \in Int
  PROVE  Add(p, k) \in Pos
BY RingSize DEF Add, Pos

(***************************************************************************)
(* Two distances that stay within a lap add up.                            *)
(***************************************************************************)
LEMMA DistChain ==
  ASSUME NEW a \in Pos, NEW b \in Pos, NEW c \in Pos,
         Dist(a, b) + Dist(b, c) < N
  PROVE  Dist(a, c) = Dist(a, b) + Dist(b, c)
BY RingSize DEF Pos, Dist, DistBy

(***************************************************************************)
(* Different distances from one index lead to different slots: a store at  *)
(* one leaves the other alone.                                             *)
(***************************************************************************)
LEMMA AddInjective ==
  ASSUME NEW p \in Pos, NEW j \in Pos, NEW k \in Pos, Add(p, j) = Add(p, k)
  PROVE  j = k
BY AddPos

(***************************************************************************)
(* Advancing an index towards another one shortens the distance by as much *)
(* (lastSent moving up to lastWrite).                                      *)
(***************************************************************************)
LEMMA Advance ==
  ASSUME NEW a \in Pos, NEW b \in Pos, NEW k \in Nat, k <= Dist(a, b)
  PROVE  /\ Add(a, k) \in Pos
         /\ Dist(a, Add(a, k)) = k
         /\ Dist(Add(a, k), b) = Dist(a, b) - k
<1>1. Add(a, k) = IF a + k < N THEN a + k ELSE a + k - N
  BY RingSize, AddCases DEF Pos, Dist, DistBy
<1> QED
  BY <1>1, RingSize DEF Pos, Dist, DistBy

(***************************************************************************)
(* Advancing an index into the room behind it lengthens the distance to it *)
(* by as much (lastWrite moving on into free space).                       *)
(***************************************************************************)
LEMMA Extend ==
  ASSUME NEW a \in Pos, NEW b \in Pos, NEW k \in Nat, k <= Room(a, b)
  PROVE  /\ Add(b, k) \in Pos
         /\ Dist(a, Add(b, k)) = Dist(a, b) + k
         /\ Dist(b, Add(b, k)) = k
<1>1. Add(b, k) = IF b + k < N THEN b + k ELSE b + k - N
  BY RingSize, AddCases DEF Pos, Dist, DistBy, Room
<1> QED
  BY <1>1, RingSize DEF Pos, Dist, DistBy, Room

-----------------------------------------------------------------------------
(***************************************************************************)
(* Positions in the stream of bytes, which only grow, and the indices that *)
(* stand for them.  A sequence number is the index of a position: it says  *)
(* which one only among N positions in a row.                              *)
(***************************************************************************)
At(p, i) == i \in Pos /\ p % N = i

\* A number is a multiple of N and a remainder in one way only.
LEMMA RemainderUnique ==
  ASSUME NEW q \in Int, NEW i \in Pos
  PROVE  (N * q + i) % N = i
<1> DEFINE x == N * q + i
           d == x \div N
           m == x % N
<1>1. x \in Int /\ i \in Int /\ 0 <= i /\ i < N /\ N \in Int /\ N > 0
  BY RingSize DEF Pos
<1>2. d \in Int /\ m \in Int /\ 0 <= m /\ m < N /\ x = N * d + m
  BY <1>1
<1>3. x = N * q + i
  OBVIOUS
<1> HIDE DEF x, d, m
<1>4. ASSUME q < d PROVE FALSE
  <2>1. N * (q + 1) <= N * d
    BY <1>1, <1>2, <1>4
  <2>2. N * (q + 1) = N * q + N
    BY <1>1
  <2> QED
    BY <1>1, <1>2, <1>3, <2>1, <2>2
<1>5. ASSUME d < q PROVE FALSE
  <2>1. N * (d + 1) <= N * q
    BY <1>1, <1>2, <1>5
  <2>2. N * (d + 1) = N * d + N
    BY <1>1, <1>2
  <2> QED
    BY <1>1, <1>2, <1>3, <2>1, <2>2
<1>6. q = d
  BY <1>2, <1>4, <1>5
<1> QED
  BY <1>1, <1>2, <1>3, <1>6 DEF m, x

\* The index k bytes on is that of the position k bytes on.
LEMMA AtAdd ==
  ASSUME NEW p \in Int, NEW i, At(p, i), NEW k \in 0 .. N
  PROVE  At(p + k, Add(i, k))
<1> DEFINE q == p \div N
<1>1. i \in Pos /\ q \in Int /\ p = N * q + i
  BY RingSize DEF At, Pos
<1> HIDE DEF q
<1>2. k \in Int /\ i \in Int /\ N \in Int /\ N * q \in Int /\ N * (q + 1) = N * q + N
  BY <1>1, RingSize DEF Pos
<1>3. CASE i + k < N
  <2>1. Add(i, k) = i + k /\ i + k \in Pos
    BY <1>1, <1>2, <1>3, AddCases DEF Pos
  <2>2. p + k = N * q + (i + k)
    BY <1>1, <1>2
  <2> QED
    BY <1>1, <2>1, <2>2, RemainderUnique DEF At
<1>4. CASE i + k >= N
  <2>1. Add(i, k) = i + k - N /\ i + k - N \in Pos
    BY <1>1, <1>2, <1>4, AddCases DEF Pos
  <2>2. p + k = N * (q + 1) + (i + k - N) /\ q + 1 \in Int
    BY <1>1, <1>2
  <2> QED
    BY <2>1, <2>2, RemainderUnique DEF At
<1> QED
  BY <1>2, <1>3, <1>4

\* Less than a lap apart, positions with the same index are the same.
LEMMA AtUnique ==
  ASSUME NEW p \in Int, NEW q \in Int, NEW i, At(p, i), At(q, i),
         p <= q + N - 1, q <= p + N - 1
  PROVE  p = q
<1> DEFINE a == p \div N
           b == q \div N
<1>1. i \in Int /\ a \in Int /\ b \in Int /\ p = N * a + i /\ q = N * b + i
      /\ N \in Int /\ N > 0
  BY RingSize DEF At, Pos
<1> HIDE DEF a, b
<1>2. ASSUME a < b PROVE FALSE
  <2>1. N * (a + 1) <= N * b /\ N * (a + 1) = N * a + N
    BY <1>1, <1>2
  <2> QED
    BY <1>1, <2>1
<1>3. ASSUME b < a PROVE FALSE
  <2>1. N * (b + 1) <= N * a /\ N * (b + 1) = N * b + N
    BY <1>1, <1>3
  <2> QED
    BY <1>1, <2>1
<1>4. a = b
  BY <1>1, <1>2, <1>3
<1> QED
  BY <1>1, <1>4

\* The index that lies d bytes behind is that of the position d bytes behind.
LEMMA AtBack ==
  ASSUME NEW q \in Int, NEW j, At(q, j), NEW i \in Pos
  PROVE  At(q - Dist(i, j), i)
<1> DEFINE d == Dist(i, j)
           m == (q - d) % N
<1>1. j \in Pos /\ d \in Pos /\ Add(i, d) = j
  BY DistPos DEF At
<1>2. m \in Pos /\ At(q - d, m)
  BY <1>1, RingSize DEF At, Pos
<1> HIDE DEF d, m
<1>3. d \in 0 .. N /\ q - d \in Int
  BY <1>1, RingSize DEF Pos
<1>4. At((q - d) + d, Add(m, d))
  BY <1>2, <1>3, AtAdd
<1>5. (q - d) + d = q
  BY <1>3
<1>6. Add(m, d) = j
  BY <1>4, <1>5 DEF At
<1>7. m = i
  <2>1. Add(m, d) = Add(i, d)
    BY <1>1, <1>6
  <2> QED
    BY <2>1, <1>1, <1>2, <1>3, AddCases, RingSize DEF Pos
<1> QED
  BY <1>2, <1>7 DEF d

\* Less than a lap apart, the distance of two positions is that of the indices.
LEMMA AtDist ==
  ASSUME NEW p \in Int, NEW q \in Int, NEW i, NEW j, At(p, i), At(q, j),
         p <= q, q <= p + N - 1
  PROVE  Dist(i, j) = q - p
<1> DEFINE d == Dist(i, j)
<1>1. i \in Pos /\ j \in Pos /\ d \in Pos
  BY DistPos DEF At
<1>2. At(q - d, i)
  BY <1>1, AtBack
<1> HIDE DEF d
<1>3. d \in Int /\ 0 <= d /\ d <= N - 1 /\ N \in Int
  BY <1>1, RingSize DEF Pos
<1>4. q - d \in Int /\ p <= (q - d) + N - 1 /\ q - d <= p + N - 1
  BY <1>3
<1>5. p = q - d
  BY <1>2, <1>4, AtUnique
<1>6. d = q - p
  BY <1>3, <1>5
<1> QED
  BY <1>6 DEF d
=============================================================================
