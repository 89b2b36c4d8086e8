----------------------------- MODULE ModLemmas ------------------------------
(***************************************************************************)
(* Division with remainder, which both kinds of ring use to map an index   *)
(* that runs freely to a slot.                                             *)
(***************************************************************************)
EXTENDS Integers, TLAPS

\* Division with remainder, the meaning of the mask.
LEMMA DivMod ==
  ASSUME NEW C \in Nat \ {0}, NEW i \in Int
  PROVE  /\ (i % C) \in 0..(C - 1)
         /\ (i \div C) \in Int
         /\ i = C * (i \div C) + (i % C)
  OBVIOUS

\* No multiple of C lies strictly between 0 and C.
LEMMA NoMultipleBetween ==
  ASSUME NEW C \in Nat \ {0}, NEW d \in Int
  PROVE  ~(0 < C * d /\ C * d < C)
<1>1. CASE d >= 1
  BY <1>1
<1>2. CASE d <= 0
  BY <1>2
<1> QED
  BY <1>1, <1>2

LEMMA Distribute ==
  ASSUME NEW C \in Int, NEW q \in Int, NEW r \in Int
  PROVE  C * (r - q) = C * r - C * q
  OBVIOUS

\* Numbers a multiple of C apart have the same remainder.
LEMMA SameRemainder ==
  ASSUME NEW C \in Nat \ {0}, NEW i \in Int, NEW j \in Int, NEW q \in Int,
         i = j + C * q
  PROVE  i % C = j % C
<1>1. PICK a \in Int : i = C * a + (i % C)
  BY DivMod
<1>2. PICK b \in Int : j = C * b + (j % C)
  BY DivMod
<1>3. (i % C) \in 0..(C - 1) /\ (j % C) \in 0..(C - 1)
  BY DivMod
<1> DEFINE m == C * (b + q - a)
           ca == C * a
           cb == C * b
           cq == C * q
           ri == i % C
           rj == j % C
<1>4. /\ m \in Int /\ ca \in Int /\ cb \in Int /\ cq \in Int
      /\ m = cb + cq - ca
      /\ C * (a - b - q) = -m
  OBVIOUS
<1>5. i = ca + ri /\ j = cb + rj /\ i = j + cq
  BY <1>1, <1>2
<1>6. ~(0 < m /\ m < C) /\ ~(0 < -m /\ -m < C)
  <2>1. b + q - a \in Int /\ a - b - q \in Int
    OBVIOUS
  <2> QED
    BY <1>4, <2>1, NoMultipleBetween
<1>7. ri \in 0..(C - 1) /\ rj \in 0..(C - 1)
  BY <1>3
<1> HIDE DEF m, ca, cb, cq, ri, rj
<1>8. ri = rj
  BY <1>4, <1>5, <1>6, <1>7
<1> QED
  BY <1>8 DEF ri, rj

\* A number below C is its own remainder.
LEMMA SmallRemainder ==
  ASSUME NEW C \in Nat \ {0}, NEW k \in 0..(C - 1)
  PROVE  k % C = k
<1>0. k \in Int
  OBVIOUS
<1>1. PICK q \in Int : k = C * q + (k % C)
  BY <1>0, DivMod
<1> DEFINE m == C * q
<1>2. (k % C) \in 0..(C - 1) /\ m \in Int /\ C * (0 - q) = -m
  BY <1>0, DivMod
<1>3. ~(0 < m /\ m < C) /\ ~(0 < -m /\ -m < C)
  <2>1. 0 - q \in Int
    OBVIOUS
  <2> QED
    BY <1>2, <2>1, NoMultipleBetween
<1>4. k = m + (k % C)
  BY <1>1
<1> HIDE DEF m
<1> QED
  BY <1>2, <1>3, <1>4

\* Two numbers less than C apart have different remainders.
LEMMA RemaindersDiffer ==
  ASSUME NEW C \in Nat \ {0}, NEW i \in Int, NEW j \in Int, i < j, j < i + C
  PROVE  i % C # j % C
<1> SUFFICES ASSUME i % C = j % C
             PROVE  FALSE
  OBVIOUS
<1>1. PICK q \in Int : i = C * q + (i % C)
  BY DivMod
<1>2. PICK r \in Int : j = C * r + (j % C)
  BY DivMod
<1>3. (i % C) \in Int /\ (j % C) \in Int
  BY DivMod
<1>4. C * q \in Int /\ C * r \in Int
  OBVIOUS
<1>5. C * r - C * q = j - i
  BY <1>1, <1>2, <1>3, <1>4
<1>6. C * (r - q) = j - i
  BY <1>5, Distribute
<1>7. 0 < C * (r - q) /\ C * (r - q) < C
  BY <1>6
<1> QED
  BY <1>7, NoMultipleBetween

\* The mask of an index that wraps at a multiple of C is the mask of the index
\* without the wrap.
LEMMA RemainderOfWrapped ==
  ASSUME NEW C \in Nat \ {0}, NEW W \in Nat \ {0}, W % C = 0, NEW i \in Int
  PROVE  (i % W) % C = i % C
<1>1. PICK m \in Int : W = C * m
  <2>1. W \in Int /\ W = C * (W \div C) + (W % C) /\ (W \div C) \in Int
    BY DivMod
  <2>2. C * (W \div C) \in Int
    BY <2>1
  <2> QED
    BY <2>1, <2>2
<1>2. PICK q \in Int : i = W * q + (i % W)
  BY DivMod
<1>3. (i % W) \in Int
  BY DivMod
<1> DEFINE z == m * q
           wq == W * q
           cz == C * z
<1>4. z \in Int /\ wq \in Int /\ cz \in Int /\ wq = cz
  BY <1>1
<1>5. i = wq + (i % W)
  BY <1>2
<1> HIDE DEF z, wq, cz
<1>6. i = (i % W) + cz
  BY <1>3, <1>4, <1>5
<1>7. i = (i % W) + C * z
  BY <1>6 DEF cz
<1> DEFINE j == i % W
<1>8. j \in Int /\ i = j + C * z
  BY <1>3, <1>7
<1> HIDE DEF j
<1>9. i % C = j % C
  BY <1>4, <1>8, SameRemainder, Zenon
<1> QED
  BY <1>9 DEF j
=============================================================================
