-------------------------- MODULE RingBufferProofs --------------------------
(***************************************************************************)
(* Proofs about RingBuffer, for every capacity N, every width of the index *)
(* and every number of threads.  The lemmas on indices are about the pair  *)
(* w, r of a write and a read index, so that they serve a state and its    *)
(* successor alike.                                                        *)
(***************************************************************************)
EXTENDS RingBuffer, ModLemmas, SequenceTheorems

-----------------------------------------------------------------------------
(* The inductive invariant behind TypeOK, QueriesAgree, BurstAtomic and    *)
(* the refinement.                                                         *)

Elements == Values \cup {Unset}

\* The write index is never a lap or more ahead of the read index.
Distance == (write_index - read_index) % IndexMod \in 0..(N - 1)

\* The mutex is held by the one thread that is inside a call.
Mutex == \A t \in Threads : lock = t <=> pc[t] # "idle"

Locals ==
  /\ data \in [Threads -> Seq(Elements)]
  /\ before \in [Threads -> Seq(Elements)]
  /\ \A t \in Threads : pc[t] = "idle" => data[t] = << >>

\* A call stays within what it found: a peek within the queue, a write that may
\* not overwrite within the free slots.  Only a peek is clamped to the queue.
Clamped ==
  \A t \in Threads :
    /\ pc[t] = "peek" => count[t] <= GetOccupiedSize
    /\ pc[t] = "peek" => count[t] = IF asked[t] < GetOccupiedSize THEN asked[t]
                                    ELSE GetOccupiedSize
    /\ pc[t] \in {"read", "write"} => count[t] = asked[t]
    /\ pc[t] = "write" => data[t] \in Seq(Values)
    /\ pc[t] = "write" /\ ~enable_overwrite => Len(before[t]) + Len(data[t]) <= N - 1

IInv ==
  /\ TypeOK
  /\ Distance
  /\ Mutex
  /\ Locals
  /\ Clamped
  /\ BurstAtomic

-----------------------------------------------------------------------------
Index == 0..(IndexMod - 1)

\* The distance of the indices, and what a buffer b holds from r onwards.
Gap(w, r) == (w - r) % IndexMod

\* Queue of a buffer b with the indices w and r.
Held(b, w, r) == [k \in 1..Mask((w - r) % IndexMod) |-> b[Mask((r + k - 1) % IndexMod)]]

\* c is b with the element v in slot x.
Updated(b, c, x, v) == c[x] = v /\ \A y \in 0..(N - 1) : y # x => c[y] = b[y]
View(b, r, d) == [k \in 1..d |-> b[(r + k - 1) % N]]

-----------------------------------------------------------------------------
(* Indices.                                                                *)

\* The sizes, without the power of two.
LEMMA Sizes ==
  /\ N \in Nat \ {0} /\ IndexMod \in Nat \ {0} /\ IndexMod \in Int
  /\ IndexMod % N = 0 /\ IndexMod > N
<1>1. N \in Nat \ {0} /\ IndexMod \in Nat /\ IndexMod % N = 0 /\ IndexMod > N
  BY NAssumption, Zenon
<1> QED
  BY <1>1

\* An index at most one lap outside its range comes back by that lap.
LEMMA WrapOnce ==
  ASSUME NEW i \in Int, -IndexMod <= i, i < 2 * IndexMod
  PROVE  i % IndexMod = IF i < 0 THEN i + IndexMod
                        ELSE IF i < IndexMod THEN i ELSE i - IndexMod
<1>0. IndexMod \in Nat \ {0} /\ IndexMod \in Int
  BY Sizes
<1> DEFINE j == IF i < 0 THEN i + IndexMod
                ELSE IF i < IndexMod THEN i ELSE i - IndexMod
<1>1. j \in Index /\ j \in Int
  BY <1>0 DEF Index
<1>2. j % IndexMod = j
  BY <1>0, <1>1, SmallRemainder DEF Index
<1>3. \E q \in Int : i = j + IndexMod * q
  <2>1. CASE i < 0
    <3>1. i = j + IndexMod * (-1) /\ -1 \in Int
      BY <1>0, <2>1
    <3> QED
      BY <3>1, Zenon
  <2>2. CASE 0 <= i /\ i < IndexMod
    <3>1. i = j + IndexMod * 0 /\ 0 \in Int
      BY <1>0, <2>2
    <3> QED
      BY <3>1, Zenon
  <2>3. CASE i >= IndexMod
    <3>1. i = j + IndexMod * 1 /\ 1 \in Int
      BY <1>0, <2>3
    <3> QED
      BY <3>1, Zenon
  <2> QED
    BY <1>0, <2>1, <2>2, <2>3
<1>4. PICK q \in Int : i = j + IndexMod * q
  BY <1>3
<1> HIDE DEF j
<1>5. i % IndexMod = j % IndexMod
  BY <1>0, <1>1, <1>4, SameRemainder, Zenon
<1> QED
  BY <1>2, <1>5 DEF j

\* The mask does not see the wrap of the index.
LEMMA MaskOfWrapped ==
  ASSUME NEW i \in Int
  PROVE  Mask(i % IndexMod) = i % N /\ i % N \in 0..(N - 1)
<1>1. N \in Nat \ {0} /\ IndexMod \in Nat \ {0} /\ IndexMod % N = 0
  BY Sizes
<1> QED
  BY <1>1, RemainderOfWrapped, DivMod DEF Mask

\* The write index is the read index advanced by their distance.
LEMMA GapFacts ==
  ASSUME NEW w \in Index, NEW r \in Index
  PROVE  /\ Gap(w, r) \in Index
         /\ Gap(w, r) = IF w < r THEN w - r + IndexMod ELSE w - r
         /\ (r + Gap(w, r)) % IndexMod = w
<1>0. IndexMod \in Nat \ {0} /\ w \in Int /\ r \in Int
  BY Sizes DEF Index
<1>1. w - r \in Int /\ -IndexMod <= w - r /\ w - r < IndexMod
  BY <1>0 DEF Index
<1>2. Gap(w, r) = IF w < r THEN w - r + IndexMod ELSE w - r
  BY <1>0, <1>1, WrapOnce DEF Gap
<1>3. Gap(w, r) \in Index
  BY <1>0, <1>2 DEF Index
<1> DEFINE i == r + Gap(w, r)
<1>4. i \in Int /\ i = IF w < r THEN w + IndexMod ELSE w
  BY <1>0, <1>2
<1> HIDE DEF i
<1>5. i % IndexMod = w
  BY <1>0, <1>4, WrapOnce DEF Index
<1> QED
  BY <1>2, <1>3, <1>5 DEF i

\* Advancing an index.
LEMMA IncFacts ==
  ASSUME NEW i \in Index
  PROVE  /\ Inc(i) \in Index
         /\ Inc(i) = IF i = IndexMod - 1 THEN 0 ELSE i + 1
<1>0. IndexMod \in Nat \ {0} /\ i \in Int /\ i + 1 \in Int
  BY Sizes DEF Index
<1> QED
  BY <1>0, WrapOnce DEF Inc, Index

\* A slot of a read index that has advanced is the next slot.
LEMMA SlotAfterInc ==
  ASSUME NEW r \in Index, NEW k \in Nat
  PROVE  (Inc(r) + k) % N = (r + k + 1) % N
<1>0. IndexMod \in Nat \ {0} /\ r \in Int /\ r + k + 1 \in Int /\ Inc(r) \in Int
  BY Sizes, IncFacts DEF Index
<1>1. N \in Nat \ {0} /\ IndexMod % N = 0 /\ IndexMod \in Int
  BY Sizes
<1>2. PICK m \in Int : IndexMod = N * m
  <2>1. IndexMod = N * (IndexMod \div N) + (IndexMod % N) /\ (IndexMod \div N) \in Int
    BY <1>1, DivMod
  <2>2. N * (IndexMod \div N) \in Int
    BY <1>1, <2>1
  <2> QED
    BY <1>1, <2>1, <2>2
<1> DEFINE a == Inc(r) + k
           b == r + k + 1
<1>3. a \in Int /\ b \in Int
  BY <1>0
<1>4. CASE r = IndexMod - 1
  <2>1. b = a + IndexMod
    BY <1>0, <1>4, IncFacts
  <2>2. b = a + N * m
    BY <1>2, <2>1
  <2> HIDE DEF a, b
  <2>3. b % N = a % N
    BY <1>1, <1>3, <2>2, SameRemainder, Zenon
  <2> QED
    BY <2>3 DEF a, b
<1>5. CASE r # IndexMod - 1
  BY <1>0, <1>5, IncFacts
<1> QED
  BY <1>4, <1>5

\* While the distance is below N the size queries agree, and the queue is the
\* view from the read index.
LEMMA QueueView ==
  ASSUME NEW w \in Index, NEW r \in Index, NEW b, Gap(w, r) \in 0..(N - 1)
  PROVE  /\ Mask(Gap(w, r)) = Gap(w, r)
         /\ r = w <=> Gap(w, r) = 0
         /\ Mask(Inc(w)) = Mask(r) <=> Gap(w, r) = N - 1
         /\ Mask(w) = (r + Gap(w, r)) % N
         /\ Held(b, w, r) = View(b, r, Gap(w, r))
<1>0. /\ N \in Nat \ {0} /\ IndexMod \in Nat \ {0}
      /\ w \in Int /\ r \in Int /\ w \in Nat /\ r \in Nat
  BY Sizes DEF Index
<1> DEFINE d == Gap(w, r)
<1>1. d \in Int /\ d \in Nat /\ d \in 0..(N - 1)
  BY <1>0
<1>2. Mask(d) = d
  BY <1>0, <1>1, SmallRemainder DEF Mask
<1>3. r = w <=> d = 0
  <2>1. d = IF w < r THEN w - r + IndexMod ELSE w - r
    BY GapFacts
  <2> QED
    BY <1>0, <2>1 DEF Index
<1>4. Mask(w) = (r + d) % N
  <2>1. r + d \in Int
    BY <1>0, <1>1
  <2> QED
    BY <2>1, GapFacts, MaskOfWrapped
<1>5. Mask(Inc(w)) = Mask(r) <=> d = N - 1
  <2>1. Mask(Inc(w)) = (w + 1) % N
    <3>1. w + 1 \in Int
      BY <1>0
    <3> QED
      BY <3>1, MaskOfWrapped DEF Inc
  <2>2. (w + 1) % N = (r + d + 1) % N
    <3>1. \A i \in Int, j \in Int : i % N = j % N => (i + 1) % N = (j + 1) % N
      <4> TAKE i \in Int, j \in Int
      <4> HAVE i % N = j % N
      <4>1. PICK x \in Int : i = N * x + (i % N)
        BY <1>0, DivMod
      <4>2. PICK y \in Int : j = N * y + (j % N)
        BY <1>0, DivMod
      <4> DEFINE nx == N * x
                 ny == N * y
                 nz == N * (x - y)
                 ri == i % N
      <4>3. ri \in Int /\ nx \in Int /\ ny \in Int /\ nz \in Int /\ nz = nx - ny
        BY <1>0, DivMod
      <4>4. i = nx + ri /\ j = ny + ri
        BY <4>1, <4>2
      <4> HIDE DEF nx, ny, nz, ri
      <4>5. i + 1 = (j + 1) + nz
        BY <4>3, <4>4
      <4> DEFINE z == x - y
                 i1 == i + 1
                 j1 == j + 1
      <4>6. z \in Int /\ i1 \in Int /\ j1 \in Int /\ i1 = j1 + N * z
        BY <4>5 DEF nz
      <4> HIDE DEF z, i1, j1
      <4>7. i1 % N = j1 % N
        BY <1>0, <4>6, SameRemainder, Zenon
      <4> QED
        BY <4>7 DEF i1, j1
    <3> DEFINE e == r + d
    <3>2. e \in Int
      BY <1>0, <1>1
    <3>3. w % N = e % N
      BY <1>4 DEF Mask
    <3> HIDE DEF e
    <3>4. (w + 1) % N = (e + 1) % N
      BY <1>0, <3>1, <3>2, <3>3
    <3> QED
      BY <3>4 DEF e
  <2>3. CASE d = N - 1
    <3>0. r + d + 1 = r + N * 1
      BY <1>0, <2>3
    <3> DEFINE e == r + d + 1
    <3>1. e \in Int /\ e = r + N * 1 /\ 1 \in Int
      BY <1>0, <1>1, <3>0
    <3> HIDE DEF e
    <3>2. e % N = r % N
      BY <1>0, <3>1, SameRemainder, Zenon
    <3> QED
      BY <2>1, <2>2, <2>3, <3>2 DEF e, Mask
  <2>4. CASE d # N - 1
    <3>1. r + d + 1 \in Int /\ r < r + d + 1 /\ r + d + 1 < r + N
      BY <1>0, <1>1, <2>4
    <3>2. r % N # (r + d + 1) % N
      BY <1>0, <3>1, RemaindersDiffer
    <3> QED
      BY <2>1, <2>2, <2>4, <3>2 DEF Mask
  <2> QED
    BY <2>3, <2>4
<1>6. Held(b, w, r) = View(b, r, d)
  <2>1. Mask((w - r) % IndexMod) = d
    BY <1>2 DEF Gap
  <2>2. \A k \in 1..d : Mask((r + k - 1) % IndexMod) = (r + k - 1) % N
    <3> TAKE k \in 1..d
    <3>1. r + k - 1 \in Int
      BY <1>0, <1>1
    <3> QED
      BY <3>1, MaskOfWrapped
  <2> HIDE DEF d
  <2> QED
    BY <2>1, <2>2 DEF Held, View
<1> QED
  BY <1>2, <1>3, <1>4, <1>5, <1>6

-----------------------------------------------------------------------------
(* What the three moves of the indices do to the view.                     *)

\* A view is a sequence of the elements.
LEMMA ViewSeq ==
  ASSUME NEW S, NEW b \in [0..(N - 1) -> S], NEW r \in Int, NEW d \in Nat
  PROVE  View(b, r, d) \in Seq(S) /\ Len(View(b, r, d)) = d
<1>1. \A k \in 1..d : (r + k - 1) % N \in 0..(N - 1)
  <2> TAKE k \in 1..d
  <2>1. r + k - 1 \in Int
    OBVIOUS
  <2> QED
    BY <2>1, Sizes, DivMod
<1>2. View(b, r, d) \in [1..d -> S]
  BY <1>1 DEF View
<1>3. View(b, r, d) \in Seq(S)
  BY <1>2
<1>4. Len(View(b, r, d)) = d
  <2>1. DOMAIN View(b, r, d) = 1..d
    BY DEF View
  <2>2. DOMAIN View(b, r, d) = 1..Len(View(b, r, d)) /\ Len(View(b, r, d)) \in Nat
    BY <1>3
  <2> QED
    BY <2>1, <2>2
<1> QED
  BY <1>3, <1>4

\* Advancing the read index takes the oldest element away.
LEMMA ReadMove ==
  ASSUME NEW w \in Index, NEW r \in Index, Gap(w, r) \in 1..(N - 1)
  PROVE  Gap(w, Inc(r)) = Gap(w, r) - 1
<1>1. Gap(w, r) = IF w < r THEN w - r + IndexMod ELSE w - r
  BY GapFacts
<1>2. Inc(r) \in Index /\ Inc(r) = IF r = IndexMod - 1 THEN 0 ELSE r + 1
  BY IncFacts
<1>3. Gap(w, Inc(r)) = IF w < Inc(r) THEN w - Inc(r) + IndexMod ELSE w - Inc(r)
  BY <1>2, GapFacts
<1> HIDE DEF Gap
<1> QED
  BY <1>1, <1>2, <1>3, Sizes DEF Index

\* Advancing the write index makes room for one element more.
LEMMA WriteMove ==
  ASSUME NEW w \in Index, NEW r \in Index, Gap(w, r) \in 0..(N - 1)
  PROVE  /\ Gap(w, r) + 1 < IndexMod => Gap(Inc(w), r) = Gap(w, r) + 1
         /\ Gap(Inc(w), Inc(r)) = Gap(w, r)
<1>1. Gap(w, r) = IF w < r THEN w - r + IndexMod ELSE w - r
  BY GapFacts
<1>2. Inc(r) \in Index /\ Inc(r) = IF r = IndexMod - 1 THEN 0 ELSE r + 1
  BY IncFacts
<1>3. Inc(w) \in Index /\ Inc(w) = IF w = IndexMod - 1 THEN 0 ELSE w + 1
  BY IncFacts
<1>4. Gap(Inc(w), r) = IF Inc(w) < r THEN Inc(w) - r + IndexMod ELSE Inc(w) - r
  BY <1>3, GapFacts
<1>5. Gap(Inc(w), Inc(r)) = IF Inc(w) < Inc(r) THEN Inc(w) - Inc(r) + IndexMod
                                               ELSE Inc(w) - Inc(r)
  BY <1>2, <1>3, GapFacts
<1> QED
  BY <1>1, <1>2, <1>3, <1>4, <1>5, Sizes DEF Index

\* A read: the view begins one element later.
LEMMA ViewRead ==
  ASSUME NEW S, NEW b \in [0..(N - 1) -> S], NEW r \in Index, NEW d \in Nat, d > 0
  PROVE  /\ View(b, Inc(r), d - 1) = Tail(View(b, r, d))
         /\ Head(View(b, r, d)) = b[Mask(r)]
<1>0. r \in Int /\ d - 1 \in Nat /\ Inc(r) \in Int
  BY IncFacts DEF Index
<1> DEFINE s == View(b, r, d)
           t == View(b, Inc(r), d - 1)
<1>1. s \in Seq(S) /\ Len(s) = d /\ \A k \in 1..d : s[k] = b[(r + k - 1) % N]
  <2>1. s \in Seq(S) /\ Len(s) = d
    BY <1>0, ViewSeq
  <2> QED
    BY <2>1 DEF View
<1>2. /\ t \in Seq(S) /\ Len(t) = d - 1
      /\ \A k \in 1..(d - 1) : t[k] = b[(Inc(r) + k - 1) % N]
  <2>1. t \in Seq(S) /\ Len(t) = d - 1
    BY <1>0, ViewSeq, ZenonT(30)
  <2> QED
    BY <2>1 DEF View
<1>3. \A k \in 1..(d - 1) : t[k] = s[k + 1]
  <2> TAKE k \in 1..(d - 1)
  <2>1. (Inc(r) + (k - 1)) % N = (r + (k - 1) + 1) % N
    <3>1. k - 1 \in Nat
      OBVIOUS
    <3> QED
      BY <3>1, SlotAfterInc
  <2>2. Inc(r) + (k - 1) = Inc(r) + k - 1 /\ r + (k - 1) + 1 = r + (k + 1) - 1
    BY <1>0
  <2>3. k + 1 \in 1..d
    OBVIOUS
  <2> QED
    BY <1>1, <1>2, <2>1, <2>2, <2>3
<1>4. s[1] = b[Mask(r)]
  <2>1. r + 1 - 1 = r /\ 1 \in 1..d
    BY <1>0
  <2> QED
    BY <1>1, <2>1 DEF Mask
<1> HIDE DEF s, t
<1>5. s # << >> /\ Tail(s) \in Seq(S) /\ Len(Tail(s)) = d - 1
      /\ Head(s) = s[1] /\ \A k \in 1..(d - 1) : Tail(s)[k] = s[k + 1]
  BY <1>1
<1>6. t = Tail(s)
  BY <1>2, <1>3, <1>5, SeqEqual
<1> QED
  BY <1>4, <1>5, <1>6 DEF s, t

\* A write into a free slot: the element is appended.
LEMMA ViewAppend ==
  ASSUME NEW S, NEW b \in [0..(N - 1) -> S], NEW r \in Index, NEW d \in 0..(N - 2),
         NEW v \in S, NEW c \in [0..(N - 1) -> S], Updated(b, c, (r + d) % N, v)
  PROVE  View(c, r, d + 1) = Append(View(b, r, d), v)
<1>0. r \in Int /\ d \in Nat /\ d + 1 \in Nat /\ r + d \in Int /\ d < N
  BY Sizes DEF Index
<1>1. (r + d) % N \in 0..(N - 1)
  BY <1>0, Sizes, DivMod
<1> DEFINE s == View(b, r, d)
           t == View(c, r, d + 1)
<1>3. s \in Seq(S) /\ Len(s) = d /\ \A k \in 1..d : s[k] = b[(r + k - 1) % N]
  <2>1. s \in Seq(S) /\ Len(s) = d
    BY <1>0, ViewSeq, ZenonT(30)
  <2> QED
    BY <2>1 DEF View
<1>4. t \in Seq(S) /\ Len(t) = d + 1 /\ \A k \in 1..(d + 1) : t[k] = c[(r + k - 1) % N]
  <2>1. t \in Seq(S) /\ Len(t) = d + 1
    BY <1>0, ViewSeq, SMTT(30)
  <2> QED
    BY <2>1 DEF View
<1>5. \A k \in 1..d : t[k] = s[k]
  <2> TAKE k \in 1..d
  <2>1. /\ r + k - 1 \in Int /\ r + k - 1 < r + d /\ r + d < (r + k - 1) + N
        /\ k \in 1..(d + 1)
    BY <1>0, Sizes
  <2>2. (r + k - 1) % N # (r + d) % N /\ (r + k - 1) % N \in 0..(N - 1)
    BY <1>0, <2>1, Sizes, RemaindersDiffer, DivMod
  <2> QED
    BY <1>3, <1>4, <2>1, <2>2 DEF Updated
<1>6. t[d + 1] = v
  <2>1. r + (d + 1) - 1 = r + d /\ d + 1 \in 1..(d + 1)
    BY <1>0
  <2> QED
    BY <1>4, <2>1 DEF Updated
<1> HIDE DEF s, t
<1>7. Append(s, v) \in Seq(S) /\ Len(Append(s, v)) = d + 1 /\ Append(s, v)[d + 1] = v
      /\ \A k \in 1..d : Append(s, v)[k] = s[k]
  BY <1>3
<1>8. \A k \in 1..(d + 1) : t[k] = Append(s, v)[k]
  BY <1>0, <1>5, <1>6, <1>7
<1>9. t = Append(s, v)
  BY <1>4, <1>7, <1>8, SeqEqual
<1> QED
  BY <1>9 DEF s, t

\* A write into a full buffer: the oldest element gives way to the new one.
LEMMA ViewOverwrite ==
  ASSUME NEW S, NEW b \in [0..(N - 1) -> S], NEW r \in Index, NEW v \in S,
         NEW c \in [0..(N - 1) -> S], Updated(b, c, (r + (N - 1)) % N, v)
  PROVE  View(c, Inc(r), N - 1)
           = IF N = 1 THEN << >> ELSE Append(Tail(View(b, r, N - 1)), v)
<1>0. r \in Int /\ N - 1 \in Nat /\ r + (N - 1) \in Int /\ Inc(r) \in Index /\ Inc(r) \in Int
  BY Sizes, IncFacts DEF Index
<1>1. CASE N = 1
  BY <1>1 DEF View
<1>2. CASE N # 1
  <2>0. N - 2 \in 0..(N - 2) /\ N - 2 \in Nat /\ N - 1 > 0 /\ (N - 1) - 1 = N - 2
        /\ (N - 2) + 1 = N - 1 /\ r + (N - 2) + 1 = r + (N - 1)
    BY <1>0, <1>2, Sizes
  <2>1. (Inc(r) + (N - 2)) % N = (r + (N - 1)) % N
    BY <2>0, SlotAfterInc
  <2>2. View(c, Inc(r), (N - 2) + 1)
          = Append(View(b, Inc(r), N - 2), v)
    <3> DEFINE i == Inc(r)
               d == N - 2
    <3>1. i \in Index /\ d \in 0..(N - 2) /\ Updated(b, c, (i + d) % N, v)
      BY <1>0, <2>0, <2>1
    <3> HIDE DEF i, d
    <3>2. View(c, i, d + 1) = Append(View(b, i, d), v)
      BY <3>1, ViewAppend, SMTT(30)
    <3> QED
      BY <3>2 DEF i, d
  <2>3. View(b, Inc(r), N - 2) = Tail(View(b, r, N - 1))
    BY <1>0, <2>0, ViewRead
  <2> QED
    BY <1>2, <2>0, <2>1, <2>2, <2>3
<1> QED
  BY <1>1, <1>2

-----------------------------------------------------------------------------
(* Sequences.                                                              *)

\* The last K elements.
LEMMA SuffixFacts ==
  ASSUME NEW S, NEW s \in Seq(S), NEW K \in Nat
  PROVE  /\ Suffix(s, K) \in Seq(S)
         /\ Len(Suffix(s, K)) = IF Len(s) <= K THEN Len(s) ELSE K
         /\ \A k \in 1..Len(Suffix(s, K)) :
              Suffix(s, K)[k] = s[k + Len(s) - Len(Suffix(s, K))]
<1>0. Len(s) \in Nat
  OBVIOUS
<1>1. CASE Len(s) <= K
  BY <1>0, <1>1 DEF Suffix
<1>2. CASE Len(s) > K
  <2> DEFINE m == Len(s) - K + 1
             u == SubSeq(s, m, Len(s))
  <2>1. m \in 1..(Len(s) + 1) /\ Len(s) - m + 1 = K
    BY <1>0, <1>2
  <2>2. Suffix(s, K) = u
    BY <1>0, <1>2 DEF Suffix
  <2>3. u \in Seq(S) /\ Len(u) = K
    BY <1>0, <2>1, SubSeqProperties
  <2>4. \A k \in 1..K : u[k] = s[k + Len(s) - K]
    <3> TAKE k \in 1..K
    <3>1. k \in 1..(Len(s) - m + 1) /\ m + k - 1 = k + Len(s) - K
      BY <1>0, <2>1
    <3> QED
      BY <1>0, <2>1, <3>1, SubSeqProperties
  <2> QED
    BY <1>0, <1>2, <2>2, <2>3, <2>4
<1> QED
  BY <1>0, <1>1, <1>2

\* One element more: the last K elements grow, or move on by one.
LEMMA SuffixAppend ==
  ASSUME NEW S, NEW s \in Seq(S), NEW v \in S, NEW K \in Nat
  PROVE  /\ Len(Suffix(s, K)) < K => Suffix(Append(s, v), K) = Append(Suffix(s, K), v)
         /\ Len(Suffix(s, K)) = K =>
              Suffix(Append(s, v), K)
                = IF K = 0 THEN << >> ELSE Append(Tail(Suffix(s, K)), v)
<1> DEFINE a == Append(s, v)
           q == Suffix(s, K)
           u == Suffix(a, K)
<1>0. Len(s) \in Nat
  OBVIOUS
<1>1. /\ a \in Seq(S) /\ Len(a) = Len(s) + 1 /\ a[Len(s) + 1] = v
      /\ \A k \in 1..Len(s) : a[k] = s[k]
  OBVIOUS
<1>2. /\ q \in Seq(S) /\ Len(q) = IF Len(s) <= K THEN Len(s) ELSE K
      /\ \A k \in 1..Len(q) : q[k] = s[k + Len(s) - Len(q)]
  BY SuffixFacts
<1> HIDE DEF a, q
<1>3. /\ u \in Seq(S) /\ Len(u) = IF Len(a) <= K THEN Len(a) ELSE K
      /\ \A k \in 1..Len(u) : u[k] = a[k + Len(a) - Len(u)]
  BY <1>1, SuffixFacts
<1>4. CASE Len(q) < K
  <2>1. Len(s) < K
    BY <1>0, <1>2, <1>4
  <2>2. q = s
    BY <1>0, <2>1 DEF Suffix, q
  <2>3. u = a
    BY <1>0, <1>1, <2>1 DEF Suffix
  <2> QED
    BY <1>4, <2>2, <2>3 DEF a, q
<1>5. CASE Len(q) = K /\ K = 0
  <2>1. Len(u) = 0
    BY <1>0, <1>1, <1>3, <1>5
  <2> HIDE DEF u
  <2>2. u = << >>
    BY <1>3, <2>1
  <2> QED
    BY <1>5, <2>2 DEF a, q, u
<1>6. CASE Len(q) = K /\ K # 0
  <2> DEFINE b == Append(Tail(q), v)
  <2>1. Len(s) >= K /\ Len(u) = K
    BY <1>0, <1>1, <1>2, <1>3, <1>6
  <2>2. /\ Tail(q) \in Seq(S) /\ Len(Tail(q)) = K - 1
        /\ \A k \in 1..(K - 1) : Tail(q)[k] = q[k + 1]
    BY <1>2, <1>6
  <2>3. /\ b \in Seq(S) /\ Len(b) = K /\ b[K] = v
        /\ \A k \in 1..(K - 1) : b[k] = q[k + 1]
    BY <2>2
  <2> HIDE DEF b, u
  <2>4. \A k \in 1..K : u[k] = b[k]
    <3> TAKE k \in 1..K
    <3>1. u[k] = a[k + (Len(s) + 1) - K]
      BY <1>1, <1>3, <2>1
    <3>2. CASE k = K
      <4>1. k + (Len(s) + 1) - K = Len(s) + 1
        BY <1>0, <3>2
      <4> QED
        BY <1>1, <2>3, <3>1, <3>2, <4>1
    <3>3. CASE k # K
      <4>1. k \in 1..(K - 1) /\ k + 1 \in 1..K
            /\ k + (Len(s) + 1) - K \in 1..Len(s)
            /\ k + (Len(s) + 1) - K = (k + 1) + Len(s) - K
        BY <1>0, <2>1, <3>3
      <4>2. q[k + 1] = s[(k + 1) + Len(s) - K]
        BY <1>2, <1>6, <4>1
      <4> QED
        BY <1>1, <2>3, <3>1, <4>1, <4>2
    <3> QED
      BY <3>2, <3>3
  <2>5. u = b
    BY <1>3, <2>1, <2>3, <2>4, SeqEqual
  <2> QED
    BY <1>6, <2>5 DEF a, q, u, b
<1>7. Len(q) \in Nat /\ Len(q) <= K
  BY <1>0, <1>2
<1> QED
  BY <1>4, <1>5, <1>6, <1>7 DEF q

\* Appending after a concatenation.
LEMMA ConcatAppend ==
  ASSUME NEW S, NEW s \in Seq(S), NEW q \in Seq(S), NEW v \in S
  PROVE  s \o Append(q, v) = Append(s \o q, v)
<1>1. Append(q, v) = q \o <<v>> /\ <<v>> \in Seq(S)
  BY AppendIsConcat
<1>2. s \o q \in Seq(S)
  BY ConcatProperties
<1>3. Append(s \o q, v) = (s \o q) \o <<v>>
  BY <1>2, AppendIsConcat
<1> QED
  BY <1>1, <1>3, ConcatAssociative

\* Moving the head of one sequence to the end of another.
LEMMA MoveHead ==
  ASSUME NEW S, NEW s \in Seq(S), NEW q \in Seq(S), q # << >>
  PROVE  Append(s, Head(q)) \o Tail(q) = s \o q
<1>1. /\ Len(q) \in Nat /\ Len(q) > 0 /\ Len(s) \in Nat
      /\ Head(q) = q[1] /\ Head(q) \in S
      /\ Tail(q) \in Seq(S) /\ Len(Tail(q)) = Len(q) - 1
      /\ \A k \in 1..(Len(q) - 1) : Tail(q)[k] = q[k + 1]
  OBVIOUS
<1> DEFINE a == Append(s, Head(q))
           t == Tail(q)
           x == a \o t
           y == s \o q
<1>2. /\ a \in Seq(S) /\ Len(a) = Len(s) + 1 /\ a[Len(s) + 1] = q[1]
      /\ \A k \in 1..Len(s) : a[k] = s[k]
  BY <1>1
<1>3. /\ t \in Seq(S) /\ Len(t) = Len(q) - 1
      /\ \A k \in 1..(Len(q) - 1) : t[k] = q[k + 1]
  BY <1>1
<1> HIDE DEF a, t
<1>4. /\ x \in Seq(S) /\ Len(x) = Len(s) + Len(q)
      /\ \A k \in 1..Len(a) : x[k] = a[k]
      /\ \A k \in (Len(a) + 1)..(Len(a) + Len(t)) : x[k] = t[k - Len(a)]
  <2>1. Len(a) + Len(t) = Len(s) + Len(q)
    BY <1>1, <1>2, <1>3
  <2>2. a \in Seq(S) /\ t \in Seq(S)
    BY <1>2, <1>3
  <2> QED
    BY <2>1, <2>2, ConcatProperties
<1>5. /\ y \in Seq(S) /\ Len(y) = Len(s) + Len(q)
      /\ \A k \in 1..Len(s) : y[k] = s[k]
      /\ \A k \in (Len(s) + 1)..(Len(s) + Len(q)) : y[k] = q[k - Len(s)]
  BY <1>1
<1> HIDE DEF x, y
<1>6. \A k \in 1..(Len(s) + Len(q)) : x[k] = y[k]
  <2> TAKE k \in 1..(Len(s) + Len(q))
  <2>1. CASE k \in 1..Len(s)
    BY <1>1, <1>2, <1>4, <1>5, <2>1
  <2>2. CASE k = Len(s) + 1
    <3>1. k \in 1..Len(a) /\ k - Len(s) = 1 /\ k \in (Len(s) + 1)..(Len(s) + Len(q))
      BY <1>1, <1>2, <2>2
    <3> QED
      BY <1>2, <1>4, <1>5, <2>2, <3>1
  <2>3. CASE k > Len(s) + 1
    <3>1. /\ k \in (Len(a) + 1)..(Len(a) + Len(t)) /\ k - Len(a) \in 1..(Len(q) - 1)
          /\ (k - Len(a)) + 1 = k - Len(s) /\ k \in (Len(s) + 1)..(Len(s) + Len(q))
      BY <1>1, <1>2, <1>3, <2>3
    <3> QED
      BY <1>3, <1>4, <1>5, <3>1, ZenonT(30)
  <2> QED
    BY <1>1, <2>1, <2>2, <2>3
<1>7. x = y
  BY <1>4, <1>5, <1>6, SeqEqual
<1> QED
  BY <1>7 DEF a, t, x, y

-----------------------------------------------------------------------------
(* The state, by the distance of its indices.                              *)

\* The size queries and the queue of a state whose distance is below N.
LEMMA StateFacts ==
  ASSUME IInv
  PROVE  /\ write_index \in Index /\ read_index \in Index
         /\ Gap(write_index, read_index) \in 0..(N - 1)
         /\ Gap(write_index, read_index) \in Nat
         /\ GetOccupiedSize = Gap(write_index, read_index)
         /\ IsEmpty <=> Gap(write_index, read_index) = 0
         /\ IsFull <=> Gap(write_index, read_index) = N - 1
         /\ Mask(write_index) = (read_index + Gap(write_index, read_index)) % N
         /\ Queue = View(buffer, read_index, Gap(write_index, read_index))
         /\ Queue \in Seq(Elements) /\ Len(Queue) = Gap(write_index, read_index)
<1>1. write_index \in Index /\ read_index \in Index
      /\ buffer \in [0..(N - 1) -> Elements]
  BY DEF IInv, TypeOK, Index, Elements
<1>2. Gap(write_index, read_index) \in 0..(N - 1)
  BY DEF IInv, Distance, Gap
<1>3. Gap(write_index, read_index) \in Nat /\ read_index \in Int
  BY <1>1, <1>2, Sizes DEF Index
<1>4. /\ Mask(Gap(write_index, read_index)) = Gap(write_index, read_index)
      /\ read_index = write_index <=> Gap(write_index, read_index) = 0
      /\ Mask(Inc(write_index)) = Mask(read_index) <=> Gap(write_index, read_index) = N - 1
      /\ Mask(write_index) = (read_index + Gap(write_index, read_index)) % N
  BY <1>1, <1>2, QueueView
<1>5. Queue = View(buffer, read_index, Gap(write_index, read_index))
  <2>1. Queue = Held(buffer, write_index, read_index)
    BY DEF Queue, GetOccupiedSize, Held
  <2> QED
    BY <1>1, <1>2, <2>1, QueueView
<1>6. Queue \in Seq(Elements) /\ Len(Queue) = Gap(write_index, read_index)
  BY <1>1, <1>3, <1>5, ViewSeq, SMTT(30)
<1>7. GetOccupiedSize = Gap(write_index, read_index)
  BY <1>4 DEF GetOccupiedSize, Gap
<1> QED
  BY <1>1, <1>2, <1>3, <1>4, <1>5, <1>6, <1>7 DEF IsEmpty, IsFull

\* The queue of the next state.
LEMMA NextQueue ==
  ASSUME write_index' \in Index, read_index' \in Index,
         Gap(write_index', read_index') \in 0..(N - 1)
  PROVE  /\ Queue' = View(buffer', read_index', Gap(write_index', read_index'))
         /\ GetOccupiedSize' = Gap(write_index', read_index')
         /\ Distance'
<1>1. Queue' = View(buffer', read_index', Gap(write_index', read_index'))
  <2>1. Queue' = Held(buffer', write_index', read_index')
    BY DEF Queue, GetOccupiedSize, Held, Mask
  <2> QED
    BY <2>1, QueueView
<1>2. GetOccupiedSize' = Gap(write_index', read_index')
  BY QueueView DEF GetOccupiedSize, Gap, Mask
<1> QED
  BY <1>1, <1>2 DEF Distance, Gap

\* While one thread is inside a call, all others are outside.
LEMMA Alone ==
  ASSUME IInv, NEW t \in Threads, pc[t] # "idle"
  PROVE  lock = t /\ \A u \in Threads : u # t => pc[u] = "idle"
  BY DEF IInv, Mutex

\* While the mutex is free, every thread is outside.
LEMMA AllIdle ==
  ASSUME IInv, lock = NoThread
  PROVE  \A u \in Threads : pc[u] = "idle" /\ data[u] = << >>
  BY BufferAssumption DEF IInv, Mutex, Locals

\* The unchanged members keep the queue.
LEMMA SameQueue ==
  ASSUME UNCHANGED members
  PROVE  /\ Queue' = Queue /\ GetOccupiedSize' = GetOccupiedSize
         /\ Distance <=> Distance'
  BY DEF members, Queue, GetOccupiedSize, Mask, Distance

\* The initial state.
LEMMA InitInv == Init => IInv
<1> SUFFICES ASSUME Init
             PROVE  IInv
  OBVIOUS
<1>1. 0 \in Index /\ Gap(0, 0) = 0 /\ 0 \in 0..(N - 1)
  <2>1. 0 \in Index /\ 0 \in 0..(N - 1)
    BY Sizes DEF Index
  <2> QED
    BY <2>1, GapFacts
<1>2. TypeOK
  <2>1. \A t \in Threads : Len(data[t]) <= count[t]
    BY DEF Init
  <2>2. 0 \in 0..MaxBurst
    BY BufferAssumption
  <2> QED
    BY <1>1, <2>1, <2>2 DEF Init, TypeOK, Index
<1>3. Distance
  BY <1>1 DEF Init, Distance, Gap
<1>4. Mutex /\ Locals /\ Clamped /\ BurstAtomic
  BY BufferAssumption DEF Init, Mutex, Locals, Clamped, BurstAtomic
<1> QED
  BY <1>2, <1>3, <1>4 DEF IInv

-----------------------------------------------------------------------------
(* One lemma per kind of step.                                             *)

\* A thread takes the mutex: every other thread is outside, and the queue it
\* finds is the one it remembers.
LEMMA AcquireInv ==
  ASSUME IInv, NEW t \in Threads, NEW call \in {"read", "peek", "write"},
         NEW a \in 0..MaxBurst, NEW n \in 0..MaxBurst,
         call = "peek" => n <= GetOccupiedSize,
         n = IF call # "peek" \/ a < GetOccupiedSize THEN a ELSE GetOccupiedSize,
         Acquire(t, call, a, n)
  PROVE  IInv'
<1>0. TypeOK /\ Distance /\ Mutex /\ Locals /\ Clamped /\ BurstAtomic
  BY DEF IInv
<1>1. /\ pc' = [pc EXCEPT ![t] = call] /\ count' = [count EXCEPT ![t] = n]
      /\ asked' = [asked EXCEPT ![t] = a]
      /\ before' = [before EXCEPT ![t] = Queue] /\ data' = data
      /\ lock = NoThread /\ lock' = t /\ UNCHANGED members
  BY DEF Acquire
<1>2. \A u \in Threads : pc[u] = "idle" /\ data[u] = << >>
  BY <1>1, AllIdle
<1>3. /\ pc \in [Threads -> {"idle", "read", "peek", "write"}]
      /\ count \in [Threads -> 0..MaxBurst] /\ asked \in [Threads -> 0..MaxBurst]
      /\ before \in [Threads -> Seq(Elements)] /\ data \in [Threads -> Seq(Elements)]
  BY <1>0 DEF TypeOK, Locals
<1>4. /\ pc'[t] = call /\ count'[t] = n /\ asked'[t] = a /\ before'[t] = Queue
      /\ \A u \in Threads : u # t => pc'[u] = "idle" /\ count'[u] = count[u]
  BY <1>1, <1>2, <1>3
<1>5. Queue' = Queue /\ GetOccupiedSize' = GetOccupiedSize /\ Distance'
  BY <1>0, <1>1, SameQueue
<1>6. Queue \in Seq(Elements) /\ Len(Queue) = GetOccupiedSize
      /\ Len(Queue) \in Nat /\ Len(Queue) <= N - 1
  BY StateFacts, Sizes
<1>7. TypeOK'
  <2>1. \A u \in Threads : Len(data'[u]) <= count'[u]
    BY <1>0, <1>1, <1>2, <1>4 DEF TypeOK
  <2>2. pc' \in [Threads -> {"idle", "read", "peek", "write"}]
        /\ count' \in [Threads -> 0..MaxBurst] /\ asked' \in [Threads -> 0..MaxBurst]
    BY <1>1, <1>3
  <2> QED
    BY <1>0, <1>1, <2>1, <2>2 DEF TypeOK, members
<1>8. Mutex'
  BY <1>1, <1>4 DEF Mutex
<1>9. Locals'
  BY <1>1, <1>2, <1>3, <1>6 DEF Locals
<1>10. Clamped'
  <2>1. \A u \in Threads : data'[u] = << >>
    BY <1>1, <1>2
  <2>2. << >> \in Seq(Values) /\ Len(<< >>) = 0
    OBVIOUS
  <2>3. \A u \in Threads :
          /\ pc'[u] = "peek" => count'[u] <= GetOccupiedSize'
          /\ pc'[u] = "peek" => count'[u] = IF asked'[u] < GetOccupiedSize'
                                            THEN asked'[u] ELSE GetOccupiedSize'
          /\ pc'[u] \in {"read", "write"} => count'[u] = asked'[u]
    <3> SUFFICES ASSUME NEW u \in Threads, pc'[u] # "idle"
                 PROVE  /\ call = "peek" => n <= GetOccupiedSize
                        /\ call = "peek" => n = IF a < GetOccupiedSize THEN a
                                                ELSE GetOccupiedSize
                        /\ call \in {"read", "write"} => n = a
      BY <1>4, <1>5
    <3> QED
      OBVIOUS
  <2>4. \A u \in Threads : pc'[u] = "write" =>
          Len(before'[u]) + Len(data'[u]) <= N - 1
    <3> SUFFICES ASSUME NEW u \in Threads, pc'[u] = "write"
                 PROVE  Len(before'[u]) + Len(data'[u]) <= N - 1
      OBVIOUS
    <3>1. before'[u] = Queue /\ Len(data'[u]) = 0
      BY <1>4, <2>1, <2>2
    <3> QED
      BY <1>6, <3>1, Sizes
  <2>5. \A u \in Threads : data'[u] \in Seq(Values)
    BY <2>1, <2>2
  <2> QED
    BY <2>3, <2>4, <2>5, Zenon DEF Clamped
<1>11. BurstAtomic'
  <2> SUFFICES ASSUME NEW u \in Threads, pc'[u] # "idle"
               PROVE  /\ pc'[u] = "read" => data'[u] \o Queue' = before'[u]
                      /\ pc'[u] = "peek" => Queue' = before'[u]
                           /\ data'[u] = SubSeq(Queue', 1, Len(data'[u]))
                      /\ pc'[u] = "write" => Queue' = Suffix(before'[u] \o data'[u], N - 1)
    BY DEF BurstAtomic, Suffix
  <2>1. before'[u] = Queue /\ Queue' = Queue /\ data'[u] = << >>
    BY <1>1, <1>2, <1>4, <1>5
  <2>2. Len(<< >>) = 0 /\ SubSeq(Queue, 1, 0) = << >>
    BY <1>6, SubSeqEmpty
  <2>3. << >> \o Queue = Queue /\ Queue \o << >> = Queue
    BY <1>6, ConcatEmptySeq
  <2>4. Suffix(Queue, N - 1) = Queue
    BY <1>6 DEF Suffix
  <2> QED
    BY <2>1, <2>2, <2>3, <2>4
<1> QED
  BY <1>5, <1>7, <1>8, <1>9, <1>10, <1>11 DEF IInv

\* A return leaves every thread outside.
LEMMA ReturnInv ==
  ASSUME IInv, NEW t \in Threads, pc[t] # "idle", Return(t)
  PROVE  IInv'
<1>0. TypeOK /\ Distance /\ Mutex /\ Locals /\ Clamped /\ BurstAtomic
  BY DEF IInv
<1>1. /\ pc' = [pc EXCEPT ![t] = "idle"] /\ count' = [count EXCEPT ![t] = 0]
      /\ asked' = [asked EXCEPT ![t] = 0]
      /\ before' = [before EXCEPT ![t] = << >>] /\ data' = [data EXCEPT ![t] = << >>]
      /\ lock' = NoThread /\ UNCHANGED members
  BY DEF Return
<1>2. \A u \in Threads : u # t => pc[u] = "idle"
  BY Alone
<1>3. /\ pc \in [Threads -> {"idle", "read", "peek", "write"}]
      /\ count \in [Threads -> 0..MaxBurst] /\ asked \in [Threads -> 0..MaxBurst]
      /\ before \in [Threads -> Seq(Elements)] /\ data \in [Threads -> Seq(Elements)]
  BY <1>0 DEF TypeOK, Locals
<1>4. \A u \in Threads : pc'[u] = "idle" /\ data'[u] = << >>
  BY <1>0, <1>1, <1>2, <1>3 DEF Locals
<1>5. TypeOK'
  <2>1. \A u \in Threads : Len(data'[u]) <= count'[u]
    BY <1>0, <1>1, <1>3 DEF TypeOK
  <2>2. 0 \in 0..MaxBurst
    BY BufferAssumption
  <2>3. pc' \in [Threads -> {"idle", "read", "peek", "write"}]
        /\ count' \in [Threads -> 0..MaxBurst] /\ asked' \in [Threads -> 0..MaxBurst]
    BY <1>1, <1>3, <2>2
  <2> QED
    BY <1>0, <1>1, <2>1, <2>3 DEF TypeOK, members
<1>6. Distance'
  BY <1>0, <1>1, SameQueue
<1>7. Mutex' /\ Clamped' /\ BurstAtomic'
  BY <1>1, <1>4, BufferAssumption DEF Mutex, Clamped, BurstAtomic
<1>8. Locals'
  <2>1. before' \in [Threads -> Seq(Elements)] /\ data' \in [Threads -> Seq(Elements)]
    BY <1>1, <1>3
  <2> QED
    BY <1>4, <2>1 DEF Locals
<1> QED
  BY <1>5, <1>6, <1>7, <1>8 DEF IInv

\* PeekAt only returns an element.
LEMMA PeekAtInv ==
  ASSUME IInv, NEW n \in 0..MaxBurst, PeekAt(n)
  PROVE  IInv'
<1>0. TypeOK /\ Distance /\ Mutex /\ Locals /\ Clamped /\ BurstAtomic
  BY DEF IInv
<1>1. UNCHANGED <<members, callers>>
  BY DEF PeekAt
<1>2. Queue' = Queue /\ GetOccupiedSize' = GetOccupiedSize /\ Distance'
  BY <1>0, <1>1, SameQueue
<1>3. TypeOK' /\ Mutex' /\ Locals' /\ Clamped'
  BY <1>0, <1>1, <1>2 DEF members, callers, TypeOK, Mutex, Locals, Clamped
<1>4. BurstAtomic'
  BY <1>0, <1>1, <1>2 DEF members, callers, BurstAtomic, Suffix
<1> QED
  BY <1>2, <1>3, <1>4 DEF IInv

\* Reset empties the queue while no thread is inside a call.
LEMMA ResetInv ==
  ASSUME IInv, Reset
  PROVE  IInv'
<1>0. TypeOK /\ Distance /\ Mutex /\ Locals /\ Clamped /\ BurstAtomic
  BY DEF IInv
<1>1. 0 \in Index /\ Gap(0, 0) = 0 /\ 0 \in 0..(N - 1)
  <2>1. 0 \in Index /\ 0 \in 0..(N - 1)
    BY Sizes DEF Index
  <2> QED
    BY <2>1, GapFacts
<1>2. write_index' = 0 /\ read_index' = 0 /\ UNCHANGED <<enable_overwrite, buffer, callers>>
  BY DEF Reset
<1>3. Distance'
  BY <1>1, <1>2 DEF Distance, Gap
<1>4. \A u \in Threads : pc[u] = "idle" /\ data[u] = << >>
  BY AllIdle DEF Reset
<1>5. TypeOK' /\ Mutex' /\ Locals' /\ Clamped' /\ BurstAtomic'
  BY <1>0, <1>1, <1>2, <1>4
     DEF callers, Index, TypeOK, Mutex, Locals, Clamped, BurstAtomic
<1> QED
  BY <1>3, <1>5 DEF IInv

\* A thread copies one element: what is left to show is about that thread.
LEMMA CopyInv ==
  ASSUME IInv, NEW t \in Threads, pc[t] # "idle", ~Done(t), NEW v \in Elements,
         Copy(t, v), UNCHANGED <<enable_overwrite, lock, pc, asked, count, before>>,
         write_index' \in Index, read_index' \in Index,
         buffer' \in [0..(N - 1) -> Elements],
         Gap(write_index', read_index') \in 0..(N - 1)
  PROVE  /\ data'[t] = Append(data[t], v) /\ Len(data'[t]) = Len(data[t]) + 1
         /\ data[t] \in Seq(Elements) /\ before[t] \in Seq(Elements)
         /\ Len(data[t]) \in Nat /\ Len(data[t]) < count[t]
         /\ \/ pc[t] = "read" /\ data'[t] \o Queue' = before[t]
            \/ /\ pc[t] = "peek" /\ GetOccupiedSize' = GetOccupiedSize
               /\ Queue' = before[t] /\ data'[t] = SubSeq(Queue', 1, Len(data'[t]))
            \/ /\ pc[t] = "write" /\ data'[t] \in Seq(Values)
               /\ ~enable_overwrite => Len(before[t]) + Len(data'[t]) <= N - 1
               /\ Queue' = Suffix(before[t] \o data'[t], N - 1)
            => IInv'
<1>0. TypeOK /\ Distance /\ Mutex /\ Locals /\ Clamped /\ BurstAtomic
  BY DEF IInv
<1>1. /\ data \in [Threads -> Seq(Elements)] /\ before \in [Threads -> Seq(Elements)]
      /\ count \in [Threads -> 0..MaxBurst]
      /\ data[t] \in Seq(Elements) /\ before[t] \in Seq(Elements)
  BY <1>0 DEF Locals, TypeOK
<1>2. data' = [data EXCEPT ![t] = Append(data[t], v)]
  BY DEF Copy
<1>3. data'[t] = Append(data[t], v) /\ \A u \in Threads : u # t => data'[u] = data[u]
  BY <1>1, <1>2
<1>4. Append(data[t], v) \in Seq(Elements) /\ Len(Append(data[t], v)) = Len(data[t]) + 1
      /\ Len(data[t]) \in Nat
  BY <1>1
<1>5. Len(data[t]) < count[t]
  <2>1. Len(data[t]) <= count[t] /\ Len(data[t]) # count[t]
    BY <1>0 DEF TypeOK, Done
  <2>2. count[t] \in Int
    BY <1>1, BufferAssumption
  <2> QED
    BY <1>4, <2>1, <2>2
<1>6. \A u \in Threads : u # t => pc'[u] = "idle"
  BY Alone
<1>7. SUFFICES ASSUME \/ pc[t] = "read" /\ data'[t] \o Queue' = before[t]
                      \/ /\ pc[t] = "peek" /\ GetOccupiedSize' = GetOccupiedSize
                         /\ Queue' = before[t]
                         /\ data'[t] = SubSeq(Queue', 1, Len(data'[t]))
                      \/ /\ pc[t] = "write" /\ data'[t] \in Seq(Values)
                         /\ ~enable_overwrite => Len(before[t]) + Len(data'[t]) <= N - 1
                         /\ Queue' = Suffix(before[t] \o data'[t], N - 1)
               PROVE  IInv'
  BY <1>1, <1>3, <1>4, <1>5
<1>8. TypeOK'
  <2>1. \A u \in Threads : Len(data'[u]) <= count'[u]
    <3> TAKE u \in Threads
    <3>1. CASE u = t
      <4>1. count[t] \in Int
        BY <1>1, BufferAssumption
      <4> QED
        BY <1>3, <1>4, <1>5, <3>1, <4>1
    <3>2. CASE u # t
      BY <1>0, <1>3, <3>2 DEF TypeOK
    <3> QED
      BY <3>1, <3>2
  <2> QED
    BY <1>0, <2>1 DEF TypeOK, Index, Elements
<1>9. Distance'
  BY NextQueue
<1>10. Mutex'
  BY <1>0 DEF Mutex
<1>11. Locals'
  <2>1. data' \in [Threads -> Seq(Elements)]
    BY <1>1, <1>2, <1>4
  <2>2. \A u \in Threads : pc'[u] = "idle" => data'[u] = << >>
    BY <1>0, <1>3 DEF Locals
  <2> QED
    BY <1>1, <2>1, <2>2 DEF Locals
<1>12. Clamped'
  <2>1. \A u \in Threads : pc'[u] # "idle" => u = t
    BY <1>6
  <2>2. /\ enable_overwrite' = enable_overwrite /\ pc'[t] = pc[t]
        /\ asked'[t] = asked[t] /\ count'[t] = count[t] /\ before'[t] = before[t]
    OBVIOUS
  <2>3. \/ pc[t] = "read"
        \/ pc[t] = "peek" /\ GetOccupiedSize' = GetOccupiedSize
        \/ /\ pc[t] = "write" /\ data'[t] \in Seq(Values)
           /\ ~enable_overwrite => Len(before[t]) + Len(data'[t]) <= N - 1
    BY <1>7
  <2>4. /\ pc[t] = "peek" => count[t] <= GetOccupiedSize
        /\ pc[t] = "peek" => count[t] = IF asked[t] < GetOccupiedSize THEN asked[t]
                                        ELSE GetOccupiedSize
        /\ pc[t] \in {"read", "write"} => count[t] = asked[t]
    BY <1>0 DEF Clamped
  <2>5. /\ pc'[t] = "peek" => count'[t] <= GetOccupiedSize'
        /\ pc'[t] = "peek" => count'[t] = IF asked'[t] < GetOccupiedSize' THEN asked'[t]
                                          ELSE GetOccupiedSize'
        /\ pc'[t] \in {"read", "write"} => count'[t] = asked'[t]
    BY <2>2, <2>3, <2>4, Zenon
  <2>6. /\ pc'[t] = "write" => data'[t] \in Seq(Values)
        /\ pc'[t] = "write" /\ ~enable_overwrite'
             => Len(before'[t]) + Len(data'[t]) <= N - 1
    <3>1. pc'[t] = "write" =>
            /\ data'[t] \in Seq(Values)
            /\ ~enable_overwrite => Len(before[t]) + Len(data'[t]) <= N - 1
      BY <2>2, <2>3
    <3>2. ~enable_overwrite' => ~enable_overwrite
      BY <2>2
    <3>3. before'[t] = before[t]
      BY <2>2
    <3> QED
      BY <3>1, <3>2, <3>3
  <2> SUFFICES ASSUME NEW u \in Threads
               PROVE  /\ pc'[u] = "peek" => count'[u] <= GetOccupiedSize'
                      /\ pc'[u] = "peek" => count'[u] = IF asked'[u] < GetOccupiedSize'
                           THEN asked'[u] ELSE GetOccupiedSize'
                      /\ pc'[u] \in {"read", "write"} => count'[u] = asked'[u]
                      /\ pc'[u] = "write" => data'[u] \in Seq(Values)
                      /\ pc'[u] = "write" /\ ~enable_overwrite'
                           => Len(before'[u]) + Len(data'[u]) <= N - 1
    BY DEF Clamped
  <2>7. CASE u = t
    BY <2>5, <2>6, <2>7, Zenon
  <2>8. CASE u # t
    BY <2>1, <2>8, Zenon
  <2> QED
    BY <2>7, <2>8
<1>13. BurstAtomic'
  <2> SUFFICES ASSUME NEW u \in Threads, pc'[u] # "idle"
               PROVE  /\ pc'[u] = "read" => data'[u] \o Queue' = before'[u]
                      /\ pc'[u] = "peek" => Queue' = before'[u]
                           /\ data'[u] = SubSeq(Queue', 1, Len(data'[u]))
                      /\ pc'[u] = "write" => Queue' = Suffix(before'[u] \o data'[u], N - 1)
    BY DEF BurstAtomic, Suffix
  <2>1. u = t /\ pc'[t] = pc[t] /\ before'[t] = before[t]
    BY <1>6
  <2> QED
    BY <1>7, <2>1
<1> QED
  BY <1>8, <1>9, <1>10, <1>11, <1>12, <1>13 DEF IInv

\* A read moves the oldest element from the queue to the caller.
LEMMA ReadStepInv ==
  ASSUME IInv, NEW t \in Threads, ReadStep(t)
  PROVE  IInv'
<1> DEFINE d == Gap(write_index, read_index)
<1>0. /\ pc[t] = "read" /\ ~Done(t) /\ ~IsEmpty
      /\ Copy(t, buffer[Mask(read_index)])
      /\ read_index' = Inc(read_index) /\ write_index' = write_index
      /\ UNCHANGED <<enable_overwrite, buffer, lock, pc, asked, count, before>>
  BY DEF ReadStep
<1>1. /\ write_index \in Index /\ read_index \in Index /\ d \in 0..(N - 1)
      /\ d \in Nat /\ d # 0 /\ Queue = View(buffer, read_index, d)
      /\ Queue \in Seq(Elements) /\ Len(Queue) = d
  BY <1>0, StateFacts
<1>2. buffer \in [0..(N - 1) -> Elements]
  BY DEF IInv, TypeOK, Elements
<1>3. d \in 1..(N - 1) /\ d > 0
  BY <1>1, Sizes
<1>4. Gap(write_index, Inc(read_index)) = d - 1 /\ Inc(read_index) \in Index
  BY <1>1, <1>3, ReadMove, IncFacts
<1>5. d - 1 \in 0..(N - 1)
  BY <1>1, <1>3, Sizes
<1> HIDE DEF d
<1>6. Queue' = View(buffer, Inc(read_index), d - 1)
  <2>1. Gap(write_index', read_index') = d - 1
    BY <1>0, <1>4
  <2>2. Queue' = View(buffer', read_index', d - 1)
    BY <1>0, <1>1, <1>4, <1>5, <2>1, NextQueue
  <2> QED
    BY <1>0, <2>2
<1>7. Queue' = Tail(Queue) /\ Head(Queue) = buffer[Mask(read_index)]
  BY <1>1, <1>2, <1>3, <1>6, ViewRead
<1>8. Queue # << >> /\ Head(Queue) \in Elements
  BY <1>1, <1>3
<1>9. /\ data'[t] = Append(data[t], Head(Queue))
      /\ data[t] \in Seq(Elements)
      /\ data'[t] \o Queue' = before[t] => IInv'
  BY <1>0, <1>1, <1>2, <1>4, <1>5, <1>7, <1>8, CopyInv
<1>10. data'[t] \o Queue' = data[t] \o Queue
  BY <1>1, <1>7, <1>8, <1>9, MoveHead
<1>11. data[t] \o Queue = before[t]
  BY <1>0 DEF IInv, BurstAtomic
<1> QED
  BY <1>9, <1>10, <1>11

\* A peek copies the next element and leaves the queue.
LEMMA PeekStepInv ==
  ASSUME IInv, NEW t \in Threads, PeekStep(t)
  PROVE  IInv'
<1> DEFINE d == Gap(write_index, read_index)
           n == Len(data[t])
           v == buffer[Mask((read_index + n) % IndexMod)]
<1>0. /\ pc[t] = "peek" /\ ~Done(t) /\ Copy(t, v)
      /\ UNCHANGED <<members, lock, pc, asked, count, before>>
  BY DEF PeekStep
<1>1. /\ write_index \in Index /\ read_index \in Index /\ d \in 0..(N - 1)
      /\ d \in Nat /\ Queue = View(buffer, read_index, d) /\ GetOccupiedSize = d
      /\ Queue \in Seq(Elements) /\ Len(Queue) = d
  BY StateFacts
<1>2. buffer \in [0..(N - 1) -> Elements]
  BY DEF IInv, TypeOK, Elements
<1>3. Queue = before[t] /\ data[t] = SubSeq(Queue, 1, n) /\ count[t] <= GetOccupiedSize
  BY <1>0 DEF IInv, BurstAtomic, Clamped
<1>4. Queue' = Queue /\ GetOccupiedSize' = GetOccupiedSize
  BY <1>0, SameQueue
<1>5. v \in Elements
  <2>1. data[t] \in Seq(Elements)
    BY DEF IInv, Locals
  <2>2. read_index + n \in Int
    BY <1>1, <2>1 DEF Index
  <2> QED
    BY <1>2, <2>2, MaskOfWrapped
<1>6. UNCHANGED <<write_index, read_index, enable_overwrite, buffer>>
  BY <1>0 DEF members
<1> HIDE DEF v
<1>7. /\ data'[t] = Append(data[t], v) /\ Len(data'[t]) = n + 1
      /\ n \in Nat /\ n < count[t]
      /\ /\ GetOccupiedSize' = GetOccupiedSize /\ Queue' = before[t]
         /\ data'[t] = SubSeq(Queue', 1, Len(data'[t]))
         => IInv'
  BY <1>0, <1>1, <1>2, <1>5, <1>6, CopyInv
<1>8. n + 1 \in 1..d
  <2>1. count[t] \in Int
    BY BufferAssumption DEF IInv, TypeOK
  <2> QED
    BY <1>1, <1>3, <1>7, <2>1
<1>9. v = Queue[n + 1]
  <2>1. Queue[n + 1] = buffer[(read_index + (n + 1) - 1) % N]
    BY <1>1, <1>8 DEF View
  <2>2. read_index + (n + 1) - 1 = read_index + n /\ read_index + n \in Int
    BY <1>1, <1>7 DEF Index
  <2> QED
    BY <2>1, <2>2, MaskOfWrapped DEF v
<1> HIDE DEF n, d
<1>10. Append(SubSeq(Queue, 1, n), Queue[n + 1]) = SubSeq(Queue, 1, n + 1)
  BY <1>1, <1>7, <1>8
<1> QED
  BY <1>3, <1>4, <1>7, <1>9, <1>10

\* A write appends its element; a full buffer gives up the oldest one first.
LEMMA WriteStepInv ==
  ASSUME IInv, NEW t \in Threads, NEW v \in Values, WriteStep(t, v)
  PROVE  IInv'
<1> DEFINE d == Gap(write_index, read_index)
           s == before[t] \o data[t]
<1>0. /\ pc[t] = "write" /\ ~Done(t) /\ (IsFull => enable_overwrite)
      /\ read_index' = IF IsFull THEN Inc(read_index) ELSE read_index
      /\ buffer' = [buffer EXCEPT ![Mask(write_index)] = v]
      /\ write_index' = Inc(write_index) /\ Copy(t, v)
      /\ UNCHANGED <<enable_overwrite, lock, pc, asked, count, before>>
  BY DEF WriteStep
<1>1. /\ write_index \in Index /\ read_index \in Index /\ d \in 0..(N - 1)
      /\ d \in Nat /\ Queue = View(buffer, read_index, d) /\ GetOccupiedSize = d
      /\ IsFull <=> d = N - 1
      /\ Mask(write_index) = (read_index + d) % N
      /\ Queue \in Seq(Elements) /\ Len(Queue) = d
  BY StateFacts
<1>2. buffer \in [0..(N - 1) -> Elements] /\ v \in Elements
  BY DEF IInv, TypeOK, Elements
<1>3. Inc(write_index) \in Index /\ Inc(read_index) \in Index
  BY <1>1, IncFacts
<1>4. /\ Queue = Suffix(s, N - 1) /\ data[t] \in Seq(Values)
      /\ ~enable_overwrite => Len(before[t]) + Len(data[t]) <= N - 1
  BY <1>0 DEF IInv, BurstAtomic, Clamped
<1>5. buffer' \in [0..(N - 1) -> Elements] /\ Updated(buffer, buffer', (read_index + d) % N, v)
  <2>1. (read_index + d) \in Int
    BY <1>1 DEF Index
  <2>2. (read_index + d) % N \in 0..(N - 1)
    BY <2>1, MaskOfWrapped
  <2> QED
    BY <1>0, <1>1, <1>2, <2>2 DEF Updated
<1>6. data[t] \in Seq(Elements) /\ before[t] \in Seq(Elements) /\ s \in Seq(Elements)
  <2>1. data[t] \in Seq(Elements) /\ before[t] \in Seq(Elements)
    BY DEF IInv, Locals
  <2> QED
    BY <2>1, ConcatProperties
<1> HIDE DEF d
<1>7. /\ Gap(write_index', read_index') \in 0..(N - 1)
      /\ Queue' = Suffix(Append(s, v), N - 1)
  <2>1. CASE d # N - 1
    <3>1. d \in 0..(N - 2) /\ d + 1 < IndexMod /\ d + 1 \in 0..(N - 1) /\ ~IsFull /\ d < N - 1
      BY <1>1, <2>1, Sizes
    <3>2. Gap(Inc(write_index), read_index) = d + 1
      BY <1>1, <3>1, WriteMove DEF d
    <3>3. read_index' = read_index /\ Gap(write_index', read_index') = d + 1
      BY <1>0, <3>1, <3>2
    <3>4. Queue' = View(buffer', read_index, d + 1)
      <4>1. write_index' \in Index /\ read_index' \in Index
        BY <1>0, <1>1, <1>3, <3>3
      <4>2. Gap(write_index', read_index') \in 0..(N - 1)
        BY <3>1, <3>3
      <4> QED
        BY <3>3, <4>1, <4>2, NextQueue
    <3>5. View(buffer', read_index, d + 1) = Append(View(buffer, read_index, d), v)
      BY <1>1, <1>2, <1>5, <3>1, ViewAppend, SMTT(30)
    <3>6. Suffix(Append(s, v), N - 1) = Append(Queue, v)
      <4>1. N - 1 \in Nat
        BY Sizes
      <4>2. Len(Suffix(s, N - 1)) < N - 1
        BY <1>1, <1>4, <3>1
      <4>3. Suffix(Append(s, v), N - 1) = Append(Suffix(s, N - 1), v)
        BY <1>2, <1>6, <4>1, <4>2, SuffixAppend
      <4> QED
        BY <1>4, <4>3
    <3> QED
      BY <1>1, <3>1, <3>3, <3>4, <3>5, <3>6
  <2>2. CASE d = N - 1
    <3>1. Gap(Inc(write_index), Inc(read_index)) = d
      BY <1>1, WriteMove DEF d
    <3>2. read_index' = Inc(read_index) /\ Gap(write_index', read_index') = d
      BY <1>0, <1>1, <2>2, <3>1
    <3>3. Queue' = View(buffer', Inc(read_index), N - 1)
      <4>1. write_index' \in Index /\ read_index' \in Index
        BY <1>0, <1>1, <1>3, <3>2
      <4>2. Gap(write_index', read_index') \in 0..(N - 1)
        BY <1>1, <3>2
      <4>3. Queue' = View(buffer', read_index', d)
        BY <3>2, <4>1, <4>2, NextQueue
      <4> QED
        BY <2>2, <3>2, <4>3
    <3>4. View(buffer', Inc(read_index), N - 1)
            = IF N = 1 THEN << >> ELSE Append(Tail(View(buffer, read_index, N - 1)), v)
      <4>1. Updated(buffer, buffer', (read_index + (N - 1)) % N, v)
        BY <1>5, <2>2
      <4> QED
        BY <1>1, <1>2, <1>5, <4>1, ViewOverwrite, SMTT(30)
    <3>5. Suffix(Append(s, v), N - 1)
            = IF N = 1 THEN << >> ELSE Append(Tail(Queue), v)
      <4>1. N - 1 \in Nat /\ (N - 1 = 0 <=> N = 1)
        BY Sizes
      <4>2. Len(Suffix(s, N - 1)) = N - 1
        BY <1>1, <1>4, <2>2
      <4>3. Suffix(Append(s, v), N - 1)
              = IF N - 1 = 0 THEN << >> ELSE Append(Tail(Suffix(s, N - 1)), v)
        BY <1>2, <1>6, <4>1, <4>2, SuffixAppend, ZenonT(30)
      <4> QED
        BY <1>4, <4>1, <4>3
    <3> QED
      BY <1>1, <2>2, <3>2, <3>3, <3>4, <3>5
  <2> QED
    BY <2>1, <2>2
<1>8. write_index' \in Index /\ read_index' \in Index
  BY <1>0, <1>1, <1>3
<1>9. /\ data'[t] = Append(data[t], v) /\ Len(data'[t]) = Len(data[t]) + 1
      /\ /\ data'[t] \in Seq(Values)
         /\ ~enable_overwrite => Len(before[t]) + Len(data'[t]) <= N - 1
         /\ Queue' = Suffix(before[t] \o data'[t], N - 1)
         => IInv'
  BY <1>0, <1>2, <1>5, <1>7, <1>8, CopyInv
<1>10. data'[t] \in Seq(Values)
  BY <1>4, <1>9
<1>11. before[t] \o data'[t] = Append(s, v)
  <2> DEFINE b == before[t]
             e == data[t]
  <2>1. v \in Elements /\ b \in Seq(Elements) /\ e \in Seq(Elements)
    BY <1>2, <1>6
  <2> HIDE DEF b, e
  <2>2. b \o Append(e, v) = Append(b \o e, v)
    BY <2>1, ConcatAppend
  <2> QED
    BY <1>9, <2>2 DEF b, e
<1>12. ~enable_overwrite => Len(before[t]) + Len(data'[t]) <= N - 1
  <2> SUFFICES ASSUME ~enable_overwrite
               PROVE  Len(before[t]) + Len(data'[t]) <= N - 1
    OBVIOUS
  <2>1. d # N - 1 /\ Len(before[t]) + Len(data[t]) <= N - 1
    BY <1>0, <1>1, <1>4
  <2>2. Len(s) = Len(before[t]) + Len(data[t])
    BY <1>6, ConcatProperties
  <2>3. Suffix(s, N - 1) = s
    BY <2>1, <2>2 DEF Suffix
  <2> DEFINE lb == Len(before[t])
             ld == Len(data[t])
             ln == Len(data'[t])
  <2>4. d = lb + ld
    BY <1>1, <1>4, <2>2, <2>3
  <2>5. lb \in Nat /\ ld \in Nat /\ N \in Nat /\ ln = ld + 1
    BY <1>6, <1>9, Sizes
  <2>6. d # N - 1 /\ lb + ld <= N - 1
    BY <2>1
  <2> HIDE DEF lb, ld, ln
  <2>7. lb + ln <= N - 1
    BY <2>4, <2>5, <2>6
  <2> QED
    BY <2>7 DEF lb, ln
<1> QED
  BY <1>7, <1>9, <1>10, <1>11, <1>12

-----------------------------------------------------------------------------
\* Every step keeps the inductive invariant.
LEMMA NextInv == IInv /\ [Next]_vars => IInv'
<1> SUFFICES ASSUME IInv, [Next]_vars
             PROVE  IInv'
  OBVIOUS
<1>1. ASSUME NEW t \in Threads, NEW n \in 0..MaxBurst,
             Read(t, n) \/ Peek(t, n) \/ Write(t, n)
      PROVE  IInv'
  <2>1. CASE Read(t, n)
    BY <2>1, AcquireInv DEF Read
  <2>2. CASE Write(t, n)
    BY <2>2, AcquireInv DEF Write
  <2>3. CASE Peek(t, n)
    <3> DEFINE m == IF n < GetOccupiedSize THEN n ELSE GetOccupiedSize
    <3>1. GetOccupiedSize \in Nat
      BY StateFacts
    <3>2. m \in 0..MaxBurst /\ m <= GetOccupiedSize
      BY <3>1, BufferAssumption
    <3>3. Acquire(t, "peek", n, m)
      BY <2>3 DEF Peek
    <3>4. m = IF "peek" # "peek" \/ n < GetOccupiedSize THEN n ELSE GetOccupiedSize
      OBVIOUS
    <3> HIDE DEF m
    <3> QED
      BY <3>2, <3>3, <3>4, AcquireInv
  <2> QED
    BY <1>1, <2>1, <2>2, <2>3
<1>2. ASSUME NEW t \in Threads, CallStep(t)
      PROVE  IInv'
  <2>1. CASE ReadReturn(t) \/ PeekReturn(t) \/ WriteReturn(t)
    BY <2>1, ReturnInv DEF ReadReturn, PeekReturn, WriteReturn
  <2> QED
    BY <1>2, <2>1, ReadStepInv, PeekStepInv, WriteStepInv DEF CallStep
<1>3. CASE UNCHANGED vars
  <2>1. UNCHANGED <<members, callers>>
    BY <1>3 DEF vars
  <2>2. Queue' = Queue /\ GetOccupiedSize' = GetOccupiedSize /\ Distance'
    BY <2>1, SameQueue DEF IInv
  <2>3. TypeOK' /\ Mutex' /\ Locals' /\ Clamped'
    BY <2>1, <2>2 DEF IInv, members, callers, TypeOK, Mutex, Locals, Clamped
  <2>4. BurstAtomic'
    BY <2>1, <2>2 DEF IInv, members, callers, BurstAtomic, Suffix
  <2> QED
    BY <2>2, <2>3, <2>4 DEF IInv
<1> QED
  BY <1>1, <1>2, <1>3, PeekAtInv, ResetInv DEF Next

\* The indices, the mutex, the locals of the calls and the queue are related by
\* IInv in every reachable state.
THEOREM Invariance == Spec => []IInv
<1> QED
  BY InitInv, NextInv, PTL DEF Spec

\* Every index and slot has its type, and no call of Read, Peek or Write copies
\* an element more than its vector was clamped to.
THEOREM TypeCorrect == Spec => []TypeOK
<1>1. IInv => TypeOK
  BY DEF IInv
<1> QED
  BY <1>1, Invariance, PTL

\* IsEmpty, IsFull, GetOccupiedSize and GetFreeSize never contradict each other,
\* whatever the capacity, across overwrites and the wrap of std::size_t.
THEOREM SizeQueriesAgree == Spec => []QueriesAgree
<1>1. IInv => QueriesAgree
  <2> SUFFICES ASSUME IInv
               PROVE  QueriesAgree
    OBVIOUS
  <2>1. /\ GetOccupiedSize = Gap(write_index, read_index)
        /\ Gap(write_index, read_index) \in Nat
        /\ IsEmpty <=> Gap(write_index, read_index) = 0
        /\ IsFull <=> Gap(write_index, read_index) = N - 1
    BY StateFacts
  <2>2. IsFull <=> GetFreeSize = 0
    BY <2>1, Sizes DEF GetFreeSize
  <2> QED
    BY <2>1, <2>2 DEF QueriesAgree, Gap
<1> QED
  BY <1>1, Invariance, PTL

\* No other thread tears a burst: its copies and the queue account for the
\* queue it found when it took buffer_mutex_.
THEOREM BurstsAreAtomic == Spec => []BurstAtomic
<1>1. IInv => BurstAtomic
  BY DEF IInv
<1> QED
  BY <1>1, Invariance, PTL

-----------------------------------------------------------------------------
(* The refinement of BoundedBuffer.                                        *)

\* The smaller of two numbers.
LEMMA MinOfTwo ==
  ASSUME NEW a \in Int, NEW b \in Int
  PROVE  Buffer!Min({a, b}) = IF a <= b THEN a ELSE b
<1> DEFINE m == IF a <= b THEN a ELSE b
<1>1. m \in {a, b} /\ \A y \in {a, b} : m <= y
  OBVIOUS
<1>2. \A x \in {a, b} : (\A y \in {a, b} : x <= y) => x = m
  OBVIOUS
<1> HIDE DEF m
<1>3. Buffer!Min({a, b}) = m
  BY <1>1, <1>2 DEF Buffer!Min
<1> QED
  BY <1>3 DEF m

\* The elements a queue of K slots keeps.
LEMMA NewestIsSuffix ==
  ASSUME NEW S, NEW s \in Seq(S), NEW K \in Nat
  PROVE  Buffer!Newest(s, K) = Suffix(s, K)
<1>0. Len(s) \in Nat /\ Len(s) \in Int /\ K \in Int
  OBVIOUS
<1>1. Buffer!Min({K, Len(s)}) = IF K <= Len(s) THEN K ELSE Len(s)
  BY <1>0, MinOfTwo
<1>2. CASE Len(s) <= K
  <2>1. Len(s) - Buffer!Min({K, Len(s)}) + 1 = 1
    BY <1>0, <1>1, <1>2
  <2>2. SubSeq(s, 1, Len(s)) = s
    BY SubSeqFull
  <2> QED
    BY <1>2, <2>1, <2>2 DEF Buffer!Newest, Suffix
<1>3. CASE Len(s) > K
  <2>1. Buffer!Min({K, Len(s)}) = K /\ ~(Len(s) <= K)
    BY <1>0, <1>1, <1>3
  <2> QED
    BY <2>1 DEF Buffer!Newest, Suffix
<1> QED
  BY <1>0, <1>2, <1>3

\* The two parts of a concatenation.
LEMMA PartsOfConcat ==
  ASSUME NEW S, NEW s \in Seq(S), NEW q \in Seq(S), NEW n \in Nat,
         n = Len(s) \/ (n >= Len(s) /\ q = << >>)
  PROVE  /\ Buffer!Oldest(s \o q, n) = s
         /\ Buffer!Newest(s \o q, Len(s \o q) - Buffer!Min({n, Len(s \o q)})) = q
<1> DEFINE y == s \o q
<1>0. /\ Len(s) \in Nat /\ Len(q) \in Nat
      /\ y \in Seq(S) /\ Len(y) = Len(s) + Len(q) /\ (q = << >> => Len(q) = 0)
  BY ConcatProperties
<1> HIDE DEF y
<1>1. Buffer!Min({n, Len(y)}) = Len(s)
  <2>1. n \in Int /\ Len(y) \in Int
    BY <1>0
  <2>2. Buffer!Min({n, Len(y)}) = IF n <= Len(y) THEN n ELSE Len(y)
    BY <2>1, MinOfTwo
  <2> QED
    BY <1>0, <2>2
<1>2. SubSeq(y, 1, Len(s)) = s
  BY SubSeqOfConcat1 DEF y
<1>3. Len(y) - Len(s) = Len(q)
  BY <1>0
<1>4. Buffer!Min({Len(q), Len(y)}) = Len(q)
  <2>1. Len(q) \in Int /\ Len(y) \in Int
    BY <1>0
  <2>2. Buffer!Min({Len(q), Len(y)}) = IF Len(q) <= Len(y) THEN Len(q) ELSE Len(y)
    BY <2>1, MinOfTwo
  <2> QED
    BY <1>0, <2>2
<1>5. Len(y) - Len(q) + 1 = Len(s) + 1
  BY <1>0
<1>6. SubSeq(y, Len(s) + 1, Len(y)) = q
  <2>1. SubSeq(s \o q, Len(s) + 1, Len(s \o q)) = q
    BY SubSeqOfConcat2
  <2> QED
    BY <2>1 DEF y
<1>7. Buffer!Oldest(y, n) = s
  BY <1>1, <1>2 DEF Buffer!Oldest
<1>8. Buffer!Newest(y, Len(y) - Buffer!Min({n, Len(y)})) = q
  BY <1>1, <1>3, <1>4, <1>5, <1>6 DEF Buffer!Newest
<1> QED
  BY <1>7, <1>8 DEF y

\* A read returns the oldest elements and removes them.
LEMMA ReadReturns ==
  ASSUME IInv, NEW t \in Threads, ReadReturn(t)
  PROVE  \E n \in 0..MaxBurst : Buffer!Read(n)
<1>0. /\ pc[t] = "read" /\ (Done(t) \/ IsEmpty)
      /\ result' = Returned(asked[t], data[t])
      /\ lock' = NoThread /\ UNCHANGED members
  BY DEF ReadReturn, Return
<1>1. lock = t /\ t # NoThread
  BY <1>0, Alone, BufferAssumption
<1>2. /\ count[t] \in 0..MaxBurst /\ Len(data[t]) <= count[t]
      /\ data[t] \in Seq(Elements) /\ data[t] \o Queue = before[t]
      /\ count[t] = asked[t]
  BY <1>0 DEF IInv, TypeOK, Locals, BurstAtomic, Clamped
<1>3. Queue' = Queue /\ enable_overwrite' = enable_overwrite
  BY <1>0, SameQueue DEF members
<1>4. Queue \in Seq(Elements) /\ (IsEmpty => Len(Queue) = 0)
  BY StateFacts
<1>5. count[t] \in Nat /\ (Done(t) => count[t] = Len(data[t]))
      /\ (IsEmpty => Queue = << >>)
  BY <1>2, <1>4, BufferAssumption DEF Done
<1>6. Len(data[t]) \in Nat
  BY <1>2
<1>7. /\ Buffer!Oldest(before[t], count[t]) = data[t]
      /\ Buffer!Newest(before[t],
                       Len(before[t]) - Buffer!Min({count[t], Len(before[t])})) = Queue
  <2> DEFINE s == data[t]
             n == count[t]
  <2>1. /\ s \in Seq(Elements) /\ n \in Nat
        /\ n = Len(s) \/ (n >= Len(s) /\ Queue = << >>)
    BY <1>0, <1>2, <1>5, <1>6
  <2> HIDE DEF s, n
  <2>2. /\ Buffer!Oldest(s \o Queue, n) = s
        /\ Buffer!Newest(s \o Queue,
                         Len(s \o Queue) - Buffer!Min({n, Len(s \o Queue)})) = Queue
    BY <1>4, <2>1, PartsOfConcat
  <2> QED
    BY <1>2, <2>2 DEF s, n
<1>8. Buffer!Read(count[t])
  BY <1>0, <1>1, <1>2, <1>3, <1>7 DEF Buffer!Read, Returned, Buffer!Returned
<1> QED
  BY <1>2, <1>8

\* A peek returns the oldest elements.
LEMMA PeekReturns ==
  ASSUME IInv, NEW t \in Threads, PeekReturn(t)
  PROVE  \E n \in 0..MaxBurst : Buffer!Peek(n)
<1>0. /\ pc[t] = "peek" /\ Done(t) /\ result' = Returned(asked[t], data[t])
      /\ lock' = NoThread /\ UNCHANGED members
  BY DEF PeekReturn, Return
<1>1. lock = t /\ t # NoThread
  BY <1>0, Alone, BufferAssumption
<1>2. /\ count[t] \in 0..MaxBurst /\ count[t] = Len(data[t])
      /\ Queue = before[t] /\ data[t] = SubSeq(Queue, 1, Len(data[t]))
      /\ asked[t] \in 0..MaxBurst
      /\ count[t] = IF asked[t] < GetOccupiedSize THEN asked[t] ELSE GetOccupiedSize
  BY <1>0 DEF IInv, TypeOK, BurstAtomic, Clamped, Done
<1>3. Queue' = Queue /\ enable_overwrite' = enable_overwrite
  BY <1>0, SameQueue DEF members
<1>4. Len(Queue) = GetOccupiedSize /\ Len(Queue) \in Int /\ asked[t] \in Int
  BY <1>2, StateFacts, BufferAssumption
<1>5. Buffer!Min({asked[t], Len(Queue)}) = count[t]
  <2>1. Buffer!Min({asked[t], Len(Queue)})
          = IF asked[t] <= Len(Queue) THEN asked[t] ELSE Len(Queue)
    BY <1>4, MinOfTwo
  <2> QED
    BY <1>2, <1>4, <2>1
<1>6. Buffer!Oldest(before[t], asked[t]) = data[t]
  BY <1>2, <1>5 DEF Buffer!Oldest
<1>7. Buffer!Peek(asked[t])
  BY <1>0, <1>1, <1>2, <1>3, <1>6 DEF Buffer!Peek, Returned, Buffer!Returned
<1> QED
  BY <1>2, <1>7

\* A write stores as many elements as it was asked to, or, when it may not
\* overwrite, as many as there was room for.
LEMMA WriteReturns ==
  ASSUME IInv, NEW t \in Threads, WriteReturn(t)
  PROVE  \E n \in 0..MaxBurst, s \in Buffer!BoundedSeq(Values, MaxBurst) :
           Buffer!Write(n, s)
<1> DEFINE s == data[t]
           q == before[t]
<1>0. /\ pc[t] = "write" /\ result' = Returned(asked[t], s)
      /\ Done(t) \/ (IsFull /\ ~enable_overwrite)
      /\ lock' = NoThread /\ UNCHANGED members
  BY DEF WriteReturn, Return
<1>1. lock = t /\ t # NoThread
  BY <1>0, Alone, BufferAssumption
<1>2. /\ count[t] \in 0..MaxBurst /\ Len(s) <= count[t]
      /\ s \in Seq(Values) /\ q \in Seq(Elements) /\ s \in Seq(Elements)
      /\ Queue = Suffix(q \o s, N - 1)
      /\ ~enable_overwrite => Len(q) + Len(s) <= N - 1
      /\ count[t] = asked[t]
  BY <1>0 DEF IInv, TypeOK, Locals, Clamped, BurstAtomic
<1>3. Queue' = Queue /\ enable_overwrite' = enable_overwrite
  BY <1>0, SameQueue DEF members
<1>4. N - 1 \in Nat /\ N \in Nat
  BY Sizes
<1>5. s \in Buffer!BoundedSeq(Values, MaxBurst)
  <2>1. Len(s) \in 0..MaxBurst /\ s \in [1..Len(s) -> Values]
    BY <1>2, BufferAssumption
  <2> QED
    BY <2>1 DEF Buffer!BoundedSeq, Buffer!SeqOf
<1>6. Buffer!Newest(q \o s, N - 1) = Queue
  <2>1. q \o s \in Seq(Elements)
    BY <1>2, ConcatProperties
  <2>2. Buffer!Newest(q \o s, N - 1) = Suffix(q \o s, N - 1)
    BY <1>4, <2>1, NewestIsSuffix
  <2> QED
    BY <1>2, <2>2
<1>7. CASE enable_overwrite
  <2>1. Len(s) = asked[t]
    BY <1>0, <1>2, <1>7 DEF Done
  <2>2. Buffer!Write(asked[t], s)
    BY <1>0, <1>1, <1>3, <1>6, <1>7, <2>1 DEF Buffer!Write, Returned, Buffer!Returned
  <2> QED
    BY <1>2, <1>5, <2>2
<1>8. CASE ~enable_overwrite
  <2> DEFINE l == Len(s)
             k == Len(q)
             n == asked[t]
             room == (N - 1) - k
  <2>1. k \in Nat /\ l \in Nat /\ n \in Nat /\ k + l <= N - 1 /\ l <= n
    <3>1. k \in Nat /\ l \in Nat
      BY <1>2
    <3>2. n \in Nat /\ l <= n
      BY <1>2, BufferAssumption
    <3> QED
      BY <1>2, <1>8, <3>1, <3>2
  <2>2. l = n \/ k + l = N - 1
    <3>1. CASE Done(t)
      BY <1>2, <3>1 DEF Done
    <3>2. CASE IsFull
      <4>1. Len(Queue) = N - 1
        BY <3>2, StateFacts
      <4>2. Len(q \o s) = k + l
        BY <1>2, ConcatProperties
      <4>3. Queue = q \o s
        BY <1>2, <2>1, <4>2 DEF Suffix
      <4> QED
        BY <4>1, <4>2, <4>3
    <3> QED
      BY <1>0, <3>1, <3>2
  <2>3. Buffer!Min({n, room}) = l
    <3> HIDE DEF l, k, n
    <3>1. n \in Int /\ room \in Int
      BY <1>4, <2>1
    <3>2. Buffer!Min({n, room}) = IF n <= room THEN n ELSE room
      BY <3>1, MinOfTwo
    <3> HIDE DEF room
    <3>3. l = IF n <= room THEN n ELSE room
      BY <1>4, <2>1, <2>2 DEF room
    <3> QED
      BY <3>2, <3>3
  <2>4. Buffer!Write(n, s)
    BY <1>0, <1>1, <1>3, <1>6, <1>8, <2>3 DEF Buffer!Write, Returned, Buffer!Returned
  <2> QED
    BY <1>2, <1>5, <2>4
<1> QED
  BY <1>7, <1>8

\* PeekAt returns the element at its place in the queue, if there is one.
LEMMA PeekAtReturns ==
  ASSUME IInv, NEW n \in 0..MaxBurst, PeekAt(n)
  PROVE  Buffer!PeekAt(n)
<1>0. /\ lock = NoThread /\ UNCHANGED <<members, callers>>
      /\ result' = Returned(1, IF n < GetOccupiedSize
                                 THEN <<buffer[Mask((read_index + n) % IndexMod)]>>
                                 ELSE << >>)
  BY DEF PeekAt
<1>1. Queue' = Queue /\ enable_overwrite' = enable_overwrite /\ lock' = NoThread
  BY <1>0, SameQueue DEF members, callers
<1>2. /\ Len(Queue) = GetOccupiedSize /\ GetOccupiedSize \in Nat
      /\ read_index \in Index
      /\ Queue = View(buffer, read_index, GetOccupiedSize)
  BY StateFacts
<1>3. n < Len(Queue) => buffer[Mask((read_index + n) % IndexMod)] = Queue[n + 1]
  <2> SUFFICES ASSUME n < Len(Queue)
               PROVE  buffer[Mask((read_index + n) % IndexMod)] = Queue[n + 1]
    OBVIOUS
  <2>1. n + 1 \in 1..GetOccupiedSize /\ n \in Int
    BY <1>2, BufferAssumption
  <2>2. Queue[n + 1] = buffer[(read_index + (n + 1) - 1) % N]
    BY <1>2, <2>1 DEF View
  <2>3. read_index + (n + 1) - 1 = read_index + n /\ read_index + n \in Int
    BY <1>2, <2>1 DEF Index
  <2> QED
    BY <2>2, <2>3, MaskOfWrapped
<1> QED
  BY <1>0, <1>1, <1>2, <1>3 DEF Buffer!PeekAt, Returned, Buffer!Returned

\* An empty distance is an empty queue.
LEMMA EmptyQueue ==
  ASSUME IInv, Gap(write_index, read_index) = 0
  PROVE  Queue = << >>
<1>1. Queue \in Seq(Elements) /\ Len(Queue) = 0
  BY StateFacts
<1> QED
  BY <1>1

\* RingBuffer implements the bounded queue: a burst of any length takes effect
\* at its return, in one step of the queue, for any number of threads.
THEOREM RefinesBuffer == Spec => ImplementsBuffer
<1>0. 0 \in Index /\ Gap(0, 0) = 0 /\ 0 \in 0..(N - 1)
  <2>1. 0 \in Index /\ 0 \in 0..(N - 1)
    BY Sizes DEF Index
  <2> QED
    BY <2>1, GapFacts
<1>1. Init => Buffer!Init
  <2> SUFFICES ASSUME Init
               PROVE  Buffer!Init
    OBVIOUS
  <2>1. Queue = << >>
    BY <1>0, InitInv, EmptyQueue DEF Init
  <2> QED
    BY <2>1 DEF Init, Buffer!Init, NoResult, Returned, Buffer!Returned
<1>2. IInv /\ [Next]_vars => [Buffer!Next]_(Buffer!vars)
  <2> SUFFICES ASSUME IInv, [Next]_vars
               PROVE  [Buffer!Next]_(Buffer!vars)
    OBVIOUS
  <2>1. CASE \E t \in Threads, n \in 0..MaxBurst : Read(t, n) \/ Peek(t, n) \/ Write(t, n)
    <3>1. PICK t \in Threads : \E call, a, n : Acquire(t, call, a, n)
      BY <2>1 DEF Read, Peek, Write
    <3>2. /\ lock = NoThread /\ lock' = t /\ before' = [before EXCEPT ![t] = Queue]
          /\ result' = NoResult /\ enable_overwrite' = enable_overwrite
      BY <3>1 DEF Acquire, members
    <3>3. before'[t] = Queue /\ t # NoThread
      BY <3>2, BufferAssumption DEF IInv, Locals
    <3>4. Buffer!Call
      BY <3>2, <3>3 DEF Buffer!Call, NoResult, Returned, Buffer!Returned
    <3> QED
      BY <3>4 DEF Buffer!Next
  <2>2. ASSUME NEW t \in Threads, ReadReturn(t) \/ PeekReturn(t) \/ WriteReturn(t)
        PROVE  Buffer!Next
    BY <2>2, ReadReturns, PeekReturns, WriteReturns DEF Buffer!Next
  <2>3. ASSUME NEW t \in Threads,
               ReadStep(t) \/ PeekStep(t) \/ \E v \in Values : WriteStep(t, v)
        PROVE  UNCHANGED Buffer!vars
    <3>1. pc[t] # "idle" /\ UNCHANGED <<lock, before, result, enable_overwrite>>
      BY <2>3 DEF ReadStep, PeekStep, WriteStep, members
    <3>2. lock = t /\ t # NoThread
      BY <3>1, Alone, BufferAssumption
    <3> QED
      BY <3>1, <3>2 DEF Buffer!vars
  <2>4. CASE \E n \in 0..MaxBurst : PeekAt(n)
    BY <2>4, PeekAtReturns DEF Buffer!Next
  <2>5. CASE Reset
    <3>1. Queue' = << >>
      <4>1. write_index' = 0 /\ read_index' = 0
        BY <2>5 DEF Reset
      <4>2. Queue' = View(buffer', 0, 0)
        BY <1>0, <4>1, NextQueue
      <4> QED
        BY <4>2 DEF View
    <3>2. Buffer!Reset
      BY <2>5, <3>1
         DEF Reset, callers, Buffer!Reset, NoResult, Returned, Buffer!Returned
    <3> QED
      BY <3>2 DEF Buffer!Next
  <2>6. CASE UNCHANGED vars
    <3>1. Queue' = Queue
      BY <2>6, SameQueue DEF vars
    <3> QED
      BY <2>6, <3>1 DEF vars, members, callers, Buffer!vars
  <2> QED
    BY <2>1, <2>2, <2>3, <2>4, <2>5, <2>6 DEF Next, CallStep
<1> QED
  BY <1>1, <1>2, Invariance, PTL DEF Spec, ImplementsBuffer, Buffer!Spec
=============================================================================
