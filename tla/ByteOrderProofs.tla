-------------------------- MODULE ByteOrderProofs --------------------------
(***************************************************************************)
(* The loads and stores of byte_order.hpp for every even number of values  *)
(* of a byte, 256 in the code: TLC can try full words of small bytes only. *)
(***************************************************************************)
EXTENDS ByteOrder, ModLemmas, TLAPS

-----------------------------------------------------------------------------
(* Digits.                                                                 *)

\* Quotient and remainder are the only ones of their kind.
LEMMA DivUnique ==
  ASSUME NEW n \in Nat \ {0}, NEW v \in Int, NEW q \in Int, NEW r \in 0..(n - 1),
         v = n * q + r
  PROVE  v \div n = q /\ v % n = r
<1>1. v % n \in 0..(n - 1) /\ v \div n \in Int /\ v = n * (v \div n) + (v % n)
  BY DivMod
<1> DEFINE p == v \div n
           s == v % n
<1>2. p \in Int /\ s \in 0..(n - 1) /\ v = n * p + s
  BY <1>1
<1> HIDE DEF p, s
<1>3. n * (p - q) = n * p - n * q
  BY <1>2
<1>4. n * (q - p) = n * q - n * p
  BY <1>2
<1> DEFINE a == n * p
           b == n * q
<1>5. a \in Int /\ b \in Int /\ a + s = b + r
  BY <1>2
<1>6. ~(0 < a - b /\ a - b < n) /\ ~(0 < b - a /\ b - a < n)
  BY <1>2, <1>3, <1>4, NoMultipleBetween
<1> HIDE DEF a, b
<1>7. a = b /\ s = r
  BY <1>2, <1>5, <1>6
<1>8. p = q
  <2>1. n * (p - q) = 0
    BY <1>3, <1>5, <1>7 DEF a, b
  <2> QED
    BY <1>2, <2>1
<1> QED
  BY <1>7, <1>8 DEF p, s

\* What a positive number divides into.
LEMMA QuotientNat ==
  ASSUME NEW n \in Nat \ {0}, NEW v \in Nat
  PROVE  v \div n \in Nat
<1>1. v % n \in 0..(n - 1) /\ v \div n \in Int /\ v = n * (v \div n) + (v % n)
  BY DivMod
<1> DEFINE p == v \div n
<1> HIDE DEF p
<1>2. p \in Int /\ ~(p <= -1)
  <2> SUFFICES ASSUME p <= -1
               PROVE  FALSE
    BY <1>1 DEF p
  <2>1. n * p <= -n
    BY <1>1 DEF p
  <2>2. n * p \in Int
    BY <1>1 DEF p
  <2> QED
    BY <1>1, <2>1, <2>2 DEF p
<1> QED
  BY <1>2 DEF p

\* A shift by two bytes is a shift by one, twice.
LEMMA NestedDiv ==
  ASSUME NEW m \in Nat \ {0}, NEW n \in Nat \ {0}, NEW v \in Nat
  PROVE  v \div (m * n) = (v \div m) \div n
<1> DEFINE q == v \div m
           r == v % m
           s == q \div n
           t == q % n
<1>1. q \in Int /\ r \in 0..(m - 1) /\ v = m * q + r
  BY DivMod
<1> HIDE DEF q, r
<1>2. s \in Int /\ t \in 0..(n - 1) /\ q = n * s + t
  BY <1>1, DivMod
<1> HIDE DEF s, t
<1>3. m * n \in Nat \ {0}
  OBVIOUS
<1>4. v = (m * n) * s + (m * t + r)
  <2>1. m * q = m * (n * s) + m * t
    BY <1>2
  <2>2. m * (n * s) = (m * n) * s
    BY <1>2
  <2> QED
    BY <1>1, <1>2, <2>1, <2>2
<1>5. m * t + r \in 0..(m * n - 1)
  <2>1. m * (n - t) >= m
    BY <1>2
  <2>2. m * (n - t) = m * n - m * t
    BY <1>2
  <2>3. m * t \in Nat
    BY <1>2
  <2> QED
    BY <1>1, <1>3, <2>1, <2>2, <2>3
<1>6. v \div (m * n) = s
  BY <1>2, <1>3, <1>4, <1>5, DivUnique, SMTT(30)
<1> QED
  BY <1>6 DEF q, s

\* The number of values of a byte.
LEMMA BasePositive == Base \in Nat \ {0} /\ Base * Base \in Nat \ {0}
                      /\ Base * Base * Base \in Nat \ {0}
                      /\ Base * Base * Base * Base \in Nat \ {0}
<1>1. Base \in Nat \ {0}
  BY BaseAssumption
<1>2. \A a, b \in Nat \ {0} : a * b \in Nat \ {0}
  OBVIOUS
<1> QED
  BY <1>1, <1>2

\* A number below m * n has a quotient by m below n.
LEMMA QuotientBelow ==
  ASSUME NEW m \in Nat \ {0}, NEW n \in Nat \ {0}, NEW v \in 0..(m * n - 1)
  PROVE  v \div m \in 0..(n - 1) /\ v % m \in 0..(m - 1) /\ v = m * (v \div m) + (v % m)
<1>0. m * n \in Nat
  OBVIOUS
<1>1. v \in Nat /\ v < m * n
  BY <1>0
<1> DEFINE q == v \div m
           r == v % m
<1>2. q \in Nat
  BY <1>1, QuotientNat
<1>4. r \in 0..(m - 1) /\ v = m * q + r
  BY <1>1, DivMod
<1> HIDE DEF q, r
<1>3. ~(q >= n)
  <2> SUFFICES ASSUME q >= n
               PROVE  FALSE
    OBVIOUS
  <2>1. m * q >= m * n
    BY <1>2
  <2>2. m * q \in Nat
    BY <1>2
  <2> QED
    BY <1>0, <1>1, <1>2, <1>4, <2>1, <2>2
<1>5. q \in 0..(n - 1)
  BY <1>2, <1>3
<1> QED
  BY <1>4, <1>5 DEF q, r

\* One more digit.
LEMMA AppendDigit ==
  ASSUME NEW n \in Nat \ {0}, NEW m \in Nat \ {0}, NEW a \in 0..(n - 1), NEW b \in 0..(m - 1)
  PROVE  /\ a * m + b \in 0..(n * m - 1)
         /\ (a * m + b) \div m = a /\ (a * m + b) % m = b
<1>1. a * m \in Nat /\ n * m \in Nat /\ a * m + b \in Int /\ a * m = m * a /\ a \in Int
  OBVIOUS
<1>2. (n - a) * m >= m
  BY <1>1
<1>3. (n - a) * m = n * m - a * m
  BY <1>1
<1>4. a * m + b \in 0..(n * m - 1)
  BY <1>1, <1>2, <1>3
<1>5. a * m + b = m * a + b
  BY <1>1
<1> QED
  BY <1>1, <1>4, <1>5, DivUnique

-----------------------------------------------------------------------------
(* Two bytes.                                                              *)

\* A word has two bytes, the high one and the low one.
LEMMA TwoDigits ==
  ASSUME NEW v \in Word2
  PROVE  \E a, b \in Byte : /\ store_be16(v) = <<a, b>> /\ store_le16(v) = <<b, a>>
                            /\ v = a * Base + b
<1> DEFINE a == v \div Base
           b == v % Base
<1>1. Base \in Nat \ {0} /\ v \in 0..(Base * Base - 1)
  BY BasePositive DEF Word2
<1>2. a \in Byte /\ b \in Byte /\ v = Base * a + b
  BY <1>1, QuotientBelow DEF Byte
<1>3. a % Base = a
  BY <1>1, <1>2, SmallRemainder DEF Byte
<1>4. store_be16(v) = <<a, b>> /\ store_le16(v) = <<b, a>>
  BY <1>3 DEF store_be16, store_le16, LowByte
<1> HIDE DEF a, b
<1>5. v = a * Base + b
  BY <1>1, <1>2 DEF Byte
<1> QED
  BY <1>2, <1>4, <1>5

\* Two bytes make a word.
LEMMA TwoBytes ==
  ASSUME NEW a \in Byte, NEW b \in Byte
  PROVE  /\ load_be16(<<a, b>>) = a * Base + b /\ load_le16(<<b, a>>) = a * Base + b
         /\ a * Base + b \in Word2
         /\ store_be16(a * Base + b) = <<a, b>> /\ store_le16(a * Base + b) = <<b, a>>
<1>1. Base \in Nat \ {0}
  BY BasePositive
<1> DEFINE v == a * Base + b
<1>2. v \in Word2 /\ v \div Base = a /\ v % Base = b
  BY <1>1, AppendDigit DEF Byte, Word2
<1>3. load_be16(<<a, b>>) = v /\ load_le16(<<b, a>>) = v
  BY DEF load_be16, load_le16
<1> HIDE DEF v
<1>4. a % Base = a
  BY <1>1, SmallRemainder DEF Byte
<1>5. store_be16(v) = <<a, b>> /\ store_le16(v) = <<b, a>>
  BY <1>2, <1>4 DEF store_be16, store_le16, LowByte
<1> QED
  BY <1>2, <1>3, <1>5 DEF v

\* A 16-bit word survives a store and a load of the same byte order, and the
\* two orders mirror each other.
THEOREM StoreLoad16 ==
  \A v \in Word2 :
    /\ store_be16(v) \in Byte \X Byte
    /\ store_le16(v) = <<store_be16(v)[2], store_be16(v)[1]>>
    /\ load_be16(store_be16(v)) = v /\ load_le16(store_le16(v)) = v
<1> TAKE v \in Word2
<1>1. PICK a, b \in Byte : /\ store_be16(v) = <<a, b>> /\ store_le16(v) = <<b, a>>
                           /\ v = a * Base + b
  BY TwoDigits
<1>2. load_be16(<<a, b>>) = v /\ load_le16(<<b, a>>) = v
  BY <1>1, TwoBytes
<1> QED
  BY <1>1, <1>2

\* Two bytes survive a load and a store: no byte is lost or read twice.
THEOREM LoadStore16 ==
  \A p \in Byte \X Byte :
    /\ load_be16(p) \in Word2 /\ load_le16(p) \in Word2
    /\ store_be16(load_be16(p)) = p /\ store_le16(load_le16(p)) = p
<1> TAKE p \in Byte \X Byte
<1>1. PICK a, b \in Byte : p = <<a, b>>
  OBVIOUS
<1>2. /\ load_be16(<<a, b>>) = a * Base + b /\ a * Base + b \in Word2
      /\ store_be16(a * Base + b) = <<a, b>>
  BY TwoBytes
<1>3. /\ load_le16(<<a, b>>) = b * Base + a /\ b * Base + a \in Word2
      /\ store_le16(b * Base + a) = <<a, b>>
  BY TwoBytes
<1> QED
  BY <1>1, <1>2, <1>3

-----------------------------------------------------------------------------
(* Four bytes.                                                             *)

\* The same number with and without nesting.
LEMMA Horner ==
  ASSUME NEW a \in Byte, NEW b \in Byte, NEW c \in Byte, NEW d \in Byte
  PROVE  a * Base * Base * Base + b * Base * Base + c * Base + d
           = ((a * Base + b) * Base + c) * Base + d
<1>1. Base \in Int /\ a \in Int /\ b \in Int /\ c \in Int /\ d \in Int
  BY BasePositive DEF Byte
<1> QED
  BY <1>1

\* Four digits and the number they make, from the highest.
LEMMA FourBytes ==
  ASSUME NEW a \in Byte, NEW b \in Byte, NEW c \in Byte, NEW d \in Byte,
         NEW v, v = ((a * Base + b) * Base + c) * Base + d
  PROVE  /\ load_be32(<<a, b, c, d>>) = v /\ load_le32(<<d, c, b, a>>) = v
         /\ v \in Word4
         /\ store_be32(v) = <<a, b, c, d>> /\ store_le32(v) = <<d, c, b, a>>
<1> DEFINE x == a * Base + b
           y == x * Base + c
<1>0. /\ Base \in Nat \ {0} /\ Base * Base \in Nat \ {0} /\ Base * Base * Base \in Nat \ {0}
      /\ Base * Base * Base * Base \in Nat \ {0}
  BY BasePositive
<1>1. x \in 0..(Base * Base - 1) /\ x \div Base = a /\ x % Base = b
  BY <1>0, AppendDigit DEF Byte
<1> HIDE DEF x
<1>2. y \in 0..(Base * Base * Base - 1) /\ y \div Base = x /\ y % Base = c
  BY <1>0, <1>1, AppendDigit DEF Byte
<1>3. v = y * Base + d
  BY DEF x
<1> HIDE DEF y
<1>4. v \in 0..(Base * Base * Base * Base - 1) /\ v \div Base = y /\ v % Base = d
  BY <1>0, <1>2, <1>3, AppendDigit DEF Byte
<1>5. v \in Nat /\ y \in Nat
  BY <1>0, <1>2, <1>4
<1>6. v \div (Base * Base) = x
  BY <1>0, <1>2, <1>4, <1>5, NestedDiv
<1>7. v \div (Base * Base * Base) = a
  <2>1. v \div ((Base * Base) * Base) = (v \div (Base * Base)) \div Base
    BY <1>0, <1>5, NestedDiv
  <2> QED
    BY <1>1, <1>6, <2>1
<1>8. a % Base = a
  BY <1>0, SmallRemainder DEF Byte
<1>9. store_be32(v) = <<a, b, c, d>> /\ store_le32(v) = <<d, c, b, a>>
  BY <1>1, <1>2, <1>4, <1>6, <1>7, <1>8 DEF store_be32, store_le32, LowByte
<1>10. v = a * Base * Base * Base + b * Base * Base + c * Base + d
  BY Horner
<1>11. load_be32(<<a, b, c, d>>) = v /\ load_le32(<<d, c, b, a>>) = v
  BY <1>10 DEF load_be32, load_le32
<1> QED
  BY <1>4, <1>9, <1>11 DEF Word4

\* A word has four bytes.
LEMMA FourDigits ==
  ASSUME NEW v \in Word4
  PROVE  \E a, b, c, d \in Byte : v = ((a * Base + b) * Base + c) * Base + d
<1> DEFINE x == v \div Base
           y == x \div Base
<1>0. /\ Base \in Nat \ {0} /\ Base * Base \in Nat \ {0} /\ Base * Base * Base \in Nat \ {0}
      /\ Base * Base * Base * Base = Base * (Base * Base * Base)
      /\ Base * Base * Base = Base * (Base * Base)
  BY BasePositive
<1>1. /\ x \in 0..(Base * Base * Base - 1) /\ v % Base \in Byte
      /\ v = Base * x + (v % Base)
  BY <1>0, QuotientBelow DEF Word4, Byte
<1> HIDE DEF x
<1>2. y \in 0..(Base * Base - 1) /\ x % Base \in Byte /\ x = Base * y + (x % Base)
  BY <1>0, <1>1, QuotientBelow DEF Byte
<1> HIDE DEF y
<1>3. /\ y \div Base \in Byte /\ y % Base \in Byte
      /\ y = Base * (y \div Base) + (y % Base)
  BY <1>0, <1>2, QuotientBelow DEF Byte
<1> DEFINE a == y \div Base
           b == y % Base
           c == x % Base
           d == v % Base
<1>4. /\ a \in Byte /\ b \in Byte /\ c \in Byte /\ d \in Byte
      /\ v = Base * x + d /\ x = Base * y + c /\ y = Base * a + b
  BY <1>1, <1>2, <1>3
<1> HIDE DEF a, b, c, d
<1>5. y = a * Base + b /\ x = y * Base + c /\ v = x * Base + d
  BY <1>0, <1>1, <1>2, <1>4 DEF Byte
<1>6. v = ((a * Base + b) * Base + c) * Base + d
  BY <1>5
<1> QED
  BY <1>4, <1>6

\* The same for 32-bit words.
THEOREM StoreLoad32 ==
  \A v \in Word4 :
    LET be == store_be32(v)
    IN  /\ be \in Byte \X Byte \X Byte \X Byte
        /\ store_le32(v) = <<be[4], be[3], be[2], be[1]>>
        /\ load_be32(be) = v /\ load_le32(store_le32(v)) = v
<1> SUFFICES ASSUME NEW v \in Word4
             PROVE  /\ store_be32(v) \in Byte \X Byte \X Byte \X Byte
                    /\ store_le32(v) = <<store_be32(v)[4], store_be32(v)[3],
                                         store_be32(v)[2], store_be32(v)[1]>>
                    /\ load_be32(store_be32(v)) = v /\ load_le32(store_le32(v)) = v
  OBVIOUS
<1>1. PICK a, b, c, d \in Byte : v = ((a * Base + b) * Base + c) * Base + d
  BY FourDigits
<1>2. /\ load_be32(<<a, b, c, d>>) = v /\ load_le32(<<d, c, b, a>>) = v
      /\ store_be32(v) = <<a, b, c, d>> /\ store_le32(v) = <<d, c, b, a>>
  BY <1>1, FourBytes
<1> QED
  BY <1>2

THEOREM LoadStore32 ==
  \A p \in Byte \X Byte \X Byte \X Byte :
    /\ load_be32(p) \in Word4 /\ load_le32(p) \in Word4
    /\ store_be32(load_be32(p)) = p /\ store_le32(load_le32(p)) = p
<1> TAKE p \in Byte \X Byte \X Byte \X Byte
<1>1. PICK a, b, c, d \in Byte : p = <<a, b, c, d>>
  OBVIOUS
<1>2. PICK v : v = ((a * Base + b) * Base + c) * Base + d
  OBVIOUS
<1>3. PICK w : w = ((d * Base + c) * Base + b) * Base + a
  OBVIOUS
<1>4. /\ load_be32(<<a, b, c, d>>) = v /\ load_le32(<<d, c, b, a>>) = v
      /\ v \in Word4
      /\ store_be32(v) = <<a, b, c, d>> /\ store_le32(v) = <<d, c, b, a>>
  BY <1>2, FourBytes
<1>5. /\ load_be32(<<d, c, b, a>>) = w /\ load_le32(<<a, b, c, d>>) = w
      /\ w \in Word4
      /\ store_be32(w) = <<d, c, b, a>> /\ store_le32(w) = <<a, b, c, d>>
  BY <1>3, FourBytes
<1> QED
  BY <1>1, <1>4, <1>5

-----------------------------------------------------------------------------
(* Signed loads.                                                           *)

\* The cast of a word of n values to the signed type of its width.
LEMMA SignedValue ==
  ASSUME NEW n \in Nat \ {0}, n % 2 = 0, NEW v \in 0..(n - 1)
  PROVE  /\ Signed(v, n) \in -(n \div 2)..(n \div 2 - 1)
         /\ Signed(v, n) = v \/ Signed(v, n) = v - n
  BY DEF Signed

\* Signed loads are the two's complement value of the unsigned ones.
THEOREM SignedLoads ==
  LET Half2 == (Base * Base) \div 2
      Half4 == (Base * Base * Base * Base) \div 2
  IN  /\ \A p \in Byte \X Byte :
           /\ load_be16s(p) \in -Half2..(Half2 - 1) /\ load_le16s(p) \in -Half2..(Half2 - 1)
           /\ load_be16s(p) - load_be16(p) \in {0, -(Base * Base)}
           /\ load_le16s(p) - load_le16(p) \in {0, -(Base * Base)}
      /\ \A p \in Byte \X Byte \X Byte \X Byte :
           /\ load_be32s(p) \in -Half4..(Half4 - 1) /\ load_le32s(p) \in -Half4..(Half4 - 1)
           /\ load_be32s(p) - load_be32(p) \in {0, -(Base * Base * Base * Base)}
           /\ load_le32s(p) - load_le32(p) \in {0, -(Base * Base * Base * Base)}
<1> DEFINE m == Base * Base
           n == Base * Base * Base * Base
<1>1. m \in Nat \ {0} /\ n \in Nat \ {0}
  BY BasePositive
<1>2. m % 2 = 0 /\ n % 2 = 0
  <2>1. PICK k \in Int : Base = 2 * k
    <3>1. 2 \in Nat \ {0} /\ Base \in Int /\ Base % 2 = 0
      BY BaseAssumption
    <3>2. Base \div 2 \in Int /\ Base = 2 * (Base \div 2) + (Base % 2)
      BY <3>1, DivMod
    <3>3. Base = 2 * (Base \div 2)
      BY <3>1, <3>2
    <3> QED
      BY <3>2, <3>3, Zenon
  <2>2. m = 2 * (k * Base) /\ k * Base \in Int
    BY <2>1, BasePositive
  <2>3. n = 2 * (k * Base * Base * Base) /\ k * Base * Base * Base \in Int
    BY <2>1, BasePositive
  <2> HIDE DEF m, n
  <2> QED
    BY <2>2, <2>3
<1> HIDE DEF m, n
<1>3. ASSUME NEW w \in Nat \ {0}, w % 2 = 0, NEW v \in 0..(w - 1)
      PROVE  /\ Signed(v, w) \in -(w \div 2)..(w \div 2 - 1)
             /\ Signed(v, w) - v \in {0, -w}
  BY <1>3, SignedValue
<1>4. \A p \in Byte \X Byte : load_be16(p) \in 0..(m - 1) /\ load_le16(p) \in 0..(m - 1)
  BY LoadStore16 DEF Word2, m
<1>5. \A p \in Byte \X Byte \X Byte \X Byte :
        load_be32(p) \in 0..(n - 1) /\ load_le32(p) \in 0..(n - 1)
  BY LoadStore32 DEF Word4, n
<1>6. \A p \in Byte \X Byte :
        /\ Signed(load_be16(p), m) \in -(m \div 2)..(m \div 2 - 1)
        /\ Signed(load_le16(p), m) \in -(m \div 2)..(m \div 2 - 1)
        /\ Signed(load_be16(p), m) - load_be16(p) \in {0, -m}
        /\ Signed(load_le16(p), m) - load_le16(p) \in {0, -m}
  BY <1>1, <1>2, <1>3, <1>4
<1>7. \A p \in Byte \X Byte \X Byte \X Byte :
        /\ Signed(load_be32(p), n) \in -(n \div 2)..(n \div 2 - 1)
        /\ Signed(load_le32(p), n) \in -(n \div 2)..(n \div 2 - 1)
        /\ Signed(load_be32(p), n) - load_be32(p) \in {0, -n}
        /\ Signed(load_le32(p), n) - load_le32(p) \in {0, -n}
  BY <1>1, <1>2, <1>3, <1>5
<1> QED
  BY <1>6, <1>7 DEF m, n, load_be16s, load_le16s, load_be32s, load_le32s
=============================================================================
