----------------------------- MODULE ByteOrder ------------------------------
(***************************************************************************)
(* serialization/byte_order.hpp.  A buffer is the sequence of its bytes    *)
(* (p[0] is its first element); a store returns the bytes it writes.  A    *)
(* byte has Base values: 256 in the code, a parameter here because TLC's   *)
(* integers end below 2^32.  Shifts are products and quotients, and        *)
(* the or of bytes that do not overlap is their sum.                       *)
(***************************************************************************)
EXTENDS Integers, Sequences

CONSTANT Base

ASSUME BaseAssumption == Base \in Nat /\ Base % 2 = 0 /\ Base > 0

Byte  == 0..(Base - 1)
Word2 == 0..(Base * Base - 1)
Word4 == 0..(Base * Base * Base * Base - 1)

load_be16(p) == p[1] * Base + p[2]
load_be32(p) == p[1] * Base * Base * Base + p[2] * Base * Base + p[3] * Base + p[4]
load_le16(p) == p[2] * Base + p[1]
load_le32(p) == p[4] * Base * Base * Base + p[3] * Base * Base + p[2] * Base + p[1]

\* static_cast to the signed type of the same width, of n values.
Signed(v, n) == IF v >= n \div 2 THEN v - n ELSE v

load_be16s(p) == Signed(load_be16(p), Base * Base)
load_be32s(p) == Signed(load_be32(p), Base * Base * Base * Base)
load_le16s(p) == Signed(load_le16(p), Base * Base)
load_le32s(p) == Signed(load_le32(p), Base * Base * Base * Base)

\* static_cast<uint8_t>.
LowByte(v) == v % Base

store_be16(v) == <<LowByte(v \div Base), LowByte(v)>>

store_be32(v) == <<LowByte(v \div (Base * Base * Base)), LowByte(v \div (Base * Base)),
                   LowByte(v \div Base), LowByte(v)>>

store_le16(v) == <<LowByte(v), LowByte(v \div Base)>>

store_le32(v) == <<LowByte(v), LowByte(v \div Base), LowByte(v \div (Base * Base)),
                   LowByte(v \div (Base * Base * Base))>>
=============================================================================
