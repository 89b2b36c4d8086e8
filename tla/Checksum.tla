------------------------------ MODULE Checksum ------------------------------
(***************************************************************************)
(* serialization/checksum.hpp, and what the two cyclic checks are defined  *)
(* to be: remainders of polynomials over GF(2).  Data is a sequence of     *)
(* bytes; registers keep their widths of 8 and 16 bits.                    *)
(***************************************************************************)
EXTENDS Integers, Sequences, SequencesExt, Bitwise

\* The inner loop of crc8_maxim: eight times one bit, least significant first.
Crc8Bit(crc) == IF crc % 2 = 1 THEN (crc \div 2) ^^ 140 ELSE crc \div 2

\* Faulty form of Crc8Byte: seven bits.
Crc8ByteShort(crc, byte) ==
  LET reg[b \in 0..7] == IF b = 0 THEN crc ^^ byte ELSE Crc8Bit(reg[b - 1])
  IN  reg[7]

Crc8Byte(crc, byte) ==
  LET reg[b \in 0..8] == IF b = 0 THEN crc ^^ byte ELSE Crc8Bit(reg[b - 1])
  IN  reg[8]

crc8_maxim(data) ==
  LET reg[i \in 0..Len(data)] == IF i = 0 THEN 0 ELSE Crc8Byte(reg[i - 1], data[i])
  IN  reg[Len(data)]

\* The same for crc16_xmodem, most significant bit first.
Crc16Bit(crc) ==
  IF crc >= 32768 THEN ((crc * 2) % 65536) ^^ 4129 ELSE crc * 2

Crc16Byte(crc, byte) ==
  LET reg[b \in 0..8] == IF b = 0 THEN crc ^^ (byte * 256) ELSE Crc16Bit(reg[b - 1])
  IN  reg[8]

crc16_xmodem(data) ==
  LET reg[i \in 0..Len(data)] == IF i = 0 THEN 0 ELSE Crc16Byte(reg[i - 1], data[i])
  IN  reg[Len(data)]

\* ~sum in eight bits.
checksum_inverted_sum(data) ==
  255 - FoldLeft(LAMBDA sum, byte : (sum + byte) % 256, 0, data)

-----------------------------------------------------------------------------
(* Reference: the message as a polynomial, its coefficients a sequence of  *)
(* bits from the highest power down, multiplied by x^n and divided by the  *)
(* generator of degree n.                                                  *)

BitsMsbFirst(byte) == [i \in 1..8 |-> (byte \div 2^(8 - i)) % 2]
BitsLsbFirst(byte) == [i \in 1..8 |-> (byte \div 2^(i - 1)) % 2]

\* One step of long division: cancel the highest coefficient.
Cancel(bits, gen) ==
  IF Head(bits) = 0 THEN Tail(bits)
  ELSE Tail([i \in DOMAIN bits |->
               IF i <= Len(gen) THEN (bits[i] + gen[i]) % 2 ELSE bits[i]])

Remainder(bits, gen) ==
  FoldLeft(LAMBDA rest, b : Cancel(rest, gen),
           bits \o [i \in 1..(Len(gen) - 1) |-> 0], bits)

Number(bits) == FoldLeft(LAMBDA n, b : 2 * n + b, 0, bits)

\* x^8 + x^5 + x^4 + 1, bits of a byte least significant first throughout.
MaximGenerator == <<1, 0, 0, 1, 1, 0, 0, 0, 1>>
Crc8Reference(data) ==
  Number(Reverse(Remainder(FlattenSeq([i \in DOMAIN data |-> BitsLsbFirst(data[i])]),
                           MaximGenerator)))

\* x^16 + x^12 + x^5 + 1.
XmodemGenerator == <<1, 0, 0, 0, 1, 0, 0, 0, 0, 0, 0, 1, 0, 0, 0, 0, 1>>
Crc16Reference(data) ==
  Number(Remainder(FlattenSeq([i \in DOMAIN data |-> BitsMsbFirst(data[i])]),
                   XmodemGenerator))
=============================================================================
