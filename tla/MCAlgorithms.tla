---------------------------- MODULE MCAlgorithms ----------------------------
(***************************************************************************)
(* The pure algorithms against their reference definitions, over bounded   *)
(* inputs.  A state is one input: a frame that grows byte by byte, a word  *)
(* to store and load, a requested ring capacity, a record to format, or a  *)
(* build and an environment that decide what is logged.                    *)
(***************************************************************************)
EXTENDS ByteOrder, Checksum, RtWords, Settings, FiniteSets

CONSTANTS
  FrameBytes,     \* bytes the frames are made of
  MaxFrame,       \* bound on the length of a frame
  WordBits        \* width of the words of the rounding loop

VARIABLE input

\* Byte order at a width where TLC can try every 32-bit word.
Narrow == INSTANCE ByteOrder WITH Base <- 8

Frame(data) == [kind |-> "frame", data |-> data]
CheckString == <<49, 50, 51, 52, 53, 54, 55, 56, 57>>   \* "123456789"

Texts == LevelTexts \cup {""}
Environment(text) == IF text = "" THEN [v \in {} |-> ""]
                                  ELSE [v \in {"XLOG_LEVEL"} |-> text]

Init ==
  \/ input \in {Frame(<< >>), Frame(CheckString)}
  \/ input \in [kind : {"word"}, value : Narrow!Word4]
  \/ input \in [kind : {"size"}, n : 0..(2^WordBits - 1)]
  \/ input \in [kind : {"format"}, cap : {0, 1, 26, 27, 28, 256, 65535},
                size : {0, 1, 255, 256, 257, 65536}, throws : BOOLEAN]
  \/ input \in [kind : {"build"}, enabled : BOOLEAN, active : 0..6, text : Texts]

Grow ==
  /\ input.kind = "frame" /\ Len(input.data) < MaxFrame
  /\ \E byte \in FrameBytes : input' = Frame(Append(input.data, byte))

Next == Grow \/ UNCHANGED input

Spec == Init /\ [][Next]_input

-----------------------------------------------------------------------------
(* Properties.                                                             *)

IsFrame == input.kind = "frame"

\* The two shift registers compute the remainders they are named after, and on
\* "123456789" the catalogued check values that the header quotes.  A receiver
\* can check a frame without knowing where the check begins: over a frame with
\* its CRC-8, or its CRC-16 stored big-endian, the check is 0, and a frame's
\* bytes with the inverted sum add up to 255.
Checksums ==
  IsFrame =>
    /\ IF input.data = CheckString
       THEN crc8_maxim(input.data) = 161 /\ crc16_xmodem(input.data) = 12739
       ELSE /\ crc8_maxim(input.data) = Crc8Reference(input.data)
            /\ crc16_xmodem(input.data) = Crc16Reference(input.data)
    /\ crc8_maxim(Append(input.data, crc8_maxim(input.data))) = 0
    /\ crc16_xmodem(input.data \o store_be16(crc16_xmodem(input.data))) = 0
    /\ FoldLeft(LAMBDA sum, byte : sum + byte, checksum_inverted_sum(input.data),
                input.data) % 256 = 255

\* Every word survives a store and a load of the same byte order, the two
\* orders mirror each other, and signed loads are the two's complement value.
ByteOrders ==
  input.kind = "word" =>
    LET v  == input.value
        h  == v * 16 + (v % 16)      \* a 16-bit word of full-width bytes
        be == Narrow!store_be32(v)
    IN  /\ Narrow!load_be32(be) = v /\ Narrow!load_le32(Narrow!store_le32(v)) = v
        /\ Narrow!store_le32(v) = Reverse(be)
        /\ load_be16(store_be16(h)) = h /\ load_le16(store_le16(h)) = h
        /\ store_le16(h) = Reverse(store_be16(h))
        /\ Narrow!load_be32s(be) \in -2048..2047 /\ (Narrow!load_be32s(be) - v) % 4096 = 0
        /\ Narrow!load_le32s(be) = Narrow!load_be32s(Reverse(be))
        /\ load_be16s(store_be16(h)) \in -32768..32767
        /\ (load_be16s(store_be16(h)) - h) % 65536 = 0
        /\ load_le16s(store_le16(h)) = load_be16s(store_be16(h))

\* What one side of a link stores, the other loads and finds intact: both
\* parts of the serialization library are exact.
SerializationExact == Checksums /\ ByteOrders

\* Up to half the range of size_t the rounding loop ends with the least power
\* of two that is large enough; above it the loop never ends.  The mask is then
\* the remainder, also where the index itself wraps, and the distance of two
\* indices is right across the wrap.
RingArithmetic ==
  input.kind = "size" =>
    LET n   == input.n
        cap == RoundUp(n, WordBits)
        W   == 2^WordBits
    IN  IF n > W \div 2 THEN cap = 0
        ELSE /\ cap >= n /\ \E k \in 0..(WordBits - 1) : cap = 2^k
             /\ cap = 1 \/ cap \div 2 < n
             /\ \A i \in 0..(W - 1) :
                  /\ MaskedSlot(i, cap) = i % cap
                  /\ MaskedSlot((i + 1) % W, cap) = (MaskedSlot(i, cap) + 1) % cap
                  /\ \A used \in 0..cap : (((i + used) % W) - i) % W = used

\* A formatted record never overruns its slot and keeps all that fits; a format
\* error leaves the diagnostic and the record is still published.
FormatFits ==
  input.kind = "format" =>
    LET len  == FormatInto(input.cap, input.size, input.throws)
        want == IF input.throws THEN ErrLen ELSE input.size
    IN  len <= input.cap /\ len <= want /\ (len = input.cap \/ len = want)

SoftLogs(n, runtime) ==
  LET level == XLOG_Sites[n].level
  IN  /\ XLOG_Site(input.enabled, input.active, n)
      /\ LogCase(level) /\ ShouldLog(runtime, level)
HardLogs(n, runtime) ==
  XLOG_RT_Site(input.enabled, input.active, n) /\ XLOG_RT_Sites[n].level >= runtime

\* In one build and environment each of the twelve macros XLOG_* and XLOG_RT_*
\* logs as the one of its name in the other family does: all levels log from
\* the higher of the compile-time floor and XLOG_LEVEL up, where a text
\* without a number from 0 to 6 counts as the default.  All paths give a level
\* the same spdlog name, XLOG_GET_LEVEL() returns what XLOG_LEVEL() set, and an
\* int that is no level turns logging off.
PathsAgree ==
  input.kind = "build" =>
    LET lv == ResolveLogLevelFromEnv(Environment(input.text), default_log_level)
        asked == strtol(input.text)
    IN  /\ \A level \in 0..5 :
             /\ SoftLogs(level + 1, ToSpdlogLevel(lv)) <=> HardLogs(level + 1, lv)
             /\ HardLogs(level + 1, lv) <=>
                  /\ input.enabled /\ level >= input.active
                  /\ level >= IF asked[1] /\ asked[2] \in 0..6 THEN asked[2] ELSE kInfo
        /\ \A level \in -1..8 :
             /\ ToSpdlogLevel(level) = RtToSpdlogLevel(level)
             /\ ToSpdlogLevel(level) = MpscToSpdlogLevel(level)
             /\ FromSpdlogLevel(ToSpdlogLevel(level))
                  = IF level \in 0..6 THEN level ELSE kOff
=============================================================================
