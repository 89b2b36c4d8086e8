------------------------------ MODULE RtWords -------------------------------
(***************************************************************************)
(* The fixed-width arithmetic of the hard real-time loggers, which         *)
(* RtLogger and MpscRtLogger take for granted: the rounding loop of the    *)
(* constructors in a size_t of w bits, the masked slot index, and the      *)
(* length FormatInto() returns.                                            *)
(***************************************************************************)
EXTENDS Integers, Bitwise

\* Faulty form of RoundUp: <= in place of <.
RoundUpTwice(n, w) ==
  LET cap[k \in 0..(w + 1)] ==
        IF k = 0 THEN 1
        ELSE IF cap[k - 1] <= n THEN (cap[k - 1] * 2) % 2^w ELSE cap[k - 1]
  IN  cap[w + 1]

\* cap after w + 1 rounds of  while (cap < n) cap <<= 1  from cap = 1.  If it
\* is still below n then, it is 0 and the loop never ends.
RoundUp(n, w) ==
  LET cap[k \in 0..(w + 1)] ==
        IF k = 0 THEN 1
        ELSE IF cap[k - 1] < n THEN (cap[k - 1] * 2) % 2^w ELSE cap[k - 1]
  IN  cap[w + 1]

\* ring_[index & mask_] with mask_ = cap - 1.
MaskedSlot(index, cap) == index & (cap - 1)

ErrLen == 27   \* "[xmsigma: log format error]"

\* Faulty form of FormatInto: the size the text would have had.
FormatIntoUnclipped(cap, size, throws) ==
  IF throws THEN IF ErrLen > cap THEN cap ELSE ErrLen
  ELSE size % 2^16

\* The uint16_t length of what is in the slot: the text clipped to cap, or the
\* diagnostic if formatting threw, clipped as well.
FormatInto(cap, size, throws) ==
  IF throws THEN (IF ErrLen > cap THEN cap ELSE ErrLen) % 2^16
  ELSE (IF size < cap THEN size ELSE cap) % 2^16
=============================================================================
