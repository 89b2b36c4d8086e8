------------------------------ MODULE RtCommon ------------------------------
(***************************************************************************)
(* What RtLogger and MpscRtLogger share: the log levels, the rounding of   *)
(* the requested capacity, the masked slot index and the shape of a        *)
(* record.                                                                 *)
(***************************************************************************)
EXTENDS Integers, Sequences

CONSTANTS RingCapacity,  \* the constructor's ring_capacity argument
          Levels         \* the LogLevel values in use

\* enum class LogLevel: kTrace = 0 .. kOff = 6.
LogLevel == 0..6

\* The constructor's loop  cap = 1; while (cap < n) cap <<= 1.
RoundUpToPow2(n) ==
  LET powers == {2^k : k \in 0..n}
  IN  CHOOSE c \in powers : c >= n /\ \A d \in powers : d >= n => c <= d

Capacity == RoundUpToPow2(RingCapacity)

ASSUME RingAssumption == RingCapacity \in Nat /\ Capacity \in Nat \ {0}
ASSUME LevelsAssumption == Levels \subseteq LogLevel

\* index & mask_ : Capacity is a power of two.
Slots == 0..(Capacity - 1)
Slot(i) == i % Capacity

(***************************************************************************)
(* A slot's fields are written one after another and are not atomic: meta  *)
(* stands for time and level, text for msg and len (what FormatInto wrote, *)
(* possibly clipped or replaced by its diagnostic).  Each holds the        *)
(* identity of the Log() call that wrote it, so a record mixed from two    *)
(* calls can be told from a whole one.                                     *)
(***************************************************************************)
Whole(id) == [meta |-> id, text |-> id]
=============================================================================
