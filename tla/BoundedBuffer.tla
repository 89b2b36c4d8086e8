--------------------------- MODULE BoundedBuffer ----------------------------
(***************************************************************************)
(* What RingBuffer promises: a queue of at most Limit elements on which    *)
(* every call, bursts included, takes effect at once.  A write to a full   *)
(* queue pushes the oldest elements out when overwriting is enabled and is *)
(* cut short when it is not.                                               *)
(***************************************************************************)
EXTENDS Integers, Sequences, SequencesExt

CONSTANTS Limit, Values, MaxBurst

VARIABLES mode,    \* whether a write to a full queue overwrites
          queue,   \* the elements held, oldest first
          result   \* of the last call: the number of elements it asked for,
                  \* and those it was given or stored

vars == <<mode, queue, result>>

Newest(s, k) == SubSeq(s, Len(s) - Min({k, Len(s)}) + 1, Len(s))
Oldest(s, k) == SubSeq(s, 1, Min({k, Len(s)}))

Returned(n, s) == [asked |-> n, given |-> s]

Init == mode \in BOOLEAN /\ queue = << >> /\ result = Returned(0, << >>)

\* A call begins; the previous result is forgotten.
Call ==
  /\ result' = Returned(0, << >>)
  /\ UNCHANGED <<mode, queue>>

\* Of n elements s were stored: all of them if overwriting is enabled, else
\* those there was room for.
Write(n, s) ==
  /\ Len(s) = IF mode THEN n ELSE Min({n, Limit - Len(queue)})
  /\ result' = Returned(n, s)
  /\ queue' = Newest(queue \o s, Limit)
  /\ UNCHANGED mode

Read(n) ==
  /\ result' = Returned(n, Oldest(queue, n))
  /\ queue' = Newest(queue, Len(queue) - Min({n, Len(queue)}))
  /\ UNCHANGED mode

Peek(n) ==
  /\ result' = Returned(n, Oldest(queue, n))
  /\ UNCHANGED <<mode, queue>>

PeekAt(n) ==
  /\ result' = Returned(1, IF n < Len(queue) THEN <<queue[n + 1]>> ELSE << >>)
  /\ UNCHANGED <<mode, queue>>

Reset ==
  /\ queue' = << >>
  /\ result' = Returned(0, << >>)
  /\ UNCHANGED mode

Next ==
  \/ Call \/ Reset
  \/ \E n \in 0..MaxBurst : Read(n) \/ Peek(n) \/ PeekAt(n)
  \/ \E n \in 0..MaxBurst, s \in BoundedSeq(Values, MaxBurst) : Write(n, s)

Spec == Init /\ [][Next]_vars
=============================================================================
