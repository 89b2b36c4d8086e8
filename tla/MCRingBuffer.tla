---------------------------- MODULE MCRingBuffer ----------------------------
(***************************************************************************)
(* RingBuffer for TLC.  The indices wrap, so the state space is finite     *)
(* without a bound on the number of calls.                                 *)
(***************************************************************************)
EXTENDS RingBuffer
=============================================================================
