----------------------------- MODULE LogChannel -----------------------------
(***************************************************************************)
(* What a hard-real-time logger promises its callers, whatever ring it is  *)
(* built on: a bounded first-in first-out channel from Log() to the sink.  *)
(* A record is accepted only when one of Capacity places is free, is       *)
(* dropped (and counted) only when none is, and every accepted record      *)
(* reaches the sink at most once, whole, and in the order of acceptance.   *)
(* A place is given back only after its record is in the sink.             *)
(*                                                                         *)
(* RtLogger and MpscRtLogger are both shown to implement this module.      *)
(***************************************************************************)
EXTENDS Integers, Sequences

CONSTANTS Capacity,   \* number of places
          Records     \* what can be logged

VARIABLES accepted,   \* every record ever accepted, in order
          delivered,  \* what the sink received, in order
          released,   \* how many places were given back
          lost        \* how many records were dropped

vars == <<accepted, delivered, released, lost>>

Occupied == Len(accepted) - released

Init ==
  /\ accepted = << >>
  /\ delivered = << >>
  /\ released = 0
  /\ lost = 0

Accept(r) ==
  /\ Occupied < Capacity
  /\ \A i \in DOMAIN accepted : accepted[i] # r
  /\ accepted' = Append(accepted, r)
  /\ UNCHANGED <<delivered, released, lost>>

Drop ==
  /\ Occupied >= Capacity
  /\ lost' = lost + 1
  /\ UNCHANGED <<accepted, delivered, released>>

Deliver ==
  /\ Len(delivered) = released
  /\ Len(delivered) < Len(accepted)
  /\ delivered' = Append(delivered, accepted[Len(delivered) + 1])
  /\ UNCHANGED <<accepted, released, lost>>

Release ==
  /\ released < Len(delivered)
  /\ released' = released + 1
  /\ UNCHANGED <<accepted, delivered, lost>>

Next ==
  \/ \E r \in Records : Accept(r)
  \/ Drop
  \/ Deliver
  \/ Release

Spec == Init /\ [][Next]_vars
=============================================================================
