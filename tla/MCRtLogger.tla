----------------------------- MODULE MCRtLogger -----------------------------
(***************************************************************************)
(* RtLogger for TLC: two levels, so that the filter can pass and refuse,   *)
(* and a few more calls than the ring has slots, so that it wraps, fills   *)
(* and drops.  The number of calls is the only bound.                      *)
(***************************************************************************)
EXTENDS RtLogger

\* kInfo (the default) and kError.
TwoLevels == {2, 4}
OneLevel  == {2}
=============================================================================
