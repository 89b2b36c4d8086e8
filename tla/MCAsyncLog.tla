----------------------------- MODULE MCAsyncLog -----------------------------
(***************************************************************************)
(* AsyncLog for TLC: data loggers with one prefix, so that their names can *)
(* collide, and a queue that a few calls fill.                             *)
(***************************************************************************)
EXTENDS AsyncLog

OnePrefix == [d \in Data |-> "prefix"]

\* XLOG_LEVEL is not set.
NotSet == {[v \in {} |-> ""]}

\* kDebug, below the compile-time floor of kInfo; kInfo; kError.
ThreeLevels == {1, 2, 4}
InfoOnly == {2}
=============================================================================
