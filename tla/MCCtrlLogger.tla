---------------------------- MODULE MCCtrlLogger ----------------------------
(***************************************************************************)
(* CtrlLogger for TLC: enough names to add one after a header, enough      *)
(* lines for two headers with rows under both.                             *)
(***************************************************************************)
EXTENDS CtrlLogger
=============================================================================
