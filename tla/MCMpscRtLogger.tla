--------------------------- MODULE MCMpscRtLogger ---------------------------
(***************************************************************************)
(* MpscRtLogger for TLC.                                                   *)
(***************************************************************************)
EXTENDS MpscRtLogger, TLC

\* kInfo (the default) and kError.
TwoLevels == {2, 4}
OneLevel  == {2}

\* The producers are interchangeable.
Symmetry == Permutations(Producers)
=============================================================================
