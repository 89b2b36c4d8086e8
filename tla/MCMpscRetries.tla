--------------------------- MODULE MCMpscRetries ----------------------------
(***************************************************************************)
(* MpscRtLogger with a count of how often the current Log() call of each   *)
(* producer went round its claim loop because another producer took the    *)
(* position first (a lost exchange or a stale position).                   *)
(***************************************************************************)
EXTENDS MpscRtLogger

VARIABLE losses

OneLevel == {2}

RetryInit == Init /\ losses = [p \in Producers |-> 0]

Lost(p) == LogClaimLost(p) \/ LogBehind(p)

RetryNext ==
  /\ Next
  /\ losses' = [p \in Producers |->
                  IF pc[p] = "idle" THEN 0
                  ELSE losses[p] + (IF Lost(p) THEN 1 ELSE 0)]

RetrySpec == RetryInit /\ [][RetryNext]_<<vars, losses>>

\* "A lost race means another producer made progress, so it retries at most
\* once per competing producer": no call of Log() loses its position more
\* often than there are other producers.  Broken by a competitor that logs
\* twice meanwhile.
RetriesBounded == \A p \in Producers : losses[p] <= Cardinality(Producers) - 1
=============================================================================
