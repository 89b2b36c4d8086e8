------------------------------ MODULE LossyLog ------------------------------
(***************************************************************************)
(* What the asynchronous loggers promise together, whatever thread pools   *)
(* and queues are behind them: a record that is posted waits until it is   *)
(* written to the sinks of its logger or lost, one of the two and once.  A *)
(* poster's records are written in the order it made them, none is written *)
(* or lost before an older one, nothing is written that was not posted,    *)
(* and what is written stays.  Flushes only make what is written durable.  *)
(* A post or a flush loses at most one record, of any logger, and only if  *)
(* there is a logger that overruns: a post, only if it is that logger's.   *)
(*                                                                         *)
(* AsyncLog is shown to implement this module.                             *)
(***************************************************************************)
EXTENDS Integers, Sequences

CONSTANTS Loggers,
          Overrunning,  \* the loggers that do not wait for room
          Entries       \* records: of logger from, made by by, numbered id

VARIABLES pending,      \* records posted and neither written nor lost
          sunk,         \* records in the sinks of each logger, in order
          durable,      \* how many of them are on disk
          lost          \* records lost

vars == <<pending, sunk, durable, lost>>

Older(r, s) == r.from = s.from /\ r.by = s.by /\ r.id < s.id
Oldest(r)   == r \in pending /\ \A s \in pending : ~Older(s, r)

Newer(r, S) == \A s \in S : s.id # r.id /\ ~Older(r, s)
New(r) ==
  /\ Newer(r, pending) /\ Newer(r, lost)
  /\ \A l \in Loggers : Newer(r, {sunk[l][i] : i \in DOMAIN sunk[l]})

Init ==
  /\ pending = {} /\ lost = {}
  /\ sunk = [l \in Loggers |-> << >>] /\ durable = [l \in Loggers |-> 0]

Post(r) ==
  /\ New(r)
  /\ pending' = pending \cup {r}
  /\ UNCHANGED <<sunk, durable, lost>>

PostLosing(r, e) ==
  /\ r.from \in Overrunning
  /\ New(r) /\ Oldest(e)
  /\ pending' = (pending \ {e}) \cup {r}
  /\ lost' = lost \cup {e}
  /\ UNCHANGED <<sunk, durable>>

\* A flush, by a logger that overruns, takes the place of a record.
Lose(e) ==
  /\ Overrunning # {} /\ Oldest(e)
  /\ pending' = pending \ {e}
  /\ lost' = lost \cup {e}
  /\ UNCHANGED <<sunk, durable>>

Write(r) ==
  /\ Oldest(r)
  /\ pending' = pending \ {r}
  /\ sunk' = [sunk EXCEPT ![r.from] = Append(@, r)]
  /\ durable' \in {durable, [durable EXCEPT ![r.from] = Len(sunk'[r.from])]}
  /\ UNCHANGED lost

Sync(l) ==
  /\ durable' = [durable EXCEPT ![l] = Len(sunk[l])]
  /\ UNCHANGED <<pending, sunk, lost>>

\* The record posted is pending afterwards: no other record need be tried.
Next ==
  \/ \E e \in pending : Lose(e) \/ Write(e)
  \/ \E r \in Entries \cap pending' : Post(r) \/ \E e \in pending : PostLosing(r, e)
  \/ \E l \in Loggers : Sync(l)

Spec == Init /\ [][Next]_vars
=============================================================================
