---------------------------- MODULE MpscRtLogger ----------------------------
(***************************************************************************)
(* xmotion::MpscRtLogger: a bounded ring with a sequence number per cell,  *)
(* any number of producers and one drain thread.                           *)
(*                                                                         *)
(* A producer loads enqueue_pos_, reads the cell's sequence, claims the    *)
(* cell with a compare-and-swap, fills it and publishes it by advancing    *)
(* the sequence.  The drain thread takes cells in claim order and frees    *)
(* them by advancing the sequence by a whole lap.  Each atomic access is   *)
(* one step; the plain fields of a cell are written and read in two.       *)
(***************************************************************************)
EXTENDS RtCommon, FiniteSets

CONSTANTS Producers,    \* threads that call Log()
          MaxCalls      \* bound on the number of Log() calls

ASSUME MaxCallsAssumption == MaxCalls \in Nat

VARIABLES
  enqueue_pos, dequeue_pos,   \* enqueue_pos_, dequeue_pos_
  dropped,                    \* dropped_
  running,                    \* running_
  min_level,                  \* min_level_
  sequence,                   \* sequence of each cell of cells_
  cells,                      \* the plain fields of each cell of cells_
  sink, synced,               \* records in the sink; how many are flushed
  pc, pos,                    \* producers: place in Log(), local pos
  dpc, dmeta,                 \* drain thread: place in DrainLoop(), meta read
  opc, seen,                  \* owner: place in Flush()/destructor
  calls,                      \* history: Log() calls of each producer
  logged, filtered,           \* history: all Log() calls, the filtered ones
  accepted,                   \* history: records claimed, in claim order
  mark                        \* history: claims when Flush() was called

members   == <<enqueue_pos, dequeue_pos, dropped, running, min_level,
               sequence, cells>>
producers == <<pc, pos, calls, logged, filtered, accepted>>
drain     == <<dpc, dmeta>>
owner     == <<opc, seen, mark>>
output    == <<sink, synced>>
vars      == <<members, producers, drain, owner, output>>

\* A record is identified by its producer and the number of the call.
None == <<"none", 0>>
Id(p) == <<p, calls[p]>>

Init ==
  /\ enqueue_pos = 0 /\ dequeue_pos = 0 /\ dropped = 0
  /\ running = TRUE
  /\ min_level \in Levels
  /\ sequence = [s \in Slots |-> s]
  /\ cells = [s \in Slots |-> Whole(None)]
  /\ sink = << >> /\ synced = 0
  /\ pc = [p \in Producers |-> "idle"]
  /\ pos = [p \in Producers |-> 0]
  /\ dpc = "load" /\ dmeta = None
  /\ opc = "idle" /\ seen = 0 /\ mark = 0
  /\ calls = [p \in Producers |-> 0]
  /\ logged = 0 /\ filtered = 0
  /\ accepted = << >>

Alive == opc \notin {"join", "destroyed"}

-----------------------------------------------------------------------------
(* A producer: Log().                                                      *)

LogFiltered(p) ==
  /\ pc[p] = "idle" /\ Alive /\ logged < MaxCalls
  /\ \E level \in Levels : level < min_level
  /\ calls' = [calls EXCEPT ![p] = @ + 1]
  /\ logged' = logged + 1
  /\ filtered' = filtered + 1
  /\ UNCHANGED <<members, pc, pos, accepted, drain, owner, output>>

LogLoadPos(p) ==
  /\ pc[p] = "idle" /\ Alive /\ logged < MaxCalls
  /\ \E level \in Levels : level >= min_level
  /\ calls' = [calls EXCEPT ![p] = @ + 1]
  /\ logged' = logged + 1
  /\ pos' = [pos EXCEPT ![p] = enqueue_pos]
  /\ pc' = [pc EXCEPT ![p] = "seq"]
  /\ UNCHANGED <<members, filtered, accepted, drain, owner, output>>

\* seq - pos for the cell that pos selects, as signed integers.
Diff(p) == sequence[Slot(pos[p])] - pos[p]

\* Faulty form of LogCellFree: a cell still in use a lap behind passes too.
LogCellFreeOrFull(p) ==
  /\ pc[p] = "seq" /\ Diff(p) <= 0
  /\ pc' = [pc EXCEPT ![p] = "cas"]
  /\ UNCHANGED <<members, pos, calls, logged, filtered, accepted, drain, owner,
                 output>>

\* diff == 0: the cell is free for this pos; try to claim it.
LogCellFree(p) ==
  /\ pc[p] = "seq"
  /\ Diff(p) = 0
  /\ pc' = [pc EXCEPT ![p] = "cas"]
  /\ UNCHANGED <<members, pos, calls, logged, filtered, accepted, drain,
                 owner, output>>

\* Faulty forms of LogFull: a lost race counts as full; the drop is not counted.
LogFullOrBehind(p) ==
  /\ pc[p] = "seq" /\ Diff(p) # 0
  /\ dropped' = dropped + 1
  /\ pc' = [pc EXCEPT ![p] = "idle"]
  /\ UNCHANGED <<enqueue_pos, dequeue_pos, running, min_level, sequence, cells,
                 pos, calls, logged, filtered, accepted, drain, owner, output>>
LogFullUncounted(p) ==
  /\ pc[p] = "seq" /\ Diff(p) < 0
  /\ pc' = [pc EXCEPT ![p] = "idle"]
  /\ UNCHANGED <<members, pos, calls, logged, filtered, accepted, drain, owner,
                 output>>

\* diff < 0: ring full.
LogFull(p) ==
  /\ pc[p] = "seq"
  /\ Diff(p) < 0
  /\ dropped' = dropped + 1
  /\ pc' = [pc EXCEPT ![p] = "idle"]
  /\ UNCHANGED <<enqueue_pos, dequeue_pos, running, min_level, sequence,
                 cells, pos, calls, logged, filtered, accepted, drain, owner,
                 output>>

\* Faulty form of LogBehind: the stale position is tried again.
LogBehindSpins(p) ==
  /\ pc[p] = "seq" /\ Diff(p) > 0
  /\ UNCHANGED vars

\* diff > 0: another producer took the cell; load enqueue_pos_ again.
LogBehind(p) ==
  /\ pc[p] = "seq"
  /\ Diff(p) > 0
  /\ pc' = [pc EXCEPT ![p] = "reload"]
  /\ UNCHANGED <<members, pos, calls, logged, filtered, accepted, drain,
                 owner, output>>

LogReload(p) ==
  /\ pc[p] = "reload"
  /\ pos' = [pos EXCEPT ![p] = enqueue_pos]
  /\ pc' = [pc EXCEPT ![p] = "seq"]
  /\ UNCHANGED <<members, calls, logged, filtered, accepted, drain, owner,
                 output>>

\* Faulty form of LogClaim: a plain store instead of the exchange.
LogClaimStore(p) ==
  /\ pc[p] = "cas"
  /\ enqueue_pos' = pos[p] + 1
  /\ accepted' = Append(accepted, Whole(Id(p)))
  /\ pc' = [pc EXCEPT ![p] = "meta"]
  /\ UNCHANGED <<dequeue_pos, dropped, running, min_level, sequence, cells,
                 pos, calls, logged, filtered, drain, owner, output>>

LogClaim(p) ==
  /\ pc[p] = "cas"
  /\ pos[p] = enqueue_pos
  /\ enqueue_pos' = enqueue_pos + 1
  /\ accepted' = Append(accepted, Whole(Id(p)))
  /\ pc' = [pc EXCEPT ![p] = "meta"]
  /\ UNCHANGED <<dequeue_pos, dropped, running, min_level, sequence, cells,
                 pos, calls, logged, filtered, drain, owner, output>>

\* Faulty form of LogClaimLost: the exchange gets a copy of pos to store into.
LogClaimLostKeepsPos(p) ==
  /\ pc[p] = "cas" /\ pos[p] # enqueue_pos
  /\ pc' = [pc EXCEPT ![p] = "seq"]
  /\ UNCHANGED <<members, pos, calls, logged, filtered, accepted, drain, owner,
                 output>>

\* The exchange fails because another producer was faster; it stores the
\* current value in pos.
LogClaimLost(p) ==
  /\ pc[p] = "cas"
  /\ pos[p] # enqueue_pos
  /\ pos' = [pos EXCEPT ![p] = enqueue_pos]
  /\ pc' = [pc EXCEPT ![p] = "seq"]
  /\ UNCHANGED <<members, calls, logged, filtered, accepted, drain, owner,
                 output>>

\* compare_exchange_weak may also fail for no reason.
LogClaimSpurious(p) ==
  /\ pc[p] = "cas"
  /\ pos[p] = enqueue_pos
  /\ pc' = [pc EXCEPT ![p] = "seq"]
  /\ UNCHANGED <<members, pos, calls, logged, filtered, accepted, drain,
                 owner, output>>

\* Faulty form of LogWriteMeta: the cell is published half filled.
LogWriteMetaPublishes(p) ==
  /\ pc[p] = "meta"
  /\ cells' = [cells EXCEPT ![Slot(pos[p])].meta = Id(p)]
  /\ sequence' = [sequence EXCEPT ![Slot(pos[p])] = pos[p] + 1]
  /\ pc' = [pc EXCEPT ![p] = "text"]
  /\ UNCHANGED <<enqueue_pos, dequeue_pos, dropped, running, min_level, pos,
                 calls, logged, filtered, accepted, drain, owner, output>>

LogWriteMeta(p) ==
  /\ pc[p] = "meta"
  /\ cells' = [cells EXCEPT ![Slot(pos[p])].meta = Id(p)]
  /\ pc' = [pc EXCEPT ![p] = "text"]
  /\ UNCHANGED <<enqueue_pos, dequeue_pos, dropped, running, min_level,
                 sequence, pos, calls, logged, filtered, accepted, drain,
                 owner, output>>

\* Faulty form of LogWriteText: a format error leaves Log() by an exception.
LogWriteTextThrows(p) ==
  /\ pc[p] = "text"
  /\ pc' = [pc EXCEPT ![p] = "idle"]
  /\ UNCHANGED <<enqueue_pos, dequeue_pos, dropped, running, min_level, cells,
                 sequence, pos, calls, logged, filtered, accepted, drain,
                 owner, output>>

\* FormatInto() catches what fmt throws, so that the record is published with
\* a text in any case.
LogWriteText(p) ==
  /\ pc[p] = "text"
  /\ cells' = [cells EXCEPT ![Slot(pos[p])].text = Id(p)]
  /\ pc' = [pc EXCEPT ![p] = "publish"]
  /\ UNCHANGED <<enqueue_pos, dequeue_pos, dropped, running, min_level,
                 sequence, pos, calls, logged, filtered, accepted, drain,
                 owner, output>>

LogPublish(p) ==
  /\ pc[p] = "publish"
  /\ sequence' = [sequence EXCEPT ![Slot(pos[p])] = pos[p] + 1]
  /\ pc' = [pc EXCEPT ![p] = "idle"]
  /\ UNCHANGED <<enqueue_pos, dequeue_pos, dropped, running, min_level, cells,
                 pos, calls, logged, filtered, accepted, drain, owner,
                 output>>

SetLevel(level) ==
  /\ Alive
  /\ min_level' = level
  /\ UNCHANGED <<enqueue_pos, dequeue_pos, dropped, running, sequence, cells,
                 producers, drain, owner, output>>

-----------------------------------------------------------------------------
(* The drain thread: DrainLoop().                                          *)

\* The cell holds the record claimed at dequeue_pos_.
Ready == sequence[Slot(dequeue_pos)] = dequeue_pos + 1

DrainSome ==
  /\ dpc = "load"
  /\ Ready
  /\ dpc' = "read"
  /\ UNCHANGED <<members, producers, dmeta, owner, output>>

DrainEmpty ==
  /\ dpc = "load"
  /\ ~Ready
  /\ dpc' = "poll"
  /\ UNCHANGED <<members, producers, dmeta, owner, output>>

DrainSleep ==
  /\ dpc = "poll"
  /\ running
  /\ dpc' = "load"
  /\ UNCHANGED <<members, producers, dmeta, owner, output>>

DrainStop ==
  /\ dpc = "poll"
  /\ ~running
  /\ dpc' = "sync"
  /\ UNCHANGED <<members, producers, dmeta, owner, output>>

DrainReadMeta ==
  /\ dpc = "read"
  /\ dmeta' = cells[Slot(dequeue_pos)].meta
  /\ dpc' = "log"
  /\ UNCHANGED <<members, producers, owner, output>>

DrainLog ==
  /\ dpc = "log"
  /\ sink' = Append(sink, [meta |-> dmeta,
                           text |-> cells[Slot(dequeue_pos)].text])
  /\ dpc' = "advance"
  /\ UNCHANGED <<members, producers, dmeta, owner, synced>>

DrainAdvance ==
  /\ dpc = "advance"
  /\ dequeue_pos' = dequeue_pos + 1
  /\ dpc' = "free"
  /\ UNCHANGED <<enqueue_pos, dropped, running, min_level, sequence, cells,
                 producers, dmeta, owner, output>>

\* The position whose cell is freed is the local pos, one behind dequeue_pos_;
\* its new sequence is pos + mask_ + 1.
DrainFree ==
  /\ dpc = "free"
  /\ sequence' = [sequence EXCEPT ![Slot(dequeue_pos - 1)] =
                    dequeue_pos - 1 + Capacity]
  /\ dpc' = "load"
  /\ UNCHANGED <<enqueue_pos, dequeue_pos, dropped, running, min_level, cells,
                 producers, dmeta, owner, output>>

DrainSync ==
  /\ dpc = "sync"
  /\ synced' = Len(sink)
  /\ dpc' = "exited"
  /\ UNCHANGED <<members, producers, dmeta, owner, sink>>

-----------------------------------------------------------------------------
(* The owner: Flush() and the destructor.                                  *)

FlushCall ==
  /\ opc = "idle"
  /\ mark' = enqueue_pos
  /\ opc' = "flush"
  /\ UNCHANGED <<members, producers, drain, seen, output>>

\* As in RtLogger, the two loads of the comparison may come in either order.
FlushLoadFirst ==
  /\ opc = "flush"
  /\ \/ seen' = dequeue_pos /\ opc' = "dequeue_seen"
     \/ seen' = enqueue_pos /\ opc' = "enqueue_seen"
  /\ UNCHANGED <<members, producers, drain, mark, output>>

\* Faulty form of FlushCompare: the sink is flushed without waiting.
FlushCompareOnce ==
  /\ opc \in {"dequeue_seen", "enqueue_seen"}
  /\ opc' = "sync"
  /\ UNCHANGED <<members, producers, drain, seen, mark, output>>

FlushCompare ==
  /\ \/ /\ opc = "dequeue_seen"
        /\ opc' = IF seen = enqueue_pos THEN "sync" ELSE "flush"
     \/ /\ opc = "enqueue_seen"
        /\ opc' = IF seen = dequeue_pos THEN "sync" ELSE "flush"
  /\ UNCHANGED <<members, producers, drain, seen, mark, output>>

FlushSink ==
  /\ opc = "sync"
  /\ synced' = Len(sink)
  /\ opc' = "idle"
  /\ UNCHANGED <<members, producers, drain, seen, mark, sink>>

DestroyStop ==
  /\ opc = "idle"
  /\ \A p \in Producers : pc[p] = "idle"
  /\ running' = FALSE
  /\ opc' = "join"
  /\ UNCHANGED <<enqueue_pos, dequeue_pos, dropped, min_level, sequence,
                 cells, producers, drain, seen, mark, output>>

DestroyJoin ==
  /\ opc = "join"
  /\ dpc = "exited"
  /\ opc' = "destroyed"
  /\ UNCHANGED <<members, producers, drain, seen, mark, output>>

Terminated == opc = "destroyed" /\ UNCHANGED vars

-----------------------------------------------------------------------------
LogStart(p) == LogFiltered(p) \/ LogLoadPos(p)
LogStep(p)  == \/ LogCellFree(p) \/ LogFull(p) \/ LogBehind(p) \/ LogReload(p)
               \/ LogClaim(p) \/ LogClaimLost(p) \/ LogClaimSpurious(p)
               \/ LogWriteMeta(p) \/ LogWriteText(p) \/ LogPublish(p)
DrainStep   == \/ DrainSome \/ DrainEmpty \/ DrainSleep \/ DrainStop
               \/ DrainReadMeta \/ DrainLog \/ DrainAdvance \/ DrainFree
               \/ DrainSync
OwnerStep   == FlushLoadFirst \/ FlushCompare \/ FlushSink \/ DestroyJoin

Next ==
  \/ \E p \in Producers : LogStart(p) \/ LogStep(p)
  \/ \E level \in Levels : SetLevel(level)
  \/ DrainStep
  \/ FlushCall \/ OwnerStep \/ DestroyStop
  \/ Terminated

Spec == Init /\ [][Next]_vars

(* The scheduler runs every thread that can run, and an exchange that      *)
(* could succeed again and again is not failed spuriously for ever.        *)
FairSpec ==
  /\ Spec
  /\ \A p \in Producers : WF_vars(LogStep(p)) /\ SF_vars(LogClaim(p))
  /\ WF_vars(DrainStep)
  /\ WF_vars(OwnerStep)

-----------------------------------------------------------------------------
(* Properties.                                                             *)

Writing(p) == pc[p] \in {"meta", "text", "publish"}
Deciding   == {p \in Producers : pc[p] \in {"seq", "reload", "cas"}}
Flushing   == opc \in {"flush", "dequeue_seen", "enqueue_seen", "sync"}

\* Positions below Freed had their cell given back to the producers.
Freed == IF dpc = "free" THEN dequeue_pos - 1 ELSE dequeue_pos

Ids == (Producers \X (1..MaxCalls)) \cup {None}
Recs == [meta : Ids, text : Ids]

\* Types of the members and locals, and no more than Capacity cells are ever
\* in use (claimed and not freed).
TypeOK ==
  /\ enqueue_pos \in Nat /\ dequeue_pos \in Nat
  /\ enqueue_pos - Freed \in 0..Capacity
  /\ dropped \in Nat /\ running \in BOOLEAN /\ min_level \in Levels
  /\ sequence \in [Slots -> Nat] /\ cells \in [Slots -> Recs]
  /\ sink \in Seq(Recs) /\ synced \in Nat
  /\ pc \in [Producers -> {"idle", "seq", "reload", "cas", "meta", "text",
                           "publish"}]
  /\ pos \in [Producers -> Nat]
  /\ dpc \in {"load", "poll", "read", "log", "advance", "free", "sync",
              "exited"}
  /\ dmeta \in Ids
  /\ opc \in {"idle", "flush", "dequeue_seen", "enqueue_seen", "sync", "join",
              "destroyed"}
  /\ seen \in Nat /\ mark \in Nat
  /\ calls \in [Producers -> 0..MaxCalls] /\ logged \in Nat /\ filtered \in Nat
  /\ accepted \in Seq(Recs)

\* The plain fields of a cell never race: a cell being filled belongs to one
\* producer, and the drain thread is not reading it.
CellExclusion ==
  \A p \in Producers : Writing(p) =>
    /\ \A q \in Producers \ {p} : Writing(q) => Slot(pos[p]) # Slot(pos[q])
    /\ dpc \in {"read", "log", "advance"} => Slot(pos[p]) # Slot(dequeue_pos)

\* The sink receives each record whole, and the records of one producer at
\* most once and in the order of its calls.
PerProducerFifo ==
  /\ \A i \in DOMAIN sink : sink[i].meta = sink[i].text /\ sink[i].meta # None
  /\ \A i, j \in DOMAIN sink :
       i < j /\ sink[i].meta[1] = sink[j].meta[1]
         => sink[i].meta[2] < sink[j].meta[2]

\* Global accounting: every Log() call was filtered, counted in dropped_, is
\* still trying to claim, was claimed and not yet taken, or is in the sink.
Accounting ==
  logged = filtered + dropped + Cardinality(Deciding)
           + (enqueue_pos - dequeue_pos)
           + Len(sink) - (IF dpc = "advance" THEN 1 ELSE 0)

\* When Flush() returns, every record claimed before it was called is in the
\* sink and flushed, even if its producer had not yet published it then.
FlushDrains == [][opc = "sync" /\ opc' = "idle" => synced' >= mark]_vars

\* If nothing was claimed after the last Flush() was called, the destructor
\* leaves every claimed record in the sink and flushed.
FlushedShutdown ==
  opc = "destroyed" /\ mark = enqueue_pos
    => sink = accepted /\ synced = Len(accepted)

\* "lock-free": apart from spurious failures a call goes round its loop only
\* because another producer claimed the position it looked at, and it goes on
\* to a later one, so no claim of another producer sends it round twice.
LostRaceIsProgress ==
  [][\A p \in Producers :
       /\ LogBehind(p) \/ LogClaimLost(p)
            => pos[p] < enqueue_pos /\ accepted[pos[p] + 1].meta[1] # p
       /\ LogReload(p) \/ LogClaimLost(p) => pos[p] < pos'[p]]_vars

\* MpscRtLogger is a bounded FIFO channel, in claim order, that drops only
\* when every cell is in use: a stale position or sequence never costs a
\* record.
Channel == INSTANCE LogChannel WITH
             Records <- {Whole(id) : id \in Ids},
             accepted <- accepted, delivered <- sink,
             released <- Freed, lost <- dropped
ImplementsChannel == Channel!Spec

\* Every claimed record reaches the sink as long as the logger runs: with
\* finitely many calls the sink catches up with the claims.
ClaimedDelivered == (sink # accepted) ~> (sink = accepted \/ ~running)

\* Every call comes to an end while the producers make finitely many: no Log()
\* retries for ever, Flush() sees the ring empty and the destructor's join()
\* returns.
CallsReturn ==
  /\ \A p \in Producers : (pc[p] # "idle") ~> (pc[p] = "idle")
  /\ Flushing ~> (opc = "idle")
  /\ (opc = "join") ~> (opc = "destroyed")

(* A statement of the sources that the code does not keep.                 *)

\* "A full ring drops the record": a record is claimed only when a cell is
\* free.  Broken by the code when Capacity is 1.
ClaimOnlyWithRoom ==
  [][enqueue_pos' # enqueue_pos => enqueue_pos - Freed < Capacity]_vars
=============================================================================
