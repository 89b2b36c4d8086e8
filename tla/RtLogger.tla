------------------------------ MODULE RtLogger ------------------------------
(***************************************************************************)
(* xmotion::RtLogger: a single-producer single-consumer lock-free ring.    *)
(*                                                                         *)
(* Three threads meet here: the producer (Log), the drain thread           *)
(* (DrainLoop) and the owner, who may call Flush() and finally runs the    *)
(* destructor.  Every load or store of an atomic member is one step, and   *)
(* so is every group of plain accesses to one half of a slot, so the       *)
(* threads interleave between them.  The contract of the class is part of  *)
(* the model: one producer, no call in progress when the destructor runs   *)
(* and none after it.                                                      *)
(*                                                                         *)
(* Indices are 64-bit and free-running; 2^64 records are out of any run's  *)
(* reach, so they are natural numbers here.                                *)
(***************************************************************************)
EXTENDS RtCommon

CONSTANT MaxCalls       \* bound on the number of Log() calls

ASSUME MaxCallsAssumption == MaxCalls \in Nat

VARIABLES
  head, tail,           \* head_, tail_
  dropped,              \* dropped_
  running,              \* running_
  min_level,            \* min_level_
  ring,                 \* ring_
  sink,                 \* records the sink logger received
  synced,               \* how many of them the last sink flush covered
  pc, phead,            \* producer: place in Log(), its local head
  dpc, dmeta,           \* drain thread: place in DrainLoop(), meta it read
  opc, seen,            \* owner: place in Flush()/destructor, first index read
  calls,                \* history: Log() calls so far; numbers the records
  filtered,             \* history: calls the level filter turned away
  accepted,             \* history: records published, in order
  mark                  \* history: records published when Flush() was called

members  == <<head, tail, dropped, running, min_level, ring>>
producer == <<pc, phead, calls, filtered, accepted>>
drain    == <<dpc, dmeta>>
owner    == <<opc, seen, mark>>
output   == <<sink, synced>>
vars     == <<members, producer, drain, owner, output>>

Init ==
  /\ head = 0 /\ tail = 0 /\ dropped = 0
  /\ running = TRUE
  /\ min_level \in Levels              \* ResolveLogLevelFromEnv()
  /\ ring = [s \in Slots |-> Whole(0)] \* nothing logged yet
  /\ sink = << >> /\ synced = 0
  /\ pc = "idle" /\ phead = 0
  /\ dpc = "load" /\ dmeta = 0
  /\ opc = "idle" /\ seen = 0 /\ mark = 0
  /\ calls = 0 /\ filtered = 0 /\ accepted = << >>

\* The destructor has not started: the object may be used.
Alive == opc \notin {"join", "destroyed"}

-----------------------------------------------------------------------------
(* The producer: Log().                                                    *)

LogFiltered ==
  /\ pc = "idle" /\ Alive /\ calls < MaxCalls
  /\ \E level \in Levels : level < min_level
  /\ calls' = calls + 1
  /\ filtered' = filtered + 1
  /\ UNCHANGED <<members, pc, phead, accepted, drain, owner, output>>

LogEnter ==
  /\ pc = "idle" /\ Alive /\ calls < MaxCalls
  /\ \E level \in Levels : level >= min_level
  /\ calls' = calls + 1
  /\ phead' = head
  /\ pc' = "check"
  /\ UNCHANGED <<members, filtered, accepted, drain, owner, output>>

\* Faulty forms of Full: one record too many, one too few.
FullLate(h, t) == h - t > Capacity
FullEarly(h, t) == h - t >= Capacity - 1

Full(h, t) == h - t >= Capacity

\* Faulty forms of LogFull: the drop is not counted; the producer waits.
LogFullUncounted ==
  /\ pc = "check" /\ Full(phead, tail)
  /\ pc' = "idle"
  /\ UNCHANGED <<members, phead, calls, filtered, accepted, drain, owner,
                 output>>
LogFullSpins ==
  /\ pc = "check" /\ Full(phead, tail)
  /\ UNCHANGED vars

LogFull ==
  /\ pc = "check"
  /\ Full(phead, tail)
  /\ dropped' = dropped + 1
  /\ pc' = "idle"
  /\ UNCHANGED <<head, tail, running, min_level, ring, phead, calls, filtered,
                 accepted, drain, owner, output>>

\* Faulty form of LogRoom: the index is published before the slot is filled.
LogRoomPublishes ==
  /\ pc = "check" /\ ~Full(phead, tail)
  /\ head' = phead + 1
  /\ pc' = "meta"
  /\ UNCHANGED <<tail, dropped, running, min_level, ring, phead, calls,
                 filtered, accepted, drain, owner, output>>

LogRoom ==
  /\ pc = "check"
  /\ ~Full(phead, tail)
  /\ pc' = "meta"
  /\ UNCHANGED <<members, phead, calls, filtered, accepted, drain, owner,
                 output>>

LogWriteMeta ==
  /\ pc = "meta"
  /\ ring' = [ring EXCEPT ![Slot(phead)].meta = calls]
  /\ pc' = "text"
  /\ UNCHANGED <<head, tail, dropped, running, min_level, phead, calls,
                 filtered, accepted, drain, owner, output>>

LogWriteText ==
  /\ pc = "text"
  /\ ring' = [ring EXCEPT ![Slot(phead)].text = calls]
  /\ pc' = "publish"
  /\ UNCHANGED <<head, tail, dropped, running, min_level, phead, calls,
                 filtered, accepted, drain, owner, output>>

LogPublish ==
  /\ pc = "publish"
  /\ head' = phead + 1
  /\ accepted' = Append(accepted, Whole(calls))
  /\ pc' = "idle"
  /\ UNCHANGED <<tail, dropped, running, min_level, ring, phead, calls,
                 filtered, drain, owner, output>>

\* SetLevel(), from any thread.
SetLevel(level) ==
  /\ Alive
  /\ min_level' = level
  /\ UNCHANGED <<head, tail, dropped, running, ring, producer, drain, owner,
                 output>>

-----------------------------------------------------------------------------
(* The drain thread: DrainLoop().                                          *)

DrainEmpty ==
  /\ dpc = "load"
  /\ tail = head
  /\ dpc' = "poll"
  /\ UNCHANGED <<members, producer, dmeta, owner, output>>

DrainSome ==
  /\ dpc = "load"
  /\ tail # head
  /\ dpc' = "read"
  /\ UNCHANGED <<members, producer, dmeta, owner, output>>

\* Faulty form of DrainSleep: the thread ends at the first empty ring.
DrainSleepExits ==
  /\ dpc = "poll" /\ running
  /\ dpc' = "sync"
  /\ UNCHANGED <<members, producer, dmeta, owner, output>>

\* The ring was empty when it was looked at and the logger still runs: sleep.
DrainSleep ==
  /\ dpc = "poll"
  /\ running
  /\ dpc' = "load"
  /\ UNCHANGED <<members, producer, dmeta, owner, output>>

\* ... or the logger was stopped: leave the loop.
DrainStop ==
  /\ dpc = "poll"
  /\ ~running
  /\ dpc' = "sync"
  /\ UNCHANGED <<members, producer, dmeta, owner, output>>

\* Faulty form of DrainReadMeta: the slot is given back before it is read.
DrainReadMetaFrees ==
  /\ dpc = "read"
  /\ dmeta' = ring[Slot(tail)].meta
  /\ tail' = tail + 1
  /\ dpc' = "log"
  /\ UNCHANGED <<head, dropped, running, min_level, ring, producer, owner,
                 output>>

DrainReadMeta ==
  /\ dpc = "read"
  /\ dmeta' = ring[Slot(tail)].meta
  /\ dpc' = "log"
  /\ UNCHANGED <<members, producer, owner, output>>

DrainLog ==
  /\ dpc = "log"
  /\ sink' = Append(sink, [meta |-> dmeta, text |-> ring[Slot(tail)].text])
  /\ dpc' = "free"
  /\ UNCHANGED <<members, producer, dmeta, owner, synced>>

DrainFree ==
  /\ dpc = "free"
  /\ tail' = tail + 1
  /\ dpc' = "load"
  /\ UNCHANGED <<head, dropped, running, min_level, ring, producer, dmeta,
                 owner, output>>

DrainSync ==
  /\ dpc = "sync"
  /\ synced' = Len(sink)
  /\ dpc' = "exited"
  /\ UNCHANGED <<members, producer, dmeta, owner, sink>>

-----------------------------------------------------------------------------
(* The owner: Flush() and the destructor.                                  *)

FlushCall ==
  /\ opc = "idle"
  /\ mark' = head
  /\ opc' = "flush"
  /\ UNCHANGED <<members, producer, drain, seen, output>>

(* The loop compares two loads whose order C++ leaves open: either index   *)
(* may be the one that is read first.                                      *)
FlushLoadFirst ==
  /\ opc = "flush"
  /\ \/ seen' = tail /\ opc' = "tail_seen"
     \/ seen' = head /\ opc' = "head_seen"
  /\ UNCHANGED <<members, producer, drain, mark, output>>

\* Faulty form of FlushCompare: the sink is flushed without waiting.
FlushCompareOnce ==
  /\ opc \in {"tail_seen", "head_seen"}
  /\ opc' = "sync"
  /\ UNCHANGED <<members, producer, drain, seen, mark, output>>

FlushCompare ==
  /\ \/ opc = "tail_seen" /\ opc' = IF seen = head THEN "sync" ELSE "flush"
     \/ opc = "head_seen" /\ opc' = IF seen = tail THEN "sync" ELSE "flush"
  /\ UNCHANGED <<members, producer, drain, seen, mark, output>>

FlushSink ==
  /\ opc = "sync"
  /\ synced' = Len(sink)
  /\ opc' = "idle"
  /\ UNCHANGED <<members, producer, drain, seen, mark, sink>>

DestroyStop ==
  /\ opc = "idle" /\ pc = "idle"
  /\ running' = FALSE
  /\ opc' = "join"
  /\ UNCHANGED <<head, tail, dropped, min_level, ring, producer, drain, seen,
                 mark, output>>

DestroyJoin ==
  /\ opc = "join"
  /\ dpc = "exited"
  /\ opc' = "destroyed"
  /\ UNCHANGED <<members, producer, drain, seen, mark, output>>

\* The object is gone.
Terminated == opc = "destroyed" /\ UNCHANGED vars

-----------------------------------------------------------------------------
LogStep   == LogFull \/ LogRoom \/ LogWriteMeta \/ LogWriteText \/ LogPublish
DrainStep == \/ DrainEmpty \/ DrainSome \/ DrainSleep \/ DrainStop
             \/ DrainReadMeta \/ DrainLog \/ DrainFree \/ DrainSync
OwnerStep == FlushLoadFirst \/ FlushCompare \/ FlushSink \/ DestroyJoin

Next ==
  \/ LogFiltered \/ LogEnter \/ LogStep
  \/ \E level \in Levels : SetLevel(level)
  \/ DrainStep
  \/ FlushCall \/ OwnerStep \/ DestroyStop
  \/ Terminated

Spec == Init /\ [][Next]_vars

(* All that Log() may count on: its own thread runs.  The drain thread,    *)
(* below its priority, and the owner may be starved for ever.  Nobody is   *)
(* obliged to start a call: LogEnter, FlushCall and DestroyStop get no     *)
(* fairness.                                                               *)
StarvedSpec == Spec /\ WF_vars(LogStep)

(* The scheduler runs the drain thread and the owner as well.              *)
Scheduled == WF_vars(DrainStep) /\ WF_vars(OwnerStep)

-----------------------------------------------------------------------------
(* Properties.                                                             *)

Writing  == pc \in {"meta", "text", "publish"}
Reading  == dpc \in {"read", "log", "free"}
Flushing == opc \in {"flush", "tail_seen", "head_seen", "sync"}

Rec == [meta : Nat, text : Nat]

\* Types of the members and locals, and the ring never holds more than
\* Capacity records nor a negative number (head_ - tail_ in Log()).
TypeOK ==
  /\ head \in Nat /\ tail \in Nat /\ head - tail \in 0..Capacity
  /\ dropped \in Nat /\ running \in BOOLEAN /\ min_level \in Levels
  /\ ring \in [Slots -> Rec]
  /\ sink \in Seq(Rec) /\ synced \in Nat
  /\ pc \in {"idle", "check", "meta", "text", "publish"} /\ phead \in Nat
  /\ dpc \in {"load", "poll", "read", "log", "free", "sync", "exited"}
  /\ dmeta \in Nat
  /\ opc \in {"idle", "flush", "tail_seen", "head_seen", "sync", "join",
              "destroyed"}
  /\ seen \in Nat /\ mark \in Nat
  /\ calls \in 0..MaxCalls /\ filtered \in Nat
  /\ accepted \in Seq(Rec)

\* The producer never writes the slot the drain thread is reading: the plain
\* accesses to a Record in Log() and DrainLoop() never race.
SlotExclusion == Writing /\ Reading => Slot(phead) # Slot(tail)

\* The sink receives each record whole (no field of another call), at most
\* once and in the order of the Log() calls.
DeliveredInOrder ==
  /\ \A i \in DOMAIN sink : sink[i].meta = sink[i].text /\ sink[i].meta \in 1..calls
  /\ \A i, j \in DOMAIN sink : i < j => sink[i].meta < sink[j].meta

\* No record vanishes while the logger works: every Log() call was filtered,
\* counted in dropped_, is still being written, waits in the ring, or is in
\* the sink (where the one being freed is counted once).
Accounting ==
  calls = filtered + dropped + (IF pc = "idle" THEN 0 ELSE 1)
          + (head - tail) + Len(sink) - (IF dpc = "free" THEN 1 ELSE 0)

\* When Flush() returns, everything published before it was called is in the
\* sink and flushed, even if the producer kept logging meanwhile.
FlushDrains == [][opc = "sync" /\ opc' = "idle" => synced' >= mark]_vars

\* The documented way to shut down loses nothing: if nothing was published
\* after the last Flush() was called, every accepted record is in the sink and
\* flushed once the destructor is done.
FlushedShutdown ==
  opc = "destroyed" /\ mark = head => sink = accepted /\ synced = Len(accepted)

\* RtLogger is a bounded FIFO channel that drops only when it is full.
Channel == INSTANCE LogChannel WITH
             Records <- {Whole(n) : n \in 1..MaxCalls},
             accepted <- accepted, delivered <- sink,
             released <- tail, lost <- dropped
ImplementsChannel == Channel!Spec

\* Every published record reaches the sink as long as the logger runs.
PublishedDelivered ==
  Scheduled => \A k \in 1..MaxCalls :
                 (head >= k) ~> (Len(sink) >= k \/ ~running)

\* Every call comes to an end.  Log() returns although the drain thread may
\* never run again: the producer waits for nobody.  Once the (finitely many)
\* Log() calls are over, a drain thread that runs lets Flush() and the
\* destructor's join() return.
CallsReturn ==
  /\ (pc # "idle") ~> (pc = "idle")
  /\ Scheduled => /\ Flushing ~> (opc = "idle")
                  /\ (opc = "join") ~> (opc = "destroyed")

(* A statement of the sources that the code does not keep.                *)

\* "stopped + drained": when the drain thread leaves its loop the ring is
\* empty (the comment on the break in DrainLoop()).
StoppedAndDrained == dpc = "exited" => tail = head
=============================================================================
