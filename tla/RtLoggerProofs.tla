--------------------------- MODULE RtLoggerProofs ---------------------------
(***************************************************************************)
(* Proofs about RtLogger, for every capacity, every set of levels and      *)
(* every bound on the number of calls.                                     *)
(***************************************************************************)
EXTENDS RtLogger, RingLemmas

-----------------------------------------------------------------------------
(* The inductive invariant behind the safety properties, by parts.         *)

\* How far each index may be from the others.
Indices ==
  /\ tail <= head /\ head - tail <= Capacity
  /\ Len(accepted) = head
  /\ Len(sink) = IF dpc = "free" THEN tail + 1 ELSE tail
  /\ pc # "idle" => phead = head
  /\ Writing => head - tail < Capacity
  /\ Reading => tail < head

\* Published slots hold what was accepted; the slot being written is filled
\* half by half; the drain thread carries the meta of the record it reads.
Contents ==
  /\ \A i \in tail..(head - 1) : ring[Slot(i)] = accepted[i + 1]
  /\ pc \in {"text", "publish"} => ring[Slot(phead)].meta = calls
  /\ pc = "publish" => ring[Slot(phead)].text = calls
  /\ dpc = "log" => dmeta = accepted[tail + 1].meta

\* What is in the sink is what was accepted, and what was accepted is whole
\* and numbered in order of the calls.
History ==
  /\ \A i \in 1..Len(sink) : sink[i] = accepted[i]
  /\ \A i \in 1..Len(accepted) :
       accepted[i].text = accepted[i].meta /\ accepted[i].meta \in 1..calls
  /\ \A i, j \in 1..Len(accepted) : i < j => accepted[i].meta < accepted[j].meta
  /\ pc # "idle" => calls > 0 /\ \A i \in 1..Len(accepted) : accepted[i].meta < calls

\* Every call is accounted for by the counters alone.
Counted == calls = filtered + dropped + head + (IF pc = "idle" THEN 0 ELSE 1)

\* What Flush() has learnt so far.
FlushProgress ==
  /\ Flushing => mark <= head
  /\ opc = "tail_seen" => seen <= tail
  /\ opc = "head_seen" => mark <= seen /\ seen <= head
  /\ opc = "sync" => mark <= tail
  /\ ~Flushing => mark <= synced
  /\ synced <= Len(sink)

IInv == TypeOK /\ Indices /\ Contents /\ History /\ Counted /\ FlushProgress

-----------------------------------------------------------------------------
\* Writing one half of a slot leaves a ring of records.
LEMMA FieldUpdate ==
  ASSUME NEW f \in [Slots -> Rec], NEW s \in Slots, NEW c \in Nat
  PROVE  /\ [f EXCEPT ![s].meta = c] \in [Slots -> Rec]
         /\ [f EXCEPT ![s].text = c] \in [Slots -> Rec]
  BY DEF Rec

\* The initial state: an empty ring and three threads at their start.
LEMMA InitInv == Init => IInv
<1> SUFFICES ASSUME Init
             PROVE  IInv
  OBVIOUS
<1>1. TypeOK
  BY RingAssumption, MaxCallsAssumption DEF Init, TypeOK, Rec, Whole
<1>2. Indices /\ Contents /\ History /\ Counted /\ FlushProgress
  BY RingAssumption DEF Init, Indices, Contents, History, Counted,
     FlushProgress, Writing, Reading, Flushing
<1> QED
  BY <1>1, <1>2 DEF IInv

-----------------------------------------------------------------------------
\* While the producer fills a slot, no position still in the ring selects it.
LEMMA WrittenSlotFree ==
  ASSUME IInv, Writing
  PROVE  /\ Slot(phead) \in Slots
         /\ \A i \in tail..(head - 1) : Slot(i) \in Slots /\ Slot(i) # Slot(phead)
<1>1. /\ head \in Nat /\ tail \in Nat /\ phead = head
      /\ tail <= head /\ head < tail + Capacity
  BY RingAssumption DEF IInv, TypeOK, Indices, Writing
<1>2. ASSUME NEW i \in tail..(head - 1)
      PROVE  Slot(i) \in Slots /\ Slot(i) # Slot(phead)
  <2>1. i \in Nat /\ i # head /\ i < head + Capacity /\ head < i + Capacity
    BY <1>1, <1>2, RingAssumption
  <2> QED
    BY <1>1, <2>1, SlotInSlots, SlotsDiffer
<1> QED
  BY <1>1, <1>2, SlotInSlots

\* The record at the tail of a ring being read is the oldest accepted record
\* that the sink has not got.
LEMMA OldestRecord ==
  ASSUME IInv, Reading
  PROVE  /\ tail + 1 \in 1..Len(accepted)
         /\ accepted[tail + 1] \in Rec
         /\ ring[Slot(tail)] = accepted[tail + 1]
<1>1. tail \in tail..(head - 1) /\ tail + 1 \in 1..Len(accepted)
  BY DEF IInv, TypeOK, Indices, Reading
<1>2. accepted[tail + 1] \in Rec
  BY <1>1 DEF IInv, TypeOK
<1> QED
  BY <1>1, <1>2 DEF IInv, Contents

\* What the drain thread hands to the sink is that record, whole.
LEMMA LoggedRecord ==
  ASSUME IInv, dpc = "log"
  PROVE  [meta |-> dmeta, text |-> ring[Slot(tail)].text] = accepted[tail + 1]
<1>1. ring[Slot(tail)] = accepted[tail + 1] /\ accepted[tail + 1] \in Rec
  BY OldestRecord DEF Reading
<1>2. dmeta = accepted[tail + 1].meta
  BY DEF IInv, Contents
<1> QED
  BY <1>1, <1>2 DEF Rec

\* When the producer is about to publish, its slot holds the whole record.
LEMMA FilledSlot ==
  ASSUME IInv, pc = "publish"
  PROVE  ring[Slot(phead)] = Whole(calls)
<1>1. ring[Slot(phead)] \in Rec
  BY WrittenSlotFree DEF IInv, TypeOK, Writing
<1>2. ring[Slot(phead)].meta = calls /\ ring[Slot(phead)].text = calls
  BY DEF IInv, Contents
<1> QED
  BY <1>1, <1>2 DEF Rec, Whole

-----------------------------------------------------------------------------
\* Every step of the producer, the drain thread and the owner keeps IInv.
LEMMA StepInv == IInv /\ [Next]_vars => IInv'
<1> SUFFICES ASSUME IInv, [Next]_vars
             PROVE  IInv'
  OBVIOUS
<1> USE RingAssumption, MaxCallsAssumption
<1> USE DEF members, producer, drain, owner, output, Writing, Reading,
            Flushing, Alive
<1>0. TypeOK /\ Indices /\ Contents /\ History /\ Counted /\ FlushProgress
  BY DEF IInv

<1>1. CASE LogFiltered
  <2>1. TypeOK' /\ Indices' /\ Counted' /\ FlushProgress'
    BY <1>0, <1>1 DEF LogFiltered, TypeOK, Indices, Counted, FlushProgress
  <2>2. Contents'
    BY <1>0, <1>1 DEF LogFiltered, TypeOK, Contents
  <2>3. History'
    BY <1>0, <1>1 DEF LogFiltered, TypeOK, History
  <2> QED
    BY <2>1, <2>2, <2>3 DEF IInv
<1>2. CASE LogEnter
  <2>1. TypeOK' /\ Indices' /\ Counted' /\ FlushProgress'
    BY <1>0, <1>2 DEF LogEnter, TypeOK, Indices, Counted, FlushProgress
  <2>2. Contents'
    BY <1>0, <1>2 DEF LogEnter, TypeOK, Contents
  <2>3. History'
    BY <1>0, <1>2 DEF LogEnter, TypeOK, History
  <2> QED
    BY <2>1, <2>2, <2>3 DEF IInv
<1>3. CASE LogFull
  <2>1. TypeOK' /\ Indices' /\ FlushProgress'
    BY <1>0, <1>3 DEF LogFull, TypeOK, Indices, FlushProgress
  <2>2. Contents' /\ History'
    BY <1>0, <1>3 DEF LogFull, TypeOK, Contents, History
  <2>3. Counted'
    BY <1>0, <1>3 DEF LogFull, TypeOK, Counted
  <2> QED
    BY <2>1, <2>2, <2>3 DEF IInv
<1>4. CASE LogRoom
  BY <1>0, <1>4 DEF LogRoom, Full, IInv, TypeOK, Indices, Contents, History,
     Counted, FlushProgress
<1>5. CASE LogWriteMeta
  <2>0. /\ Slot(phead) \in Slots
        /\ \A i \in tail..(head - 1) : Slot(i) \in Slots /\ Slot(i) # Slot(phead)
    BY <1>5, WrittenSlotFree DEF LogWriteMeta
  <2>1. TypeOK'
    <3>1. calls \in Nat /\ ring \in [Slots -> Rec]
      BY <1>0 DEF TypeOK
    <3>2. ring' \in [Slots -> Rec]
      BY <1>5, <2>0, <3>1, FieldUpdate DEF LogWriteMeta
    <3> QED
      BY <1>0, <1>5, <3>2 DEF LogWriteMeta, TypeOK
  <2>2. Contents'
    <3>1. ring'[Slot(phead)].meta = calls /\ ring'[Slot(phead)].text = ring[Slot(phead)].text
      BY <1>0, <1>5, <2>0 DEF LogWriteMeta, TypeOK, Rec
    <3>2. \A i \in tail..(head - 1) : ring'[Slot(i)] = ring[Slot(i)]
      BY <1>0, <1>5, <2>0 DEF LogWriteMeta, TypeOK
    <3> QED
      BY <1>0, <1>5, <3>1, <3>2 DEF LogWriteMeta, Contents
  <2>3. Indices' /\ History' /\ Counted' /\ FlushProgress'
    BY <1>0, <1>5 DEF LogWriteMeta, TypeOK, Indices, History, Counted,
       FlushProgress
  <2> QED
    BY <2>1, <2>2, <2>3 DEF IInv
<1>6. CASE LogWriteText
  <2>0. /\ Slot(phead) \in Slots
        /\ \A i \in tail..(head - 1) : Slot(i) \in Slots /\ Slot(i) # Slot(phead)
    BY <1>6, WrittenSlotFree DEF LogWriteText
  <2>1. TypeOK'
    <3>1. calls \in Nat /\ ring \in [Slots -> Rec]
      BY <1>0 DEF TypeOK
    <3>2. ring' \in [Slots -> Rec]
      BY <1>6, <2>0, <3>1, FieldUpdate DEF LogWriteText
    <3> QED
      BY <1>0, <1>6, <3>2 DEF LogWriteText, TypeOK
  <2>2. Contents'
    <3>1. ring'[Slot(phead)].text = calls /\ ring'[Slot(phead)].meta = ring[Slot(phead)].meta
      BY <1>0, <1>6, <2>0 DEF LogWriteText, TypeOK, Rec
    <3>2. \A i \in tail..(head - 1) : ring'[Slot(i)] = ring[Slot(i)]
      BY <1>0, <1>6, <2>0 DEF LogWriteText, TypeOK
    <3> QED
      BY <1>0, <1>6, <3>1, <3>2 DEF LogWriteText, Contents
  <2>3. Indices' /\ History' /\ Counted' /\ FlushProgress'
    BY <1>0, <1>6 DEF LogWriteText, TypeOK, Indices, History, Counted,
       FlushProgress
  <2> QED
    BY <2>1, <2>2, <2>3 DEF IInv
<1>7. CASE LogPublish
  <2>0. /\ Len(accepted) = head /\ phead = head /\ head' = head + 1
        /\ head \in Nat /\ tail \in Nat /\ calls \in Nat
    BY <1>0, <1>7 DEF LogPublish, TypeOK, Indices
  <2>1. Whole(calls) \in Rec /\ Whole(calls).meta = calls /\ Whole(calls).text = calls
    BY <2>0 DEF Whole, Rec
  <2>2. /\ accepted' \in Seq(Rec)
        /\ Len(accepted') = head + 1
        /\ \A i \in 1..head : accepted'[i] = accepted[i]
        /\ accepted'[head + 1] = Whole(calls)
    BY <1>0, <1>7, <2>0, <2>1 DEF LogPublish, TypeOK
  <2>3. TypeOK'
    BY <1>0, <1>7, <2>0, <2>2 DEF LogPublish, TypeOK, Indices
  <2>4. Indices'
    BY <1>0, <1>7, <2>0, <2>2 DEF LogPublish, TypeOK, Indices
  <2>5. Contents'
    <3>1. \A i \in tail'..(head' - 1) : ring'[Slot(i)] = accepted'[i + 1]
      <4>1. ring[Slot(head)] = accepted'[head + 1]
        BY <1>7, <2>0, <2>2, FilledSlot DEF LogPublish
      <4>2. \A i \in tail..(head - 1) : ring[Slot(i)] = accepted'[i + 1]
        BY <1>0, <2>0, <2>2, SMTT(30) DEF Contents
      <4>3. tail' = tail /\ ring' = ring /\ head' - 1 = head
        BY <1>7, <2>0 DEF LogPublish
      <4> QED
        BY <2>0, <4>1, <4>2, <4>3
    <3>2. dpc = "log" => dmeta = accepted'[tail + 1].meta
      BY <1>0, <2>0, <2>2 DEF Indices, Contents
    <3> QED
      BY <1>0, <1>7, <2>0, <3>1, <3>2 DEF LogPublish, TypeOK, Contents
  <2>6. History'
    <3>1. \A i \in 1..Len(sink) : sink[i] = accepted'[i]
      BY <1>0, <2>0, <2>2 DEF TypeOK, Indices, History
    <3>2. \A i \in 1..(head + 1) :
            accepted'[i].text = accepted'[i].meta /\ accepted'[i].meta \in 1..calls
      BY <1>0, <1>7, <2>0, <2>1, <2>2 DEF LogPublish, History
    <3>3. \A i, j \in 1..(head + 1) : i < j => accepted'[i].meta < accepted'[j].meta
      BY <1>0, <1>7, <2>0, <2>1, <2>2, SMTT(30) DEF LogPublish, History
    <3> QED
      BY <1>7, <2>2, <3>1, <3>2, <3>3 DEF LogPublish, History
  <2>7. Counted' /\ FlushProgress'
    BY <1>0, <1>7, <2>0 DEF LogPublish, TypeOK, Counted, FlushProgress
  <2> QED
    BY <2>3, <2>4, <2>5, <2>6, <2>7 DEF IInv
<1>8. CASE \E level \in Levels : SetLevel(level)
  <2>1. TypeOK' /\ Indices' /\ Counted' /\ FlushProgress'
    BY <1>0, <1>8 DEF SetLevel, TypeOK, Indices, Counted, FlushProgress
  <2>2. Contents' /\ History'
    BY <1>0, <1>8 DEF SetLevel, Contents, History
  <2> QED
    BY <2>1, <2>2 DEF IInv

<1>9. CASE DrainEmpty
  BY <1>0, <1>9 DEF DrainEmpty, IInv, TypeOK, Indices, Contents, History,
     Counted, FlushProgress
<1>10. CASE DrainSome
  BY <1>0, <1>10 DEF DrainSome, IInv, TypeOK, Indices, Contents, History,
     Counted, FlushProgress
<1>11. CASE DrainSleep
  BY <1>0, <1>11 DEF DrainSleep, IInv, TypeOK, Indices, Contents, History,
     Counted, FlushProgress
<1>12. CASE DrainStop
  BY <1>0, <1>12 DEF DrainStop, IInv, TypeOK, Indices, Contents, History,
     Counted, FlushProgress
<1>13. CASE DrainReadMeta
  <2>1. dmeta' = accepted[tail + 1].meta /\ accepted[tail + 1].meta \in Nat
    BY <1>13, OldestRecord DEF DrainReadMeta, Rec
  <2>2. TypeOK'
    BY <1>0, <1>13, <2>1 DEF DrainReadMeta, TypeOK
  <2>3. Contents'
    BY <1>0, <1>13, <2>1 DEF DrainReadMeta, Contents
  <2>4. Indices' /\ History' /\ Counted' /\ FlushProgress'
    BY <1>0, <1>13 DEF DrainReadMeta, TypeOK, Indices, History, Counted,
       FlushProgress
  <2> QED
    BY <2>2, <2>3, <2>4 DEF IInv
<1>14. CASE DrainLog
  <2>1. sink' = Append(sink, accepted[tail + 1]) /\ accepted[tail + 1] \in Rec
    BY <1>14, LoggedRecord, OldestRecord DEF DrainLog
  <2>2. sink \in Seq(Rec) /\ Len(sink) = tail /\ tail \in Nat
    BY <1>0, <1>14 DEF DrainLog, TypeOK, Indices
  <2>3. /\ sink' \in Seq(Rec)
        /\ Len(sink') = tail + 1
        /\ \A i \in 1..tail : sink'[i] = sink[i]
        /\ sink'[tail + 1] = accepted[tail + 1]
    BY <2>1, <2>2
  <2>4. TypeOK'
    BY <1>0, <1>14, <2>3 DEF DrainLog, TypeOK
  <2>5. Indices' /\ Contents' /\ Counted'
    BY <1>0, <1>14, <2>3 DEF DrainLog, TypeOK, Indices, Contents, Counted
  <2>6. History'
    BY <1>0, <1>14, <2>2, <2>3 DEF DrainLog, History
  <2>7. FlushProgress'
    BY <1>0, <1>14, <2>2, <2>3 DEF DrainLog, TypeOK, FlushProgress
  <2> QED
    BY <2>4, <2>5, <2>6, <2>7 DEF IInv
<1>15. CASE DrainFree
  <2>1. TypeOK' /\ Indices' /\ Counted' /\ FlushProgress'
    BY <1>0, <1>15 DEF DrainFree, TypeOK, Indices, Counted, FlushProgress
  <2>2. Contents' /\ History'
    BY <1>0, <1>15 DEF DrainFree, TypeOK, Contents, History
  <2> QED
    BY <2>1, <2>2 DEF IInv
<1>16. CASE DrainSync
  BY <1>0, <1>16 DEF DrainSync, IInv, TypeOK, Indices, Contents, History,
     Counted, FlushProgress

<1>17. CASE FlushCall
  BY <1>0, <1>17 DEF FlushCall, IInv, TypeOK, Indices, Contents, History,
     Counted, FlushProgress
<1>18. CASE FlushLoadFirst
  <2>1. TypeOK' /\ Indices' /\ Counted' /\ FlushProgress'
    BY <1>0, <1>18 DEF FlushLoadFirst, TypeOK, Indices, Counted, FlushProgress
  <2>2. Contents' /\ History'
    BY <1>0, <1>18 DEF FlushLoadFirst, Contents, History
  <2> QED
    BY <2>1, <2>2 DEF IInv
<1>19. CASE FlushCompare
  <2>1. TypeOK' /\ Indices' /\ Counted'
    BY <1>0, <1>19 DEF FlushCompare, TypeOK, Indices, Counted
  <2>2. Contents' /\ History'
    BY <1>0, <1>19 DEF FlushCompare, Contents, History
  <2>3. FlushProgress'
    BY <1>0, <1>19 DEF FlushCompare, TypeOK, Indices, FlushProgress
  <2> QED
    BY <2>1, <2>2, <2>3 DEF IInv
<1>20. CASE FlushSink
  <2>1. TypeOK' /\ Indices' /\ Counted' /\ FlushProgress'
    BY <1>0, <1>20 DEF FlushSink, TypeOK, Indices, Counted, FlushProgress
  <2>2. Contents' /\ History'
    BY <1>0, <1>20 DEF FlushSink, Contents, History
  <2> QED
    BY <2>1, <2>2 DEF IInv
<1>21. CASE DestroyStop
  BY <1>0, <1>21 DEF DestroyStop, IInv, TypeOK, Indices, Contents, History,
     Counted, FlushProgress
<1>22. CASE DestroyJoin
  BY <1>0, <1>22 DEF DestroyJoin, IInv, TypeOK, Indices, Contents, History,
     Counted, FlushProgress

<1>23. CASE UNCHANGED vars
  <2>1. TypeOK' /\ Indices' /\ Counted' /\ FlushProgress'
    BY <1>0, <1>23 DEF vars, TypeOK, Indices, Counted, FlushProgress
  <2>2. Contents' /\ History'
    BY <1>0, <1>23 DEF vars, Contents, History
  <2> QED
    BY <2>1, <2>2 DEF IInv
<1> QED
  BY <1>1, <1>2, <1>3, <1>4, <1>5, <1>6, <1>7, <1>8, <1>9, <1>10, <1>11, <1>12,
     <1>13, <1>14, <1>15, <1>16, <1>17, <1>18, <1>19, <1>20, <1>21, <1>22,
     <1>23 DEF Next, LogStep, DrainStep, OwnerStep, Terminated

-----------------------------------------------------------------------------
(* The theorems.                                                           *)

\* IInv, the inductive invariant, holds in every reachable state of RtLogger.
THEOREM Invariance == Spec => []IInv
<1> QED
  BY InitInv, StepInv, PTL DEF Spec

\* Types, and head_ - tail_ never leaves 0..Capacity: the unsigned subtraction
\* in Log() never wraps and the ring never holds more than it has slots.
THEOREM TypeCorrect == Spec => []TypeOK
<1>1. IInv => TypeOK
  BY DEF IInv
<1> QED
  BY <1>1, Invariance, PTL

\* Log() and DrainLoop() never touch the same Record at the same time.
THEOREM NoSlotRace == Spec => []SlotExclusion
<1>1. IInv => SlotExclusion
  <2> SUFFICES ASSUME IInv, Writing, Reading
               PROVE  Slot(phead) # Slot(tail)
    BY DEF SlotExclusion
  <2>1. tail \in tail..(head - 1)
    BY DEF IInv, TypeOK, Indices
  <2> QED
    BY <2>1, WrittenSlotFree
<1> QED
  BY <1>1, Invariance, PTL

\* The sink receives whole records, once each, in the order of the calls.
THEOREM DeliveryInOrder == Spec => []DeliveredInOrder
<1>1. IInv => DeliveredInOrder
  <2> SUFFICES ASSUME IInv
               PROVE  DeliveredInOrder
    OBVIOUS
  <2>1. /\ DOMAIN sink = 1..Len(sink) /\ Len(sink) \in Nat
        /\ Len(sink) <= Len(accepted) /\ Len(accepted) \in Nat
    BY DEF IInv, TypeOK, Indices, Reading
  <2>2. \A i \in 1..Len(sink) : i \in 1..Len(accepted) /\ sink[i] = accepted[i]
    BY <2>1 DEF IInv, History
  <2> QED
    BY <2>1, <2>2 DEF IInv, History, DeliveredInOrder
<1> QED
  BY <1>1, Invariance, PTL

\* No Log() call is lost track of while the ring is in use.
THEOREM EveryCallCounted == Spec => []Accounting
<1>1. IInv => Accounting
  BY DEF IInv, TypeOK, Indices, Counted, Accounting
<1> QED
  BY <1>1, Invariance, PTL

\* When Flush() returns, all that was published before the call is flushed.
THEOREM FlushIsComplete == Spec => FlushDrains
<1>1. IInv /\ [Next]_vars => [opc = "sync" /\ opc' = "idle" => synced' >= mark]_vars
  <2> SUFFICES ASSUME IInv, Next, opc = "sync", opc' = "idle"
               PROVE  synced' >= mark
    BY DEF vars, owner
  <2>1. FlushSink
    BY DEF Next, LogStep, DrainStep, OwnerStep, LogFiltered, LogEnter, LogFull,
       LogRoom, LogWriteMeta, LogWriteText, LogPublish, SetLevel, DrainEmpty,
       DrainSome, DrainSleep, DrainStop, DrainReadMeta, DrainLog, DrainFree,
       DrainSync, FlushCall, FlushLoadFirst, FlushCompare, DestroyStop,
       DestroyJoin, Terminated, owner
  <2>2. mark <= tail /\ tail <= Len(sink)
    BY DEF IInv, TypeOK, Indices, FlushProgress
  <2> QED
    BY <2>1, <2>2 DEF FlushSink, IInv, TypeOK
<1> QED
  BY <1>1, Invariance, PTL DEF Spec, FlushDrains

\* Flush() and then the destructor lose nothing.
THEOREM ShutdownAfterFlush == Spec => []FlushedShutdown
<1>1. IInv => FlushedShutdown
  <2> SUFFICES ASSUME IInv, opc = "destroyed", mark = head
               PROVE  sink = accepted /\ synced = Len(accepted)
    BY DEF FlushedShutdown
  <2>1. mark <= synced /\ synced <= Len(sink)
    BY DEF IInv, FlushProgress, Flushing
  <2>2. Len(sink) <= head /\ Len(accepted) = head
    BY DEF IInv, TypeOK, Indices, Reading
  <2>3. /\ sink \in Seq(Rec) /\ accepted \in Seq(Rec)
        /\ head \in Nat /\ mark \in Nat /\ synced \in Nat
    BY DEF IInv, TypeOK
  <2>4. Len(sink) = Len(accepted) /\ synced = Len(accepted)
    BY <2>1, <2>2, <2>3
  <2>5. \A i \in 1..Len(sink) : sink[i] = accepted[i]
    BY DEF IInv, History
  <2> QED
    BY <2>3, <2>4, <2>5
<1> QED
  BY <1>1, Invariance, PTL

\* RtLogger implements the bounded FIFO channel: every step of its threads is
\* a step of the channel, or none.
THEOREM RefinesChannel == Spec => ImplementsChannel
<1>1. Init => Channel!Init
  BY DEF Init, Channel!Init
<1>2. IInv /\ [Next]_vars => [Channel!Next]_(Channel!vars)
  <2> SUFFICES ASSUME IInv, [Next]_vars
               PROVE  [Channel!Next]_(Channel!vars)
    OBVIOUS
  <2> USE DEF members, producer, drain, owner, output
  <2>1. CASE LogPublish
    <3>1. /\ pc # "idle" /\ calls \in 1..MaxCalls
          /\ Len(accepted) - tail < Capacity
      BY <2>1, RingAssumption, MaxCallsAssumption
         DEF LogPublish, IInv, TypeOK, Indices, History, Writing
    <3>2. \A i \in DOMAIN accepted : accepted[i] # Whole(calls)
      <4>1. Whole(calls).meta = calls
        BY DEF Whole
      <4>2. \A i \in 1..Len(accepted) : accepted[i] \in Rec /\ accepted[i].meta < calls
        BY <3>1 DEF IInv, TypeOK, History
      <4>3. DOMAIN accepted = 1..Len(accepted)
        BY DEF IInv, TypeOK
      <4> QED
        BY <3>1, <4>1, <4>2, <4>3 DEF Rec
    <3>3. Channel!Accept(Whole(calls))
      BY <2>1, <3>1, <3>2 DEF LogPublish, Channel!Accept, Channel!Occupied
    <3> QED
      BY <3>1, <3>3 DEF Channel!Next
  <2>2. CASE LogFull
    <3>1. Channel!Drop
      BY <2>2, RingAssumption
         DEF LogFull, Full, IInv, TypeOK, Indices, Channel!Drop, Channel!Occupied
    <3> QED
      BY <3>1 DEF Channel!Next
  <2>3. CASE DrainLog
    <3>1. Len(sink) = tail /\ tail < Len(accepted)
      BY <2>3 DEF DrainLog, IInv, TypeOK, Indices, Reading
    <3>2. Channel!Deliver
      BY <2>3, <3>1, LoggedRecord DEF DrainLog, Channel!Deliver
    <3> QED
      BY <3>2 DEF Channel!Next
  <2>4. CASE DrainFree
    <3>1. Channel!Release
      BY <2>4 DEF DrainFree, IInv, TypeOK, Indices, Channel!Release
    <3> QED
      BY <3>1 DEF Channel!Next
  <2>5. CASE LogFiltered \/ LogEnter \/ LogRoom \/ LogWriteMeta \/ LogWriteText
             \/ \E level \in Levels : SetLevel(level)
    BY <2>5 DEF LogFiltered, LogEnter, LogRoom, LogWriteMeta, LogWriteText,
       SetLevel, Channel!vars
  <2>6. CASE DrainEmpty \/ DrainSome \/ DrainSleep \/ DrainStop
             \/ DrainReadMeta \/ DrainSync
    BY <2>6 DEF DrainEmpty, DrainSome, DrainSleep, DrainStop, DrainReadMeta,
       DrainSync, Channel!vars
  <2>7. CASE FlushCall \/ OwnerStep \/ DestroyStop
    BY <2>7 DEF FlushCall, OwnerStep, FlushLoadFirst, FlushCompare, FlushSink,
       DestroyStop, DestroyJoin, Channel!vars
  <2>8. CASE UNCHANGED vars
    BY <2>8 DEF vars, Channel!vars
  <2> QED
    BY <2>1, <2>2, <2>3, <2>4, <2>5, <2>6, <2>7, <2>8
       DEF Next, LogStep, DrainStep, Terminated
<1> QED
  BY <1>1, <1>2, Invariance, PTL DEF Spec, ImplementsChannel, Channel!Spec
=============================================================================
