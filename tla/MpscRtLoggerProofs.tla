------------------------- MODULE MpscRtLoggerProofs -------------------------
(***************************************************************************)
(* Proofs about MpscRtLogger, for every set of producers, every capacity   *)
(* of at least two cells, every set of levels and every bound on the       *)
(* number of calls.  With a single cell the claim protocol is broken (the  *)
(* sequence of a published cell looks free), so the theorems assume more.  *)
(***************************************************************************)
EXTENDS MpscRtLogger, RingLemmas, FiniteSetTheorems

-----------------------------------------------------------------------------
(* The inductive invariant behind the safety properties, by parts.         *)

\* The drain thread never overtakes the claims, and the histories count the
\* two positions.
Indices ==
  /\ dequeue_pos <= enqueue_pos
  /\ dpc = "free" => dequeue_pos > 0
  /\ dpc \in {"read", "log", "advance"} => dequeue_pos < enqueue_pos /\ Ready
  /\ Len(accepted) = enqueue_pos
  /\ Len(sink) = dequeue_pos + (IF dpc = "advance" THEN 1 ELSE 0)

\* The sequence of a cell tells where it is in its lap: i while position i may
\* claim it or fills it, i + 1 once it is published.
Laps ==
  /\ \A i \in Freed..(enqueue_pos - 1) : sequence[Slot(i)] \in {i, i + 1}
  /\ \A i \in Freed..(dequeue_pos - 1) : sequence[Slot(i)] = i + 1
  /\ \A i \in enqueue_pos..(Freed + Capacity - 1) : sequence[Slot(i)] = i

\* A position a producer looks at is not ahead of the claims, its cell is
\* behind it only when the ring is full, and an exchange that would succeed
\* finds the cell still free.
Candidates ==
  \A p \in Deciding :
    /\ pos[p] <= enqueue_pos
    /\ pos[p] < Freed + Capacity => sequence[Slot(pos[p])] >= pos[p]
    /\ pc[p] = "cas" /\ pos[p] = enqueue_pos => enqueue_pos < Freed + Capacity

\* A producer past its claim owns an unpublished cell, filled as far as pc
\* says.
Owners ==
  \A p \in Producers : Writing(p) =>
    /\ pos[p] \in dequeue_pos..(enqueue_pos - 1)
    /\ sequence[Slot(pos[p])] = pos[p]
    /\ accepted[pos[p] + 1] = Whole(Id(p))
    /\ pc[p] # "meta" => cells[Slot(pos[p])].meta = Id(p)
    /\ pc[p] = "publish" => cells[Slot(pos[p])].text = Id(p)

\* Published cells hold the record that was claimed for them.
Contents ==
  /\ \A i \in dequeue_pos..(enqueue_pos - 1) :
       sequence[Slot(i)] = i + 1 => cells[Slot(i)] = accepted[i + 1]
  /\ dpc = "log" => dmeta = accepted[dequeue_pos + 1].meta

\* A claimed record is a call its producer made; a call still deciding has
\* none.
FromCall(r) ==
  /\ r.meta \in Producers \X (1..MaxCalls)
  /\ r.text = r.meta
  /\ r.meta[2] <= calls[r.meta[1]]
  /\ r.meta[1] \in Deciding => r.meta[2] < calls[r.meta[1]]

\* The sink holds a prefix of the claimed records, and these are numbered in
\* the order of each producer's calls.
History ==
  /\ \A i \in 1..Len(sink) : sink[i] = accepted[i]
  /\ \A i \in 1..Len(accepted) : FromCall(accepted[i])
  /\ \A i, j \in 1..Len(accepted) :
       i < j /\ accepted[i].meta[1] = accepted[j].meta[1]
         => accepted[i].meta[2] < accepted[j].meta[2]

\* Every call is accounted for by the counters alone.
Counted ==
  /\ IsFiniteSet(Deciding)
  /\ logged = filtered + dropped + Cardinality(Deciding) + enqueue_pos
  /\ logged <= MaxCalls
  /\ \A p \in Producers : calls[p] <= logged /\ (pc[p] # "idle" => calls[p] > 0)

\* What Flush() has learnt so far.
FlushProgress ==
  /\ Flushing => mark <= enqueue_pos
  /\ opc = "dequeue_seen" => seen <= dequeue_pos
  /\ opc = "enqueue_seen" => mark <= seen /\ seen <= enqueue_pos
  /\ opc = "sync" => mark <= dequeue_pos
  /\ ~Flushing => mark <= synced
  /\ synced <= Len(sink)

IInv == /\ TypeOK /\ Indices /\ Laps /\ Candidates /\ Owners /\ Contents
        /\ History /\ Counted /\ FlushProgress

\* Besides: a position that was found taken is behind the claims, and what a
\* producer claimed in earlier calls is behind the position it looks at now.
StalePositions ==
  \A p \in Deciding :
    /\ pc[p] = "reload" => pos[p] < enqueue_pos
    /\ \A k \in 1..Len(accepted) : accepted[k].meta[1] = p => k <= pos[p]

-----------------------------------------------------------------------------
\* The initial state: every cell is free for the first lap.
LEMMA InitInv == Init => IInv
<1> SUFFICES ASSUME Init
             PROVE  IInv
  OBVIOUS
<1>1. /\ Freed = 0 /\ Capacity \in Nat \ {0}
      /\ Deciding = {} /\ \A p \in Producers : ~Writing(p)
  BY RingAssumption DEF Init, Freed, Deciding, Writing
<1>2. TypeOK
  <2>1. Whole(None) \in Recs
    BY DEF Recs, Ids, Whole
  <2> QED
    BY <1>1, <2>1, MaxCallsAssumption DEF Init, TypeOK, Slots, Ids
<1>3. Laps
  <2>1. \A i \in 0..(Capacity - 1) : Slot(i) = i
    BY SlotFirstLap DEF Slots
  <2> QED
    BY <1>1, <2>1 DEF Init, Laps, Slots
<1>4. Indices /\ Candidates /\ Owners /\ Contents /\ History /\ FlushProgress
  BY <1>1 DEF Init, Indices, Candidates, Owners, Contents, History,
     FlushProgress, Flushing
<1>5. Counted
  BY <1>1, FS_EmptySet, MaxCallsAssumption DEF Init, Counted
<1> QED
  BY <1>2, <1>3, <1>4, <1>5 DEF IInv

-----------------------------------------------------------------------------
\* The cells in use span at most one lap.
LEMMA Bounds ==
  ASSUME IInv
  PROVE  /\ Capacity \in Nat \ {0} /\ Freed \in Nat
         /\ enqueue_pos \in Nat /\ dequeue_pos \in Nat
         /\ Freed <= dequeue_pos /\ dequeue_pos <= enqueue_pos
         /\ enqueue_pos <= Freed + Capacity
<1>1. /\ Capacity \in Nat \ {0} /\ enqueue_pos \in Nat /\ dequeue_pos \in Nat
      /\ dequeue_pos <= enqueue_pos /\ Freed \in Nat /\ Freed <= dequeue_pos
  BY RingAssumption DEF IInv, TypeOK, Indices, Freed
<1>2. enqueue_pos - Freed \in 0..Capacity
  BY DEF IInv, TypeOK
<1> QED
  BY <1>1, <1>2

\* Different positions of the current lap have cells of their own.
LEMMA LapCells ==
  ASSUME IInv,
         NEW i \in Freed..(Freed + Capacity - 1),
         NEW j \in Freed..(Freed + Capacity - 1)
  PROVE  /\ i \in Nat /\ Slot(i) \in Slots
         /\ i # j => Slot(i) # Slot(j)
<1>1. i \in Nat /\ j \in Nat /\ i < j + Capacity /\ j < i + Capacity
  BY Bounds
<1> QED
  BY <1>1, SlotInSlots, SlotsDiffer

\* A producer filling a cell has a claimed position of the lap, and no two
\* have the same.
LEMMA OwnCell ==
  ASSUME IInv, NEW p \in Producers, Writing(p)
  PROVE  /\ pos[p] \in Nat /\ pos[p] \in Freed..(Freed + Capacity - 1)
         /\ pos[p] \in dequeue_pos..(enqueue_pos - 1)
         /\ Slot(pos[p]) \in Slots
         /\ \A q \in Producers \ {p} : Writing(q) => pos[q] # pos[p]
<1>1. pos[p] \in dequeue_pos..(enqueue_pos - 1)
  BY DEF IInv, Owners
<1>2. pos[p] \in Nat /\ pos[p] \in Freed..(Freed + Capacity - 1)
  BY <1>1, Bounds
<1>3. ASSUME NEW q \in Producers \ {p}, Writing(q), pos[q] = pos[p]
      PROVE  FALSE
  <2>1. Whole(Id(p)) = Whole(Id(q))
    BY <1>3 DEF IInv, Owners
  <2>2. Id(p) = Id(q)
    BY <2>1 DEF Whole
  <2> QED
    BY <2>2 DEF Id
<1> QED
  BY <1>1, <1>2, <1>3, LapCells

\* The cell the drain thread reads holds the oldest claimed record that the
\* sink has not got.
LEMMA OldestRecord ==
  ASSUME IInv, dpc \in {"read", "log"}
  PROVE  /\ dequeue_pos + 1 \in 1..Len(accepted)
         /\ accepted[dequeue_pos + 1] \in Recs
         /\ cells[Slot(dequeue_pos)] = accepted[dequeue_pos + 1]
<1>1. /\ dequeue_pos \in dequeue_pos..(enqueue_pos - 1)
      /\ dequeue_pos + 1 \in 1..Len(accepted)
      /\ sequence[Slot(dequeue_pos)] = dequeue_pos + 1
  BY Bounds DEF IInv, Indices, Ready
<1>2. accepted[dequeue_pos + 1] \in Recs
  BY <1>1 DEF IInv, TypeOK
<1> QED
  BY <1>1, <1>2 DEF IInv, Contents

\* What the drain thread hands to the sink is that record, whole.
LEMMA LoggedRecord ==
  ASSUME IInv, dpc = "log"
  PROVE  [meta |-> dmeta, text |-> cells[Slot(dequeue_pos)].text]
           = accepted[dequeue_pos + 1]
<1>1. /\ cells[Slot(dequeue_pos)] = accepted[dequeue_pos + 1]
      /\ accepted[dequeue_pos + 1] \in Recs
  BY OldestRecord
<1>2. dmeta = accepted[dequeue_pos + 1].meta
  BY DEF IInv, Contents
<1> QED
  BY <1>1, <1>2 DEF Recs

\* Later calls do not change where a claimed record came from.
LEMMA FromCallKept ==
  ASSUME NEW r, FromCall(r),
         calls \in [Producers -> Nat], calls' \in [Producers -> Nat],
         \A q \in Producers :
           /\ calls[q] <= calls'[q]
           /\ q \in Deciding' => q \in Deciding \/ calls[q] < calls'[q]
  PROVE  FromCall(r)'
<1>1. r.meta[1] \in Producers /\ r.meta[2] \in Nat
  BY MaxCallsAssumption DEF FromCall
<1> QED
  BY <1>1 DEF FromCall

-----------------------------------------------------------------------------
(* The steps of Log().                                                     *)

\* A producer that has not claimed a cell looks at the ring and at positions:
\* nothing but its own place, its call number and the counters change.
LEMMA LookingKeeps ==
  ASSUME IInv, NEW p \in Producers, pc[p] \in {"idle", "seq", "reload", "cas"},
         NEW s \in {"idle", "seq", "reload", "cas"}, pc' = [pc EXCEPT ![p] = s],
         \A q \in Producers \ {p} : pos'[q] = pos[q] /\ calls'[q] = calls[q],
         pos' \in [Producers -> Nat],
         UNCHANGED <<enqueue_pos, dequeue_pos, sequence, cells, accepted,
                     drain, owner, output>>
  PROVE  /\ Freed' = Freed
         /\ Indices' /\ Laps' /\ Owners' /\ Contents' /\ FlushProgress'
<1> USE DEF drain, owner, output
<1>0. TypeOK /\ Indices /\ Laps /\ Owners /\ Contents /\ FlushProgress
  BY DEF IInv
<1>1. Freed' = Freed
  BY DEF Freed
<1>2. Indices' /\ FlushProgress'
  BY <1>0 DEF Indices, Ready, FlushProgress, Flushing
<1>3. Laps' /\ Contents'
  BY <1>0, <1>1 DEF Laps, Contents
<1>4. Owners'
  BY <1>0, ZenonT(30) DEF TypeOK, Owners, Writing, Id
<1> QED
  BY <1>1, <1>2, <1>3, <1>4

\* Log() below the level.
LEMMA LogFilteredInv ==
  ASSUME IInv, NEW p \in Producers, LogFiltered(p)
  PROVE  IInv'
<1> USE DEF LogFiltered, members, drain, owner, output
<1>0. TypeOK /\ Candidates /\ History /\ Counted
  BY DEF IInv
<1>1. /\ Freed' = Freed /\ Deciding' = Deciding
      /\ Indices' /\ Laps' /\ Owners' /\ Contents' /\ FlushProgress'
  <2>1. pc' = [pc EXCEPT ![p] = "idle"]
    BY <1>0 DEF TypeOK
  <2>2. Deciding' = Deciding
    BY DEF Deciding
  <2> QED
    BY <1>0, <2>1, <2>2, LookingKeeps DEF TypeOK
<1>2. calls[p] \in Nat /\ calls[p] + 1 <= MaxCalls /\ calls[p] <= logged
  BY <1>0, MaxCallsAssumption, SMTT(30) DEF TypeOK, Counted
<1>3. TypeOK'
  BY <1>0, <1>1, <1>2, MaxCallsAssumption, SMTT(30) DEF TypeOK
<1>4. Candidates'
  BY <1>0, <1>1 DEF Candidates
<1>5. History'
  <2>1. \A q \in Producers :
          calls[q] <= calls'[q] /\ calls[q] \in Nat /\ calls'[q] \in Nat
    BY <1>0, <1>2 DEF TypeOK
  <2>2. \A r : FromCall(r) => FromCall(r)'
    BY <1>0, <1>1, <2>1, <1>3, MaxCallsAssumption, FromCallKept DEF TypeOK
  <2> QED
    BY <1>0, <2>2 DEF History
<1>6. Counted'
  <2>1. Cardinality(Deciding) \in Nat
    BY <1>0, FS_CardinalityType DEF Counted
  <2>2. ASSUME NEW q \in Producers
        PROVE  calls'[q] <= logged + 1 /\ (pc'[q] # "idle" => calls'[q] > 0)
    <3>1. /\ calls'[q] = IF q = p THEN calls[q] + 1 ELSE calls[q]
          /\ calls[q] \in Nat /\ logged \in Nat
      BY <1>0, MaxCallsAssumption DEF TypeOK
    <3>2. calls[q] <= logged /\ (pc[q] # "idle" => calls[q] > 0)
      BY <1>0 DEF Counted
    <3> QED
      BY <3>1, <3>2
  <2> QED
    BY <1>0, <1>1, <1>2, <2>1, <2>2, MaxCallsAssumption, SMTT(30) DEF TypeOK, Counted
<1> QED
  BY <1>1, <1>3, <1>4, <1>5, <1>6 DEF IInv

\* Log() passes the level and loads enqueue_pos_.
LEMMA LogLoadPosInv ==
  ASSUME IInv, NEW p \in Producers, LogLoadPos(p)
  PROVE  IInv'
<1> USE DEF LogLoadPos, members, drain, owner, output
<1>0. TypeOK /\ Candidates /\ History /\ Counted
  BY DEF IInv
<1>1. /\ Freed' = Freed
      /\ Indices' /\ Laps' /\ Owners' /\ Contents' /\ FlushProgress'
  BY <1>0, LookingKeeps DEF TypeOK
<1>2. /\ calls[p] \in Nat /\ calls[p] + 1 <= MaxCalls /\ calls[p] <= logged
      /\ logged + 1 <= MaxCalls /\ logged \in Nat
  BY <1>0, MaxCallsAssumption DEF TypeOK, Counted
<1>3. p \notin Deciding /\ Deciding' = Deciding \cup {p}
  BY <1>0 DEF TypeOK, Deciding
<1>4. TypeOK'
  BY <1>0, <1>1, <1>2, MaxCallsAssumption, SMTT(30) DEF TypeOK
<1>5. Candidates'
  <2>1. pos'[p] = enqueue_pos /\ pc'[p] = "seq"
    BY <1>0 DEF TypeOK
  <2>2. enqueue_pos < Freed + Capacity => sequence[Slot(enqueue_pos)] = enqueue_pos
    BY Bounds DEF IInv, Laps
  <2>3. \A q \in Deciding : pos'[q] = pos[q] /\ pc'[q] = pc[q]
    BY <1>0, <1>3 DEF TypeOK, Deciding
  <2> QED
    BY <1>0, <1>1, <1>3, <2>1, <2>2, <2>3, Bounds DEF Candidates
<1>6. History'
  <2>1. \A q \in Producers :
          /\ calls[q] <= calls'[q] /\ calls[q] \in Nat /\ calls'[q] \in Nat
          /\ q \in Deciding' => q \in Deciding \/ calls[q] < calls'[q]
    BY <1>0, <1>2, <1>3 DEF TypeOK
  <2>2. \A r : FromCall(r) => FromCall(r)'
    BY <1>0, <2>1, <1>4, MaxCallsAssumption, FromCallKept, ZenonT(30) DEF TypeOK
  <2> QED
    BY <1>0, <2>2 DEF History
<1>7. Counted'
  <2>1. IsFiniteSet(Deciding) /\ Cardinality(Deciding) \in Nat
    BY <1>0, FS_CardinalityType DEF Counted
  <2>2. IsFiniteSet(Deciding') /\ Cardinality(Deciding') = Cardinality(Deciding) + 1
    BY <1>3, <2>1, FS_AddElement
  <2>3. \A q \in Producers : calls'[q] <= logged + 1 /\ (pc'[q] # "idle" => calls'[q] > 0)
    BY <1>0, <1>2, SMTT(30) DEF TypeOK, Counted
  <2> QED
    BY <1>0, <1>2, <2>1, <2>2, <2>3, SMTT(30) DEF TypeOK, Counted
<1> QED
  BY <1>1, <1>4, <1>5, <1>6, <1>7 DEF IInv

\* The cell is free (LogCellFree): with two cells or more, a free cell at the
\* end of the claims means that the ring is not full.
LEMMA LogCellFreeInv ==
  ASSUME Capacity > 1, IInv, NEW p \in Producers, LogCellFree(p)
  PROVE  IInv'
<1> USE DEF LogCellFree, members, drain, owner, output
<1>0. TypeOK /\ Candidates /\ History /\ Counted
  BY DEF IInv
<1>1. /\ Freed' = Freed
      /\ Indices' /\ Laps' /\ Owners' /\ Contents' /\ FlushProgress'
  BY <1>0, LookingKeeps DEF TypeOK
<1>2. p \in Deciding /\ Deciding' = Deciding
  BY <1>0 DEF TypeOK, Deciding
<1>3. TypeOK'
  BY <1>0, <1>1 DEF TypeOK
<1>4. Candidates'
  <2>1. ASSUME pos[p] = enqueue_pos, ~(enqueue_pos < Freed + Capacity)
        PROVE  FALSE
    <3>1. enqueue_pos = Freed + Capacity /\ Freed \in Freed..(enqueue_pos - 1)
      BY <2>1, Bounds
    <3>2. sequence[Slot(Freed)] \in {Freed, Freed + 1}
      BY <3>1 DEF IInv, Laps
    <3>3. Slot(enqueue_pos) = Slot(Freed)
      BY <3>1, Bounds, SlotNextLap
    <3>4. sequence[Slot(enqueue_pos)] = enqueue_pos
      <4>1. Slot(enqueue_pos) \in Slots
        BY Bounds, SlotInSlots
      <4>2. sequence[Slot(enqueue_pos)] \in Nat
        BY <1>0, <4>1 DEF TypeOK
      <4> QED
        BY <2>1, <4>2, Bounds DEF Diff
    <3> QED
      BY <3>1, <3>2, <3>3, <3>4, Bounds
  <2>2. \A q \in Deciding : q # p => pc'[q] = pc[q]
    BY <1>0 DEF TypeOK, Deciding
  <2> QED
    BY <1>0, <1>1, <1>2, <2>1, <2>2 DEF Candidates
<1>5. History'
  BY <1>0, <1>2 DEF History, FromCall
<1>6. Counted'
  BY <1>0, <1>2 DEF TypeOK, Counted, Deciding
<1> QED
  BY <1>1, <1>3, <1>4, <1>5, <1>6 DEF IInv

\* The ring is full: the record is dropped and the call over.
LEMMA LogFullInv ==
  ASSUME IInv, NEW p \in Producers, LogFull(p)
  PROVE  IInv'
<1> USE DEF LogFull, drain, owner, output
<1>0. TypeOK /\ Candidates /\ History /\ Counted
  BY DEF IInv
<1>1. /\ Freed' = Freed
      /\ Indices' /\ Laps' /\ Owners' /\ Contents' /\ FlushProgress'
  BY <1>0, LookingKeeps DEF TypeOK
<1>2. p \in Deciding /\ Deciding' = Deciding \ {p}
  BY <1>0 DEF TypeOK, Deciding
<1>3. TypeOK'
  BY <1>0, <1>1 DEF TypeOK
<1>4. Candidates'
  <2>1. \A q \in Deciding' : q \in Deciding /\ pc'[q] = pc[q]
    BY <1>0, <1>2 DEF TypeOK, Deciding
  <2> QED
    BY <1>0, <1>1, <2>1 DEF Candidates
<1>5. History'
  BY <1>0, <1>2 DEF History, FromCall
<1>6. Counted'
  <2>1. IsFiniteSet(Deciding) /\ Cardinality(Deciding) \in Nat
    BY <1>0, FS_CardinalityType DEF Counted
  <2>2. IsFiniteSet(Deciding') /\ Cardinality(Deciding') = Cardinality(Deciding) - 1
    BY <1>2, <2>1, FS_RemoveElement
  <2>3. \A q \in Producers : calls'[q] <= logged /\ (pc'[q] # "idle" => calls'[q] > 0)
    BY <1>0 DEF TypeOK, Counted
  <2>4. logged = filtered + dropped' + Cardinality(Deciding') + enqueue_pos
    BY <1>0, <2>1, <2>2 DEF TypeOK, Counted
  <2> QED
    BY <1>0, <2>2, <2>3, <2>4 DEF Counted
<1> QED
  BY <1>1, <1>3, <1>4, <1>5, <1>6 DEF IInv

\* The position was stale, or the exchange failed: the producer looks again at
\* the position it has or at the current one.
LEMMA LogRetryInv ==
  ASSUME IInv, NEW p \in Producers,
         LogBehind(p) \/ LogReload(p) \/ LogClaimLost(p) \/ LogClaimSpurious(p)
  PROVE  IInv'
<1> USE DEF LogBehind, LogReload, LogClaimLost, LogClaimSpurious, members,
            drain, owner, output
<1>0. TypeOK /\ Candidates /\ History /\ Counted
  BY DEF IInv
<1>1. /\ pc[p] \in {"seq", "reload", "cas"}
      /\ \E s \in {"seq", "reload"} : pc' = [pc EXCEPT ![p] = s]
      /\ pos' = pos \/ pos' = [pos EXCEPT ![p] = enqueue_pos]
      /\ UNCHANGED <<members, calls, logged, filtered, accepted, drain, owner,
                     output>>
  OBVIOUS
<1>2. pos' \in [Producers -> Nat]
  BY <1>0, <1>1 DEF TypeOK
<1>3. /\ Freed' = Freed
      /\ Indices' /\ Laps' /\ Owners' /\ Contents' /\ FlushProgress'
  BY <1>0, <1>1, <1>2, LookingKeeps DEF TypeOK
<1>4. p \in Deciding /\ Deciding' = Deciding
  BY <1>0, <1>1 DEF TypeOK, Deciding
<1>5. TypeOK'
  BY <1>0, <1>1, <1>2, <1>3, ZenonT(30) DEF TypeOK
<1>6. Candidates'
  <2>1. enqueue_pos < Freed + Capacity => sequence[Slot(enqueue_pos)] = enqueue_pos
    BY Bounds DEF IInv, Laps
  <2>2. \A q \in Deciding : q # p => pos'[q] = pos[q] /\ pc'[q] = pc[q]
    BY <1>0, <1>1 DEF TypeOK, Deciding
  <2>3. pc'[p] # "cas" /\ pos'[p] \in {pos[p], enqueue_pos}
    BY <1>0, <1>1 DEF TypeOK
  <2> QED
    BY <1>0, <1>1, <1>3, <1>4, <2>1, <2>2, <2>3, Bounds DEF Candidates
<1>7. History'
  BY <1>0, <1>1, <1>4 DEF History, FromCall
<1>8. Counted'
  BY <1>0, <1>1, <1>4 DEF TypeOK, Counted
<1> QED
  BY <1>3, <1>5, <1>6, <1>7, <1>8 DEF IInv

\* The exchange succeeds: the position becomes the producer's own.
LEMMA LogClaimInv ==
  ASSUME IInv, NEW p \in Producers, LogClaim(p)
  PROVE  IInv'
<1>0. /\ TypeOK /\ Indices /\ Laps /\ Candidates /\ Owners /\ Contents
      /\ History /\ Counted /\ FlushProgress
  BY DEF IInv
<1>a. /\ pc[p] = "cas" /\ pos[p] = enqueue_pos
      /\ enqueue_pos' = enqueue_pos + 1
      /\ pc' = [pc EXCEPT ![p] = "meta"]
      /\ UNCHANGED <<dequeue_pos, dropped, running, min_level, sequence, cells,
                     pos, calls, logged, filtered, dpc, dmeta, opc, seen, mark,
                     sink, synced>>
  BY DEF LogClaim, drain, owner, output
<1>b. /\ Capacity \in Nat \ {0} /\ Freed \in Nat
      /\ enqueue_pos \in Nat /\ dequeue_pos \in Nat
      /\ Freed <= dequeue_pos /\ dequeue_pos <= enqueue_pos
      /\ enqueue_pos <= Freed + Capacity
  BY Bounds
<1>1. Freed' = Freed
  BY <1>a DEF Freed
<1>2. p \in Deciding /\ Deciding' = Deciding \ {p}
  BY <1>0, <1>a DEF TypeOK, Deciding
<1>3. enqueue_pos < Freed + Capacity /\ pos[p] = enqueue_pos
  BY <1>0, <1>a, <1>2 DEF Candidates
<1>4. calls[p] \in 1..MaxCalls
  <2>1. calls[p] \in 0..MaxCalls
    BY <1>0 DEF TypeOK
  <2>2. calls[p] > 0
    BY <1>0, <1>a DEF Counted
  <2> QED
    BY <2>1, <2>2, MaxCallsAssumption
<1>5. PICK r \in Recs : /\ r = Whole(Id(p))
                       /\ r.meta = <<p, calls[p]>> /\ r.text = <<p, calls[p]>>
  <2>1. Id(p) \in Ids /\ Id(p) = <<p, calls[p]>>
    BY <1>4 DEF Id, Ids
  <2>2. Whole(Id(p)) \in Recs /\ Whole(Id(p)).meta = Id(p) /\ Whole(Id(p)).text = Id(p)
    BY <2>1 DEF Whole, Recs
  <2> QED
    BY <2>1, <2>2
<1>6. /\ accepted' \in Seq(Recs) /\ Len(accepted') = enqueue_pos + 1
      /\ \A i \in 1..enqueue_pos : accepted'[i] = accepted[i]
      /\ accepted'[enqueue_pos + 1] = r
  <2>1. accepted' = Append(accepted, r)
    BY <1>5 DEF LogClaim
  <2>2. accepted \in Seq(Recs) /\ Len(accepted) = enqueue_pos
    BY <1>0 DEF TypeOK, Indices
  <2> QED
    BY <1>5, <2>1, <2>2
<1>c. \A i \in dequeue_pos..(enqueue_pos - 1) : accepted'[i + 1] = accepted[i + 1]
  <2> TAKE i \in dequeue_pos..(enqueue_pos - 1)
  <2>1. i + 1 \in 1..enqueue_pos
    BY <1>b
  <2> QED
    BY <1>6, <2>1
<1>7. TypeOK'
  BY <1>0, <1>a, <1>1, <1>3, <1>6, <1>b DEF TypeOK
<1>8. Indices'
  BY <1>0, <1>a, <1>6, <1>b DEF Indices, Ready
<1>9. Laps'
  <2>1. sequence[Slot(enqueue_pos)] = enqueue_pos
    BY <1>0, <1>a, <1>3, <1>b DEF Laps
  <2> QED
    BY <1>0, <1>a, <1>1, <2>1, <1>b DEF Laps
<1>10. Candidates'
  <2>1. \A q \in Deciding' : q \in Deciding /\ pc'[q] = pc[q] /\ pos[q] \in Nat
    BY <1>0, <1>a, <1>2 DEF TypeOK, Deciding
  <2> QED
    BY <1>0, <1>a, <1>1, <2>1, <1>b DEF Candidates
<1>11. Owners'
  <2>1. /\ pos[p] \in dequeue_pos..(enqueue_pos' - 1) /\ pc'[p] = "meta"
        /\ sequence[Slot(pos[p])] = pos[p]
        /\ accepted'[pos[p] + 1] = Whole(Id(p))
    BY <1>0, <1>a, <1>b, <1>3, <1>5, <1>6 DEF TypeOK, Laps
  <2>2. ASSUME NEW q \in Producers, q # p, Writing(q)'
        PROVE  /\ Writing(q) /\ pc'[q] = pc[q]
               /\ pos[q] \in dequeue_pos..(enqueue_pos' - 1)
               /\ accepted'[pos[q] + 1] = accepted[pos[q] + 1]
    <3>1. Writing(q) /\ pc'[q] = pc[q]
      BY <1>0, <1>a, <2>2 DEF TypeOK, Writing
    <3>2. pos[q] \in dequeue_pos..(enqueue_pos - 1)
      BY <1>0, <3>1 DEF Owners
    <3> QED
      BY <1>a, <1>b, <1>c, <3>1, <3>2
  <2>3. Id(p)' = Id(p) /\ \A q \in Producers : Id(q)' = Id(q)
    BY <1>a DEF Id
  <2>4. ASSUME NEW q \in Producers, Writing(q)'
        PROVE  /\ pos[q] \in dequeue_pos..(enqueue_pos' - 1)
               /\ sequence[Slot(pos[q])] = pos[q]
               /\ accepted'[pos[q] + 1] = Whole(Id(q))
               /\ pc'[q] # "meta" => cells[Slot(pos[q])].meta = Id(q)
               /\ pc'[q] = "publish" => cells[Slot(pos[q])].text = Id(q)
    <3>1. CASE q = p
      BY <2>1, <3>1
    <3>2. CASE q # p
      BY <1>0, <2>2, <2>4, <3>2 DEF Owners
    <3> QED
      BY <3>1, <3>2
  <2>5. \A q \in Producers : Whole(Id(q))' = Whole(Id(q))
    BY <2>3 DEF Whole
  <2> QED
    BY <1>a, <2>3, <2>4, <2>5 DEF Owners
<1>12. Contents'
  <2>1. sequence[Slot(enqueue_pos)] = enqueue_pos
    BY <1>0, <1>a, <1>3, <1>b DEF Laps
  <2>2. dpc = "log" => dequeue_pos \in dequeue_pos..(enqueue_pos - 1)
    BY <1>0, <1>a, <1>b DEF Indices
  <2> QED
    BY <1>0, <1>a, <1>c, <2>1, <2>2, <1>b DEF Contents
<1>13. History'
  <2>1. \A i \in 1..Len(sink) : sink[i] = accepted'[i]
    BY <1>0, <1>a, <1>6, <1>b DEF History, Indices
  <2>2. \A q : FromCall(q) => FromCall(q)'
    BY <1>a, <1>2 DEF FromCall
  <2>3. FromCall(r)'
    BY <1>a, <1>2, <1>4, <1>5 DEF FromCall
  <2>4. \A i \in 1..enqueue_pos :
          accepted[i].meta[1] = p => accepted[i].meta[2] < calls[p]
    BY <1>0, <1>a, <1>2 DEF History, Indices, FromCall
  <2>5. \A i \in 1..(enqueue_pos + 1) : FromCall(accepted[i])'
    BY <1>0, <1>a, <1>6, <2>2, <2>3, <1>b DEF History, Indices
  <2>6. ASSUME NEW i \in 1..(enqueue_pos + 1), NEW j \in 1..(enqueue_pos + 1),
               i < j, accepted'[i].meta[1] = accepted'[j].meta[1]
        PROVE  accepted'[i].meta[2] < accepted'[j].meta[2]
    <3>1. i \in 1..enqueue_pos /\ accepted'[i] = accepted[i]
      BY <1>b, <1>6, <2>6
    <3>2. CASE j = enqueue_pos + 1
      BY <1>5, <1>6, <2>4, <2>6, <3>1, <3>2
    <3>3. CASE j \in 1..enqueue_pos
      BY <1>0, <1>6, <2>6, <3>1, <3>3 DEF History, Indices
    <3> QED
      BY <1>b, <3>2, <3>3
  <2> QED
    BY <1>a, <1>6, <2>1, <2>5, <2>6 DEF History
<1>14. Counted'
  <2>1. IsFiniteSet(Deciding) /\ Cardinality(Deciding) \in Nat
    BY <1>0, <1>a, FS_CardinalityType DEF Counted
  <2>2. IsFiniteSet(Deciding') /\ Cardinality(Deciding') = Cardinality(Deciding) - 1
    BY <1>2, <2>1, FS_RemoveElement
  <2>3. \A q \in Producers : calls'[q] <= logged /\ (pc'[q] # "idle" => calls'[q] > 0)
    BY <1>0, <1>a DEF TypeOK, Counted
  <2>4. logged = filtered + dropped + Cardinality(Deciding') + enqueue_pos'
    <3>1. /\ logged = filtered + dropped + Cardinality(Deciding) + enqueue_pos
          /\ filtered \in Nat /\ dropped \in Nat
      BY <1>0 DEF TypeOK, Counted
    <3> QED
      BY <1>a, <1>b, <2>1, <2>2, <3>1
  <2> QED
    BY <1>0, <1>a, <2>2, <2>3, <2>4 DEF Counted
<1>15. FlushProgress'
  BY <1>0, <1>a, <1>b DEF TypeOK, FlushProgress, Flushing
<1> QED
  BY <1>7, <1>8, <1>9, <1>10, <1>11, <1>12, <1>13, <1>14, <1>15 DEF IInv

\* The producer fills its cell: no other position of the lap has that cell.
LEMMA FillingKeeps ==
  ASSUME IInv, NEW p \in Producers, LogWriteMeta(p) \/ LogWriteText(p)
  PROVE  /\ cells' \in [Slots -> Recs]
         /\ \A i \in Freed..(Freed + Capacity - 1) :
              i # pos[p] => cells'[Slot(i)] = cells[Slot(i)]
         /\ Slot(pos[p]) \in Slots /\ Writing(p) /\ Id(p) \in Ids
<1>1. Writing(p)
  BY DEF LogWriteMeta, LogWriteText, Writing
<1>2. pos[p] \in Freed..(Freed + Capacity - 1) /\ Slot(pos[p]) \in Slots
  BY <1>1, OwnCell
<1>3. Id(p) \in Ids
  <2>1. calls[p] \in 0..MaxCalls
    BY DEF IInv, TypeOK
  <2>2. calls[p] > 0
    BY <1>1 DEF IInv, Counted, Writing
  <2> QED
    BY <2>1, <2>2, MaxCallsAssumption DEF Id, Ids
<1>4. cells \in [Slots -> Recs]
  BY DEF IInv, TypeOK
<1>5. \/ cells' = [cells EXCEPT ![Slot(pos[p])].meta = Id(p)]
      \/ cells' = [cells EXCEPT ![Slot(pos[p])].text = Id(p)]
  BY DEF LogWriteMeta, LogWriteText
<1>6. cells' \in [Slots -> Recs]
  BY <1>2, <1>3, <1>4, <1>5 DEF Recs
<1>7. ASSUME NEW i \in Freed..(Freed + Capacity - 1), i # pos[p]
      PROVE  cells'[Slot(i)] = cells[Slot(i)]
  <2>1. Slot(i) \in Slots /\ Slot(i) # Slot(pos[p])
    BY <1>2, <1>7, LapCells
  <2> QED
    BY <1>4, <1>5, <2>1
<1> QED
  BY <1>1, <1>2, <1>3, <1>6, <1>7

\* meta and then text of the record are stored.
LEMMA LogWriteInv ==
  ASSUME IInv, NEW p \in Producers, LogWriteMeta(p) \/ LogWriteText(p)
  PROVE  IInv'
<1> USE DEF LogWriteMeta, LogWriteText, drain, owner, output
<1>0. /\ TypeOK /\ Indices /\ Laps /\ Candidates /\ Owners /\ Contents
      /\ History /\ Counted /\ FlushProgress
  BY DEF IInv
<1>1. /\ cells' \in [Slots -> Recs]
      /\ \A i \in Freed..(Freed + Capacity - 1) :
           i # pos[p] => cells'[Slot(i)] = cells[Slot(i)]
      /\ Slot(pos[p]) \in Slots /\ Writing(p) /\ Id(p) \in Ids
  BY FillingKeeps
<1>2. Freed' = Freed /\ Deciding' = Deciding
  BY <1>0 DEF Freed, TypeOK, Deciding
<1>3. \A q \in Producers : Writing(q)' => Writing(q) /\ (q # p => pc'[q] = pc[q])
  BY <1>0 DEF TypeOK, Writing
<1>4. TypeOK'
  BY <1>0, <1>1, <1>2, ZenonT(30) DEF TypeOK
<1>5. Indices' /\ FlushProgress'
  BY <1>0 DEF Indices, Ready, FlushProgress, Flushing
<1>6. Laps'
  BY <1>0, <1>2 DEF Laps
<1>7. Candidates'
  BY <1>0, <1>2, SMTT(30) DEF TypeOK, Candidates, Deciding
<1>8. Owners'
  <2>1. ASSUME NEW q \in Producers, q # p, Writing(q)
        PROVE  cells'[Slot(pos[q])] = cells[Slot(pos[q])]
    BY <1>1, <2>1, OwnCell
  <2>2. /\ pc'[p] # "meta" => cells'[Slot(pos[p])].meta = Id(p)
        /\ pc'[p] = "publish" => cells'[Slot(pos[p])].text = Id(p)
    <3>1. CASE LogWriteMeta(p)
      BY <1>0, <1>1, <3>1 DEF TypeOK, Recs
    <3>2. CASE LogWriteText(p)
      BY <1>0, <1>1, <3>2 DEF TypeOK, Recs, Owners
    <3> QED
      BY <3>1, <3>2
  <2> QED
    BY <1>0, <1>1, <1>3, <2>1, <2>2, SMTT(30) DEF Owners, Id
<1>9. Contents'
  <2>1. ASSUME NEW i \in dequeue_pos..(enqueue_pos - 1), sequence[Slot(i)] = i + 1
        PROVE  cells'[Slot(i)] = accepted[i + 1]
    <3>1. i # pos[p] /\ i \in Freed..(Freed + Capacity - 1)
      BY <1>0, <1>1, <2>1, Bounds DEF Owners
    <3> QED
      BY <1>0, <1>1, <2>1, <3>1 DEF Contents
  <2> QED
    BY <1>0, <2>1 DEF Contents
<1>10. History'
  BY <1>0, <1>2 DEF History, FromCall
<1>11. Counted'
  BY <1>0, <1>2 DEF TypeOK, Counted
<1> QED
  BY <1>4, <1>5, <1>6, <1>7, <1>8, <1>9, <1>10, <1>11 DEF IInv

\* The record is published: the cell's sequence advances by one.
LEMMA LogPublishInv ==
  ASSUME IInv, NEW p \in Producers, LogPublish(p)
  PROVE  IInv'
<1> USE DEF LogPublish, drain, owner, output
<1>0. /\ TypeOK /\ Indices /\ Laps /\ Candidates /\ Owners /\ Contents
      /\ History /\ Counted /\ FlushProgress
  BY DEF IInv
<1>1. Writing(p)
  BY DEF Writing
<1>2. /\ pos[p] \in Nat /\ pos[p] \in Freed..(Freed + Capacity - 1)
      /\ pos[p] \in dequeue_pos..(enqueue_pos - 1)
      /\ Slot(pos[p]) \in Slots
      /\ \A q \in Producers \ {p} : Writing(q) => pos[q] # pos[p]
  BY <1>1, OwnCell
<1>3. /\ sequence' \in [Slots -> Nat]
      /\ sequence'[Slot(pos[p])] = pos[p] + 1 /\ sequence[Slot(pos[p])] = pos[p]
      /\ \A s \in Slots : sequence'[s] >= sequence[s]
      /\ \A i \in Freed..(Freed + Capacity - 1) :
           i # pos[p] => sequence'[Slot(i)] = sequence[Slot(i)]
  <2>1. sequence \in [Slots -> Nat] /\ sequence[Slot(pos[p])] = pos[p]
    BY <1>0, <1>1 DEF TypeOK, Owners
  <2>2. \A i \in Freed..(Freed + Capacity - 1) :
          i # pos[p] => Slot(i) \in Slots /\ Slot(i) # Slot(pos[p])
    BY <1>2, LapCells
  <2> QED
    BY <1>2, <2>1, <2>2
<1>4. Freed' = Freed /\ Deciding' = Deciding
  BY <1>0 DEF Freed, TypeOK, Deciding
<1>5. \A q \in Producers : Writing(q)' => Writing(q) /\ q # p /\ pc'[q] = pc[q]
  BY <1>0 DEF TypeOK, Writing
<1>6. TypeOK'
  BY <1>0, <1>3, <1>4 DEF TypeOK
<1>7. Indices'
  <2>1. dpc \in {"read", "log", "advance"} =>
          dequeue_pos # pos[p] /\ dequeue_pos \in Freed..(Freed + Capacity - 1)
    BY <1>0, <1>3, Bounds DEF Indices, Ready
  <2> QED
    BY <1>0, <1>3, <2>1 DEF Indices, Ready
<1>8. Laps'
  <2>1. \A i \in Freed..(enqueue_pos - 1) : i \in Freed..(Freed + Capacity - 1)
    BY Bounds
  <2>2. \A i \in Freed..(dequeue_pos - 1) : i \in Freed..(Freed + Capacity - 1) /\ i # pos[p]
    BY <1>2, Bounds
  <2>3. \A i \in enqueue_pos..(Freed + Capacity - 1) :
          i \in Freed..(Freed + Capacity - 1) /\ i # pos[p]
    BY <1>2, Bounds
  <2> QED
    BY <1>0, <1>3, <1>4, <2>1, <2>2, <2>3 DEF Laps
<1>9. Candidates'
  <2>1. \A q \in Deciding : pos[q] \in Nat /\ pc'[q] = pc[q] /\ Slot(pos[q]) \in Slots
    BY <1>0, <1>1, SlotInSlots DEF TypeOK, Deciding, Writing
  <2>2. \A s \in Slots : sequence[s] \in Nat /\ sequence'[s] \in Nat
    BY <1>0, <1>3 DEF TypeOK
  <2> QED
    BY <1>0, <1>3, <1>4, <2>1, <2>2, Bounds DEF Candidates
<1>10. Owners'
  <2>1. ASSUME NEW q \in Producers, q # p, Writing(q)
        PROVE  sequence'[Slot(pos[q])] = sequence[Slot(pos[q])]
    <3>1. pos[q] \in Freed..(Freed + Capacity - 1) /\ pos[q] # pos[p]
      BY <1>2, <2>1, OwnCell
    <3> QED
      BY <1>3, <3>1
  <2> QED
    BY <1>0, <1>5, <2>1 DEF Owners, Id
<1>11. Contents'
  <2>1. cells[Slot(pos[p])] = accepted[pos[p] + 1]
    <3>1. cells[Slot(pos[p])] \in Recs
      BY <1>0, <1>2 DEF TypeOK
    <3>2. /\ cells[Slot(pos[p])].meta = Id(p) /\ cells[Slot(pos[p])].text = Id(p)
          /\ accepted[pos[p] + 1] = Whole(Id(p))
      BY <1>0, <1>1 DEF Owners
    <3> QED
      BY <3>1, <3>2 DEF Recs, Whole
  <2>2. ASSUME NEW i \in dequeue_pos..(enqueue_pos - 1), i # pos[p]
        PROVE  sequence'[Slot(i)] = sequence[Slot(i)]
    BY <1>3, <2>2, Bounds
  <2> QED
    BY <1>0, <2>1, <2>2 DEF Contents
<1>12. History'
  BY <1>0, <1>4 DEF History, FromCall
<1>13. Counted'
  BY <1>0, <1>4 DEF TypeOK, Counted
<1>14. FlushProgress'
  BY <1>0 DEF FlushProgress, Flushing
<1> QED
  BY <1>6, <1>7, <1>8, <1>9, <1>10, <1>11, <1>12, <1>13, <1>14 DEF IInv

-----------------------------------------------------------------------------
(* The steps of DrainLoop().                                               *)

\* The drain thread looks at the ring, sleeps, stops or flushes the sink: the
\* ring and the producers are left alone.
LEMMA DrainLooksInv ==
  ASSUME IInv,
         DrainSome \/ DrainEmpty \/ DrainSleep \/ DrainStop \/ DrainSync
  PROVE  IInv'
<1> USE DEF DrainSome, DrainEmpty, DrainSleep, DrainStop, DrainSync, members,
            producers, owner
<1>0. /\ TypeOK /\ Indices /\ Laps /\ Candidates /\ Owners /\ Contents
      /\ History /\ Counted /\ FlushProgress
  BY DEF IInv
<1>1. Freed' = Freed /\ Deciding' = Deciding
  BY DEF Freed, Deciding
<1>2. TypeOK'
  <2>1. /\ dpc' \in {"load", "poll", "read", "sync", "exited"}
        /\ sink' = sink /\ dmeta' = dmeta
    BY DEF output
  <2>2. synced' \in Nat
    BY <1>0 DEF TypeOK, output
  <2> QED
    BY <1>0, <1>1, <2>1, <2>2 DEF TypeOK
<1>3. Indices'
  <2>1. DrainSome => dequeue_pos < enqueue_pos
    <3> SUFFICES ASSUME dpc = "load", Ready, dequeue_pos = enqueue_pos
                 PROVE  FALSE
      BY Bounds
    <3>1. dequeue_pos \in enqueue_pos..(Freed + Capacity - 1)
      BY Bounds DEF Freed
    <3> QED
      BY <1>0, <3>1, Bounds DEF Laps, Ready
  <2> QED
    BY <1>0, <2>1 DEF Indices, Ready, output
<1>4. Laps' /\ Candidates' /\ Contents'
  BY <1>0, <1>1 DEF Laps, Candidates, Contents
<1>5. Owners'
  BY <1>0 DEF Owners, Writing, Id
<1>6. History' /\ Counted'
  BY <1>0, <1>1 DEF History, FromCall, Counted, output
<1>7. FlushProgress'
  BY <1>0, Bounds, SMTT(30) DEF Indices, FlushProgress, Flushing, output, TypeOK
<1> QED
  BY <1>2, <1>3, <1>4, <1>5, <1>6, <1>7 DEF IInv

\* The drain thread reads the first half of the cell.
LEMMA DrainReadMetaInv ==
  ASSUME IInv, DrainReadMeta
  PROVE  IInv'
<1> USE DEF DrainReadMeta, members, producers, owner, output
<1>0. /\ TypeOK /\ Indices /\ Laps /\ Candidates /\ Owners /\ Contents
      /\ History /\ Counted /\ FlushProgress
  BY DEF IInv
<1>1. Freed' = Freed /\ Deciding' = Deciding
  BY DEF Freed, Deciding
<1>2. dmeta' = accepted[dequeue_pos + 1].meta /\ dmeta' \in Ids
  BY OldestRecord DEF Recs
<1>3. TypeOK'
  BY <1>0, <1>1, <1>2 DEF TypeOK
<1>4. Indices' /\ FlushProgress'
  BY <1>0 DEF Indices, Ready, FlushProgress, Flushing
<1>5. Laps' /\ Candidates'
  BY <1>0, <1>1 DEF Laps, Candidates
<1>6. Owners' /\ Contents'
  BY <1>0, <1>2 DEF Owners, Contents, Writing, Id
<1>7. History' /\ Counted'
  BY <1>0, <1>1 DEF History, FromCall, Counted
<1> QED
  BY <1>3, <1>4, <1>5, <1>6, <1>7 DEF IInv

\* The record is handed to the sink.
LEMMA DrainLogInv ==
  ASSUME IInv, DrainLog
  PROVE  IInv'
<1>0. /\ TypeOK /\ Indices /\ Laps /\ Candidates /\ Owners /\ Contents
      /\ History /\ Counted /\ FlushProgress
  BY DEF IInv
<1>1. /\ sink' = Append(sink, accepted[dequeue_pos + 1])
      /\ accepted[dequeue_pos + 1] \in Recs
  BY LoggedRecord, OldestRecord DEF DrainLog
<1>2. sink \in Seq(Recs) /\ Len(sink) = dequeue_pos /\ dequeue_pos \in Nat
  BY <1>0 DEF DrainLog, TypeOK, Indices
<1>3. /\ sink' \in Seq(Recs) /\ Len(sink') = dequeue_pos + 1
      /\ \A i \in 1..dequeue_pos : sink'[i] = sink[i]
      /\ sink'[dequeue_pos + 1] = accepted[dequeue_pos + 1]
  BY <1>1, <1>2
<1>4. /\ dpc = "log" /\ dpc' = "advance"
      /\ UNCHANGED <<members, producers, dmeta, owner, synced>>
  BY DEF DrainLog
<1> USE DEF members, producers, owner
<1>5. Freed' = Freed /\ Deciding' = Deciding
  BY <1>4 DEF Freed, Deciding
<1>6. TypeOK'
  BY <1>0, <1>3, <1>4, <1>5 DEF TypeOK
<1>7. Indices'
  BY <1>0, <1>3, <1>4 DEF Indices, Ready
<1>8. Laps' /\ Candidates' /\ Contents'
  BY <1>0, <1>4, <1>5 DEF Laps, Candidates, Contents
<1>9. Owners'
  BY <1>0, <1>4 DEF Owners, Writing, Id
<1>10. History'
  <2>1. \A i \in 1..(dequeue_pos + 1) : sink'[i] = accepted[i]
    BY <1>0, <1>2, <1>3 DEF History
  <2> QED
    BY <1>0, <1>3, <1>4, <1>5, <2>1 DEF History, FromCall
<1>11. Counted'
  BY <1>0, <1>4, <1>5 DEF Counted
<1>12. FlushProgress'
  BY <1>0, <1>2, <1>3, <1>4 DEF TypeOK, FlushProgress, Flushing
<1> QED
  BY <1>6, <1>7, <1>8, <1>9, <1>10, <1>11, <1>12 DEF IInv

\* dequeue_pos_ is advanced before the cell is given back.
LEMMA DrainAdvanceInv ==
  ASSUME IInv, DrainAdvance
  PROVE  IInv'
<1> USE DEF DrainAdvance, producers, owner, output
<1>0. /\ TypeOK /\ Indices /\ Laps /\ Candidates /\ Owners /\ Contents
      /\ History /\ Counted /\ FlushProgress
  BY DEF IInv
<1>1. /\ Freed' = Freed /\ Freed = dequeue_pos /\ Deciding' = Deciding
      /\ dequeue_pos < enqueue_pos
      /\ sequence[Slot(dequeue_pos)] = dequeue_pos + 1
  BY <1>0 DEF TypeOK, Indices, Ready, Freed, Deciding
<1>2. TypeOK' /\ Indices'
  BY <1>0, <1>1 DEF TypeOK, Indices
<1>3. Laps' /\ Candidates'
  BY <1>0, <1>1, Bounds DEF Laps, Candidates
<1>4. Owners'
  <2>1. \A q \in Producers : Writing(q) => pos[q] \in (dequeue_pos + 1)..(enqueue_pos - 1)
    <3> SUFFICES ASSUME NEW q \in Producers, Writing(q)
                 PROVE  pos[q] \in (dequeue_pos + 1)..(enqueue_pos - 1)
      OBVIOUS
    <3>1. pos[q] \in dequeue_pos..(enqueue_pos - 1) /\ sequence[Slot(pos[q])] = pos[q]
      BY <1>0 DEF Owners
    <3>2. pos[q] # dequeue_pos
      BY <1>1, <3>1, Bounds
    <3> QED
      BY <3>1, <3>2, Bounds
  <2> QED
    BY <1>0, <2>1 DEF Owners, Writing, Id
<1>5. Contents'
  BY <1>0, Bounds DEF Contents
<1>6. History' /\ Counted'
  BY <1>0, <1>1 DEF History, FromCall, Counted
<1>7. FlushProgress'
  BY <1>0, Bounds DEF TypeOK, FlushProgress, Flushing
<1> QED
  BY <1>2, <1>3, <1>4, <1>5, <1>6, <1>7 DEF IInv

\* The cell is given back for the next lap.
LEMMA DrainFreeInv ==
  ASSUME IInv, DrainFree
  PROVE  IInv'
<1> USE DEF DrainFree, producers, owner, output
<1>0. /\ TypeOK /\ Indices /\ Laps /\ Candidates /\ Owners /\ Contents
      /\ History /\ Counted /\ FlushProgress
  BY DEF IInv
<1>b. /\ Capacity \in Nat \ {0} /\ Freed \in Nat
      /\ enqueue_pos \in Nat /\ dequeue_pos \in Nat
      /\ Freed <= dequeue_pos /\ dequeue_pos <= enqueue_pos
      /\ enqueue_pos <= Freed + Capacity
  BY Bounds
<1>1. Freed = dequeue_pos - 1 /\ Freed' = Freed + 1 /\ Deciding' = Deciding
  BY <1>b DEF Freed, Deciding
<1>2. Slot(Freed) \in Slots /\ Slot(Freed + Capacity) = Slot(Freed)
  BY <1>b, SlotInSlots, SlotNextLap
<1>3. /\ sequence' \in [Slots -> Nat]
      /\ sequence'[Slot(Freed)] = Freed + Capacity
      /\ \A s \in Slots \ {Slot(Freed)} : sequence'[s] = sequence[s]
  BY <1>0, <1>b, <1>1, <1>2 DEF TypeOK
<1>4. \A i \in (Freed + 1)..(Freed + Capacity - 1) :
        sequence'[Slot(i)] = sequence[Slot(i)]
  <2> TAKE i \in (Freed + 1)..(Freed + Capacity - 1)
  <2>1. /\ i \in Freed..(Freed + Capacity - 1) /\ i # Freed
        /\ Freed \in Freed..(Freed + Capacity - 1)
    BY <1>b
  <2>2. Slot(i) \in Slots /\ Slot(i) # Slot(Freed)
    BY <2>1, LapCells
  <2> QED
    BY <1>3, <2>2
<1>5. TypeOK'
  BY <1>0, <1>b, <1>1, <1>3 DEF TypeOK
<1>6. Indices' /\ FlushProgress'
  BY <1>0 DEF TypeOK, Indices, FlushProgress, Flushing
<1>7. Laps'
  <2>1. \A i \in (Freed + 1)..(enqueue_pos - 1) : sequence'[Slot(i)] \in {i, i + 1}
    BY <1>0, <1>b, <1>4 DEF Laps
  <2>2. \A i \in enqueue_pos..(Freed + Capacity) : sequence'[Slot(i)] = i
    BY <1>0, <1>b, <1>1, <1>2, <1>3, <1>4 DEF Laps
  <2> QED
    BY <1>b, <1>1, <2>1, <2>2 DEF Laps
<1>8. Candidates'
  <2> SUFFICES ASSUME NEW q \in Deciding
               PROVE  /\ pos[q] <= enqueue_pos
                      /\ pos[q] < Freed + 1 + Capacity
                           => sequence'[Slot(pos[q])] >= pos[q]
                      /\ pc[q] = "cas" /\ pos[q] = enqueue_pos
                           => enqueue_pos < Freed + 1 + Capacity
    BY <1>1 DEF Candidates
  <2>1. pos[q] \in Nat /\ Slot(pos[q]) \in Slots /\ pos[q] <= enqueue_pos
    BY <1>0, SlotInSlots DEF TypeOK, Candidates, Deciding
  <2>2. CASE Slot(pos[q]) = Slot(Freed)
    BY <1>b, <1>3, <2>1, <2>2
  <2>3. CASE Slot(pos[q]) # Slot(Freed)
    <3>1. pos[q] < Freed + Capacity
      BY <1>b, <1>2, <2>1, <2>3
    <3> QED
      BY <1>0, <1>b, <1>3, <2>1, <2>3, <3>1 DEF Candidates
  <2> QED
    BY <2>2, <2>3
<1>9. Owners'
  <2>1. \A q \in Producers :
          Writing(q) => sequence'[Slot(pos[q])] = sequence[Slot(pos[q])]
    <3> SUFFICES ASSUME NEW q \in Producers, Writing(q)
                 PROVE  sequence'[Slot(pos[q])] = sequence[Slot(pos[q])]
      OBVIOUS
    <3>1. pos[q] \in dequeue_pos..(enqueue_pos - 1)
      BY <1>0 DEF Owners
    <3>2. pos[q] \in (Freed + 1)..(Freed + Capacity - 1)
      BY <1>b, <1>1, <3>1
    <3> QED
      BY <1>4, <3>2
  <2> QED
    BY <1>0, <2>1 DEF Owners, Writing, Id
<1>10. Contents'
  <2>1. \A i \in dequeue_pos..(enqueue_pos - 1) : sequence'[Slot(i)] = sequence[Slot(i)]
    BY <1>b, <1>1, <1>4
  <2> QED
    BY <1>0, <2>1 DEF Contents
<1>11. History' /\ Counted'
  BY <1>0, <1>1 DEF History, FromCall, Counted
<1> QED
  BY <1>5, <1>6, <1>7, <1>8, <1>9, <1>10, <1>11 DEF IInv

-----------------------------------------------------------------------------
(* The steps of the owner.                                                 *)

\* SetLevel(), Flush() and the destructor only read the ring.
LEMMA OwnerInv ==
  ASSUME IInv,
         \/ \E level \in Levels : SetLevel(level)
         \/ FlushCall \/ FlushLoadFirst \/ FlushCompare \/ FlushSink
         \/ DestroyStop \/ DestroyJoin
         \/ UNCHANGED vars
  PROVE  IInv'
<1> USE DEF SetLevel, FlushCall, FlushLoadFirst, FlushCompare, FlushSink,
            DestroyStop, DestroyJoin, vars, members, producers, drain, output,
            owner
<1>0. /\ TypeOK /\ Indices /\ Laps /\ Candidates /\ Owners /\ Contents
      /\ History /\ Counted /\ FlushProgress
  BY DEF IInv
<1>1. UNCHANGED <<enqueue_pos, dequeue_pos, dropped, sequence, cells,
                  producers, drain, sink>>
  OBVIOUS
<1>2. Freed' = Freed /\ Deciding' = Deciding
  BY <1>1 DEF Freed, Deciding
<1>3. TypeOK'
  <2>1. CASE (\E level \in Levels : SetLevel(level)) \/ UNCHANGED vars
    BY <1>0, <1>2, <2>1, SMTT(30) DEF TypeOK
  <2>2. CASE FlushCall \/ FlushLoadFirst \/ FlushCompare
    BY <1>0, <1>2, <2>2 DEF TypeOK
  <2>3. CASE FlushSink
    BY <1>0, <1>2, <2>3 DEF TypeOK
  <2>4. CASE DestroyStop \/ DestroyJoin
    BY <1>0, <1>2, <2>4 DEF TypeOK
  <2> QED
    BY <2>1, <2>2, <2>3, <2>4
<1>4. FlushProgress'
  <2>1. CASE (\E level \in Levels : SetLevel(level)) \/ UNCHANGED vars
    BY <1>0, <2>1 DEF FlushProgress, Flushing
  <2>2. CASE FlushCall
    BY <1>0, <2>2, Bounds DEF TypeOK, FlushProgress, Flushing
  <2>3. CASE FlushLoadFirst
    BY <1>0, <2>3, Bounds DEF TypeOK, FlushProgress, Flushing
  <2>4. CASE FlushCompare
    BY <1>0, <2>4, Bounds DEF TypeOK, FlushProgress, Flushing
  <2>5. CASE FlushSink
    BY <1>0, <2>5, Bounds DEF TypeOK, Indices, FlushProgress, Flushing
  <2>6. CASE DestroyStop \/ DestroyJoin
    BY <1>0, <2>6, Bounds DEF TypeOK, Indices, FlushProgress, Flushing
  <2> QED
    BY <2>1, <2>2, <2>3, <2>4, <2>5, <2>6
<1> HIDE DEF SetLevel, FlushCall, FlushLoadFirst, FlushCompare, FlushSink,
             DestroyStop, DestroyJoin
<1>5. Indices' /\ Laps' /\ Candidates'
  BY <1>0, <1>1, <1>2 DEF Indices, Ready, Laps, Candidates
<1>6. Owners' /\ Contents'
  BY <1>0, <1>1 DEF Owners, Writing, Id, Contents
<1>7. History' /\ Counted'
  BY <1>0, <1>1, <1>2 DEF History, FromCall, Counted
<1> QED
  BY <1>3, <1>4, <1>5, <1>6, <1>7 DEF IInv

\* Every step of the producers, the drain thread and the owner keeps IInv.
LEMMA StepInv ==
  ASSUME Capacity > 1, IInv, [Next]_vars
  PROVE  IInv'
<1>1. CASE \E p \in Producers : LogStart(p) \/ LogStep(p)
  BY <1>1, LogFilteredInv, LogLoadPosInv, LogCellFreeInv, LogFullInv,
     LogRetryInv, LogClaimInv, LogWriteInv, LogPublishInv
     DEF LogStart, LogStep
<1>2. CASE DrainStep
  BY <1>2, DrainLooksInv, DrainReadMetaInv, DrainLogInv, DrainAdvanceInv,
     DrainFreeInv DEF DrainStep
<1>3. CASE (\E level \in Levels : SetLevel(level)) \/ FlushCall \/ OwnerStep
           \/ DestroyStop \/ UNCHANGED vars
  BY <1>3, OwnerInv DEF OwnerStep
<1> QED
  BY <1>1, <1>2, <1>3 DEF Next, Terminated

-----------------------------------------------------------------------------
(* The theorems.                                                           *)

\* IInv, the inductive invariant, holds in every reachable state of an
\* MpscRtLogger with at least two cells.
THEOREM Invariance == ASSUME Capacity > 1 PROVE Spec => []IInv
<1>1. IInv /\ [Next]_vars => IInv'
  BY StepInv
<1> QED
  BY <1>1, InitInv, PTL DEF Spec

\* Types, and never more than Capacity cells are claimed and not freed.
THEOREM TypeCorrect == ASSUME Capacity > 1 PROVE Spec => []TypeOK
<1>1. IInv => TypeOK
  BY DEF IInv
<1>2. Spec => []IInv
  BY Invariance
<1> QED
  BY <1>1, <1>2, PTL

\* Two calls of Log(), or a call and DrainLoop(), never touch the plain fields
\* of the same cell at the same time.
THEOREM NoCellRace == ASSUME Capacity > 1 PROVE Spec => []CellExclusion
<1>1. IInv => CellExclusion
  <2> SUFFICES ASSUME IInv, NEW p \in Producers, Writing(p)
               PROVE  /\ \A q \in Producers \ {p} :
                           Writing(q) => Slot(pos[p]) # Slot(pos[q])
                      /\ dpc \in {"read", "log", "advance"}
                           => Slot(pos[p]) # Slot(dequeue_pos)
    BY DEF CellExclusion
  <2>1. /\ pos[p] \in Nat /\ pos[p] \in Freed..(Freed + Capacity - 1)
        /\ \A q \in Producers \ {p} : Writing(q) => pos[q] # pos[p]
    BY OwnCell
  <2>2. ASSUME NEW q \in Producers \ {p}, Writing(q)
        PROVE  Slot(pos[p]) # Slot(pos[q])
    <3>1. pos[q] \in Freed..(Freed + Capacity - 1)
      BY <2>2, OwnCell
    <3> QED
      BY <2>1, <2>2, <3>1, LapCells
  <2>3. ASSUME dpc \in {"read", "log", "advance"}
        PROVE  Slot(pos[p]) # Slot(dequeue_pos)
    <3>1. sequence[Slot(pos[p])] = pos[p]
      BY DEF IInv, Owners
    <3>2. /\ sequence[Slot(dequeue_pos)] = dequeue_pos + 1
          /\ dequeue_pos < enqueue_pos
      BY <2>3 DEF IInv, Indices, Ready
    <3>3. dequeue_pos \in Freed..(Freed + Capacity - 1) /\ dequeue_pos # pos[p]
      BY <3>1, <3>2, Bounds
    <3> QED
      BY <2>1, <3>3, LapCells
  <2> QED
    BY <2>2, <2>3
<1>2. Spec => []IInv
  BY Invariance
<1> QED
  BY <1>1, <1>2, PTL

\* The sink receives whole records, and those of one producer once each and in
\* the order of its calls, however the producers interleave.
THEOREM DeliveryPerProducer == ASSUME Capacity > 1 PROVE Spec => []PerProducerFifo
<1>1. IInv => PerProducerFifo
  <2> SUFFICES ASSUME IInv
               PROVE  PerProducerFifo
    OBVIOUS
  <2>1. /\ DOMAIN sink = 1..Len(sink) /\ Len(sink) \in Nat
        /\ Len(sink) <= Len(accepted) /\ Len(accepted) \in Nat
    BY DEF IInv, TypeOK, Indices
  <2>2. \A i \in 1..Len(sink) : i \in 1..Len(accepted) /\ sink[i] = accepted[i]
    BY <2>1 DEF IInv, History
  <2>3. \A i \in 1..Len(sink) : sink[i].meta = sink[i].text /\ sink[i].meta # None
    <3> TAKE i \in 1..Len(sink)
    <3>1. FromCall(sink[i])
      BY <2>2 DEF IInv, History
    <3>2. sink[i].meta[2] \in 1..MaxCalls /\ sink[i].meta = sink[i].text
      BY <3>1 DEF FromCall
    <3>3. None[2] = 0
      BY DEF None
    <3> QED
      BY <3>2, <3>3, MaxCallsAssumption
  <2>4. \A i, j \in 1..Len(sink) :
          i < j /\ sink[i].meta[1] = sink[j].meta[1]
            => sink[i].meta[2] < sink[j].meta[2]
    BY <2>2 DEF IInv, History
  <2> QED
    BY <2>1, <2>3, <2>4 DEF PerProducerFifo
<1>2. Spec => []IInv
  BY Invariance
<1> QED
  BY <1>1, <1>2, PTL

\* No Log() call of any producer is lost track of.
THEOREM EveryCallCounted == ASSUME Capacity > 1 PROVE Spec => []Accounting
<1>1. IInv => Accounting
  <2> SUFFICES ASSUME IInv
               PROVE  Accounting
    OBVIOUS
  <2>1. Cardinality(Deciding) \in Nat
    BY FS_CardinalityType DEF IInv, Counted
  <2>2. /\ logged = filtered + dropped + Cardinality(Deciding) + enqueue_pos
        /\ filtered \in Nat /\ dropped \in Nat
        /\ enqueue_pos \in Nat /\ dequeue_pos \in Nat
    BY DEF IInv, TypeOK, Counted
  <2>3. Len(sink) = dequeue_pos + (IF dpc = "advance" THEN 1 ELSE 0)
    BY DEF IInv, Indices
  <2> QED
    BY <2>1, <2>2, <2>3 DEF Accounting
<1>2. Spec => []IInv
  BY Invariance
<1> QED
  BY <1>1, <1>2, PTL

\* When Flush() returns, all that was claimed before the call is flushed.
THEOREM FlushIsComplete == ASSUME Capacity > 1 PROVE Spec => FlushDrains
<1>1. IInv /\ [Next]_vars => [opc = "sync" /\ opc' = "idle" => synced' >= mark]_vars
  <2> SUFFICES ASSUME IInv, Next, opc = "sync", opc' = "idle"
               PROVE  synced' >= mark
    BY DEF vars, owner
  <2>1. FlushSink
    BY DEF Next, LogStart, LogStep, DrainStep, OwnerStep, LogFiltered,
       LogLoadPos, LogCellFree, LogFull, LogBehind, LogReload, LogClaim,
       LogClaimLost, LogClaimSpurious, LogWriteMeta, LogWriteText, LogPublish,
       SetLevel, DrainSome, DrainEmpty, DrainSleep, DrainStop, DrainReadMeta,
       DrainLog, DrainAdvance, DrainFree, DrainSync, FlushCall, FlushLoadFirst,
       FlushCompare, DestroyStop, DestroyJoin, Terminated, owner
  <2>2. mark <= dequeue_pos /\ dequeue_pos <= Len(sink)
    BY DEF IInv, TypeOK, Indices, FlushProgress
  <2> QED
    BY <2>1, <2>2 DEF FlushSink, IInv, TypeOK
<1>2. Spec => []IInv
  BY Invariance
<1> QED
  BY <1>1, <1>2, PTL DEF Spec, FlushDrains

\* A cell that is ahead of the position was claimed by somebody.
LEMMA BehindClaims ==
  ASSUME Capacity > 1, IInv, NEW p \in Producers, LogBehind(p)
  PROVE  pos[p] < enqueue_pos
<1>1. /\ p \in Deciding /\ pos[p] \in Nat /\ pos[p] <= enqueue_pos
      /\ sequence[Slot(pos[p])] \in Nat /\ sequence[Slot(pos[p])] > pos[p]
  BY Bounds, SlotInSlots, SMTT(30) DEF IInv, TypeOK, Candidates, Deciding, LogBehind, Diff
<1>2. CASE pos[p] = enqueue_pos /\ enqueue_pos < Freed + Capacity
  BY <1>1, <1>2, Bounds DEF IInv, Laps
<1>3. CASE pos[p] = enqueue_pos /\ enqueue_pos = Freed + Capacity
  <2>1. Slot(pos[p]) = Slot(Freed)
    BY <1>3, Bounds, SlotNextLap
  <2>2. sequence[Slot(Freed)] \in {Freed, Freed + 1}
    BY <1>3, Bounds DEF IInv, Laps
  <2> QED
    BY <1>1, <1>3, <2>1, <2>2, Bounds
<1> QED
  BY <1>1, <1>2, <1>3, Bounds

\* What a step of producer p does to what StalePositions speaks of.
LEMMA ClaimsGrow ==
  ASSUME IInv, NEW p \in Producers, LogStart(p) \/ LogStep(p)
  PROVE  /\ enqueue_pos <= enqueue_pos' /\ accepted \in Seq(Recs)
         /\ accepted' = accepted \/ accepted' = Append(accepted, Whole(Id(p)))
         /\ \A q \in Producers : q # p => pc'[q] = pc[q] /\ pos'[q] = pos[q]
<1>1. /\ enqueue_pos \in Nat /\ accepted \in Seq(Recs)
      /\ pc \in [Producers -> {"idle", "seq", "reload", "cas", "meta", "text",
                               "publish"}]
      /\ pos \in [Producers -> Nat]
  BY DEF IInv, TypeOK
<1>2. CASE LogClaim(p)
  BY <1>1, <1>2 DEF LogClaim
<1>3. CASE \/ LogFiltered(p) \/ LogLoadPos(p) \/ LogCellFree(p) \/ LogFull(p)
           \/ LogBehind(p) \/ LogReload(p)
  BY <1>1, <1>3 DEF LogFiltered, LogLoadPos, LogCellFree, LogFull, LogBehind,
     LogReload, members
<1>4. CASE \/ LogClaimLost(p) \/ LogClaimSpurious(p) \/ LogWriteMeta(p)
           \/ LogWriteText(p) \/ LogPublish(p)
  BY <1>1, <1>4 DEF LogClaimLost, LogClaimSpurious, LogWriteMeta, LogWriteText,
     LogPublish, members
<1> QED
  BY <1>2, <1>3, <1>4 DEF LogStart, LogStep

\* A producer that is deciding after a step of its own: it has loaded the end
\* of the claims, or looks at the same position as before.
LEMMA LooksAgain ==
  ASSUME Capacity > 1, IInv, NEW p \in Producers, LogStart(p) \/ LogStep(p),
         p \in Deciding'
  PROVE  /\ accepted' = accepted /\ enqueue_pos' = enqueue_pos
         /\ \/ pos'[p] = enqueue_pos /\ pc'[p] = "seq"
            \/ p \in Deciding /\ pos'[p] = pos[p]
               /\ (pc'[p] = "reload" => pos[p] < enqueue_pos)
<1>1. /\ pc \in [Producers -> {"idle", "seq", "reload", "cas", "meta", "text",
                               "publish"}]
      /\ pos \in [Producers -> Nat] /\ pc'[p] \in {"seq", "reload", "cas"}
  BY DEF IInv, TypeOK, Deciding
<1>2. CASE LogLoadPos(p) \/ LogReload(p) \/ LogClaimLost(p)
  BY <1>1, <1>2 DEF LogLoadPos, LogReload, LogClaimLost, members
<1>3. CASE LogCellFree(p) \/ LogClaimSpurious(p)
  BY <1>1, <1>3 DEF LogCellFree, LogClaimSpurious, members, Deciding
<1>4. CASE LogBehind(p)
  BY <1>1, <1>4, BehindClaims DEF LogBehind, members, Deciding
<1>5. CASE LogFiltered(p)
  BY <1>1, <1>5 DEF LogFiltered
<1>6. CASE \/ LogFull(p) \/ LogClaim(p) \/ LogWriteMeta(p) \/ LogWriteText(p)
           \/ LogPublish(p)
  BY <1>1, <1>6 DEF LogFull, LogClaim, LogWriteMeta, LogWriteText, LogPublish
<1> QED
  BY <1>2, <1>3, <1>4, <1>5, <1>6 DEF LogStart, LogStep

\* Steps of the drain thread and the owner change nothing StalePositions
\* speaks of.
LEMMA OthersLeaveClaims ==
  ASSUME \/ \E level \in Levels : SetLevel(level)
         \/ DrainStep \/ FlushCall \/ OwnerStep \/ DestroyStop \/ UNCHANGED vars
  PROVE  UNCHANGED <<pc, pos, enqueue_pos, accepted>>
<1>1. CASE DrainSome \/ DrainEmpty \/ DrainSleep \/ DrainStop \/ DrainReadMeta
  BY <1>1 DEF DrainSome, DrainEmpty, DrainSleep, DrainStop, DrainReadMeta,
     members, producers
<1>2. CASE DrainLog \/ DrainAdvance \/ DrainFree \/ DrainSync
  BY <1>2 DEF DrainLog, DrainAdvance, DrainFree, DrainSync, members, producers
<1>3. CASE (\E level \in Levels : SetLevel(level)) \/ FlushCall \/ DestroyStop
           \/ UNCHANGED vars
  BY <1>3 DEF SetLevel, FlushCall, DestroyStop, vars, members, producers
<1>4. CASE OwnerStep
  BY <1>4 DEF OwnerStep, FlushLoadFirst, FlushCompare, FlushSink, DestroyJoin,
     members, producers
<1> QED
  BY <1>1, <1>2, <1>3, <1>4 DEF DrainStep

LEMMA StaleStep ==
  ASSUME Capacity > 1, IInv, StalePositions, [Next]_vars
  PROVE  StalePositions'
<1>1. CASE \E p \in Producers : LogStart(p) \/ LogStep(p)
  <2>1. PICK p \in Producers : LogStart(p) \/ LogStep(p)
    BY <1>1
  <2>2. /\ enqueue_pos <= enqueue_pos' /\ accepted \in Seq(Recs)
        /\ accepted' = accepted \/ accepted' = Append(accepted, Whole(Id(p)))
        /\ \A q \in Producers : q # p => pc'[q] = pc[q] /\ pos'[q] = pos[q]
    BY <2>1, ClaimsGrow
  <2>3. enqueue_pos \in Nat /\ enqueue_pos' \in Nat /\ Len(accepted) = enqueue_pos
        /\ \A q \in Producers : pos[q] \in Nat
    BY StepInv DEF IInv, TypeOK, Indices
  <2>4. ASSUME NEW q \in Deciding', q # p
        PROVE  /\ pc'[q] = "reload" => pos'[q] < enqueue_pos'
               /\ \A k \in 1..Len(accepted') : accepted'[k].meta[1] = q => k <= pos'[q]
    <3>1. q \in Deciding /\ pc'[q] = pc[q] /\ pos'[q] = pos[q]
      BY <2>2, <2>4 DEF Deciding
    <3>2. ASSUME NEW k \in 1..Len(accepted'), accepted'[k].meta[1] = q
          PROVE  k <= pos[q]
      <4>1. CASE accepted' = accepted
        BY <3>1, <3>2, <4>1 DEF StalePositions
      <4>2. CASE accepted' = Append(accepted, Whole(Id(p))) /\ k \in 1..Len(accepted)
        <5>1. accepted'[k] = accepted[k]
          BY <2>2, <4>2
        <5> QED
          BY <3>1, <3>2, <4>2, <5>1 DEF StalePositions
      <4>3. CASE accepted' = Append(accepted, Whole(Id(p))) /\ k = Len(accepted) + 1
        <5>1. accepted'[k] = Whole(Id(p))
          BY <2>2, <4>3
        <5> QED
          BY <2>4, <3>2, <5>1 DEF Whole, Id
      <4> QED
        BY <2>2, <3>2, <4>1, <4>2, <4>3
    <3>3. pc[q] = "reload" => pos[q] < enqueue_pos
      BY <3>1 DEF StalePositions
    <3>4. pos[q] \in Nat
      BY <2>3, <3>1 DEF Deciding
    <3> QED
      BY <2>2, <2>3, <3>1, <3>2, <3>3, <3>4
  <2>5. ASSUME p \in Deciding'
        PROVE  /\ pc'[p] = "reload" => pos'[p] < enqueue_pos'
               /\ \A k \in 1..Len(accepted') : accepted'[k].meta[1] = p => k <= pos'[p]
    <3>1. /\ accepted' = accepted /\ enqueue_pos' = enqueue_pos
          /\ \/ pos'[p] = enqueue_pos /\ pc'[p] = "seq"
             \/ p \in Deciding /\ pos'[p] = pos[p]
                /\ (pc'[p] = "reload" => pos[p] < enqueue_pos)
      BY <2>1, <2>5, LooksAgain
    <3>2. CASE pos'[p] = enqueue_pos /\ pc'[p] = "seq"
      BY <2>3, <3>1, <3>2
    <3>3. CASE p \in Deciding /\ pos'[p] = pos[p]
               /\ (pc'[p] = "reload" => pos[p] < enqueue_pos)
      BY <3>1, <3>3 DEF StalePositions
    <3> QED
      BY <3>1, <3>2, <3>3
  <2> QED
    BY <2>4, <2>5 DEF StalePositions
<1>2. CASE \/ \E level \in Levels : SetLevel(level)
           \/ DrainStep \/ FlushCall \/ OwnerStep \/ DestroyStop \/ UNCHANGED vars
  BY <1>2, OthersLeaveClaims DEF StalePositions, Deciding
<1> QED
  BY <1>1, <1>2 DEF Next, Terminated

\* A call of Log() goes round its loop, spurious failures apart, only because
\* another producer claimed the position, and goes on to a later one.
THEOREM RetriesAreProgress == ASSUME Capacity > 1 PROVE Spec => LostRaceIsProgress
<1>1. Init => StalePositions
  BY DEF Init, StalePositions, Deciding
<1>2. IInv /\ StalePositions /\ [Next]_vars => StalePositions'
  BY StaleStep
<1>3. IInv /\ StalePositions =>
        \A p \in Producers :
          /\ LogBehind(p) \/ LogClaimLost(p)
               => pos[p] < enqueue_pos /\ accepted[pos[p] + 1].meta[1] # p
          /\ LogReload(p) \/ LogClaimLost(p) => pos[p] < pos'[p]
  <2> SUFFICES ASSUME IInv, StalePositions, NEW p \in Producers
               PROVE  /\ LogBehind(p) \/ LogClaimLost(p)
                           => pos[p] < enqueue_pos /\ accepted[pos[p] + 1].meta[1] # p
                      /\ LogReload(p) \/ LogClaimLost(p) => pos[p] < pos'[p]
    OBVIOUS
  <2>1. /\ pos \in [Producers -> Nat] /\ enqueue_pos \in Nat
        /\ Len(accepted) = enqueue_pos
    BY DEF IInv, TypeOK, Indices
  <2>2. LogBehind(p) \/ LogReload(p) \/ LogClaimLost(p)
          => p \in Deciding /\ pos[p] < enqueue_pos
    <3>1. LogBehind(p) => p \in Deciding /\ pos[p] < enqueue_pos
      BY BehindClaims DEF LogBehind, Deciding
    <3>2. LogReload(p) => p \in Deciding /\ pos[p] < enqueue_pos
      BY DEF LogReload, Deciding, StalePositions
    <3>3. LogClaimLost(p) => p \in Deciding /\ pos[p] < enqueue_pos
      BY <2>1 DEF LogClaimLost, Deciding, IInv, Candidates
    <3> QED
      BY <3>1, <3>2, <3>3
  <2>3. p \in Deciding /\ pos[p] < enqueue_pos => accepted[pos[p] + 1].meta[1] # p
    BY <2>1 DEF StalePositions
  <2>4. LogReload(p) \/ LogClaimLost(p) => pos'[p] = enqueue_pos
    BY <2>1 DEF LogReload, LogClaimLost
  <2> QED
    BY <2>2, <2>3, <2>4
<1>4. Spec => []IInv
  BY Invariance
<1> QED
  BY <1>1, <1>2, <1>3, <1>4, PTL DEF Spec, LostRaceIsProgress

\* Flush() and then the destructor lose nothing that was claimed before.
THEOREM ShutdownAfterFlush == ASSUME Capacity > 1 PROVE Spec => []FlushedShutdown
<1>1. IInv => FlushedShutdown
  <2> SUFFICES ASSUME IInv, opc = "destroyed", mark = enqueue_pos
               PROVE  sink = accepted /\ synced = Len(accepted)
    BY DEF FlushedShutdown
  <2>1. mark <= synced /\ synced <= Len(sink)
    BY DEF IInv, FlushProgress, Flushing
  <2>2. Len(sink) <= enqueue_pos /\ Len(accepted) = enqueue_pos
    BY DEF IInv, TypeOK, Indices
  <2>3. /\ sink \in Seq(Recs) /\ accepted \in Seq(Recs)
        /\ enqueue_pos \in Nat /\ mark \in Nat /\ synced \in Nat
    BY DEF IInv, TypeOK
  <2>4. Len(sink) = Len(accepted) /\ synced = Len(accepted)
    BY <2>1, <2>2, <2>3
  <2>5. \A i \in 1..Len(sink) : sink[i] = accepted[i]
    BY DEF IInv, History
  <2> QED
    BY <2>3, <2>4, <2>5
<1>2. Spec => []IInv
  BY Invariance
<1> QED
  BY <1>1, <1>2, PTL

-----------------------------------------------------------------------------
(* The refinement of LogChannel.                                           *)

\* A successful exchange takes a place of the channel that is free, for a
\* record the channel has not seen.
LEMMA ClaimAccepts ==
  ASSUME IInv, NEW p \in Producers, LogClaim(p)
  PROVE  \E r \in {Whole(id) : id \in Ids} : Channel!Accept(r)
<1>1. p \in Deciding
  BY DEF LogClaim, Deciding
<1>2. Len(accepted) - Freed < Capacity
  <2>1. enqueue_pos < Freed + Capacity
    BY <1>1 DEF IInv, Candidates, LogClaim
  <2> QED
    BY <2>1, Bounds DEF IInv, Indices
<1>3. Id(p) \in Ids
  <2>1. calls[p] \in 0..MaxCalls
    BY DEF IInv, TypeOK
  <2>2. calls[p] > 0
    BY DEF IInv, Counted, LogClaim
  <2> QED
    BY <2>1, <2>2, MaxCallsAssumption DEF Id, Ids
<1>4. ASSUME NEW i \in DOMAIN accepted, accepted[i] = Whole(Id(p))
      PROVE  FALSE
  <2>1. i \in 1..Len(accepted)
    BY <1>4 DEF IInv, TypeOK
  <2>2. FromCall(accepted[i])
    BY <2>1 DEF IInv, History
  <2>3. accepted[i].meta = <<p, calls[p]>>
    BY <1>4 DEF Whole, Id
  <2>4. calls[p] < calls[p]
    BY <1>1, <2>2, <2>3 DEF FromCall
  <2>5. calls[p] \in Nat
    BY MaxCallsAssumption DEF IInv, TypeOK
  <2> QED
    BY <2>4, <2>5
<1>5. Freed' = Freed
  BY DEF LogClaim, drain, Freed
<1>6. Channel!Accept(Whole(Id(p)))
  BY <1>2, <1>4, <1>5 DEF LogClaim, output, Channel!Accept, Channel!Occupied
<1> QED
  BY <1>3, <1>6

\* A record is dropped only while every place is occupied: a position or a
\* sequence that was overtaken never makes the ring look full.
LEMMA FullDrops ==
  ASSUME IInv, NEW p \in Producers, LogFull(p)
  PROVE  Channel!Drop
<1>1. p \in Deciding
  BY DEF LogFull, Deciding
<1>2. pos[p] \in Nat /\ Slot(pos[p]) \in Slots
  BY SlotInSlots DEF IInv, TypeOK
<1>3. sequence[Slot(pos[p])] \in Nat
  BY <1>2 DEF IInv, TypeOK
<1>4. sequence[Slot(pos[p])] < pos[p]
  BY <1>2, <1>3 DEF LogFull, Diff
<1>5. /\ pos[p] <= enqueue_pos
      /\ pos[p] < Freed + Capacity => sequence[Slot(pos[p])] >= pos[p]
  BY <1>1 DEF IInv, Candidates
<1>6. Len(accepted) - Freed >= Capacity
  BY <1>2, <1>3, <1>4, <1>5, Bounds DEF IInv, Indices
<1>7. Freed' = Freed
  BY DEF LogFull, drain, Freed
<1> QED
  BY <1>6, <1>7 DEF LogFull, output, Channel!Drop, Channel!Occupied

\* MpscRtLogger implements the bounded FIFO channel: every step of its threads
\* is a step of the channel, or none.
THEOREM RefinesChannel == ASSUME Capacity > 1 PROVE Spec => ImplementsChannel
<1>1. Init => Channel!Init
  BY DEF Init, Freed, Channel!Init
<1>2. IInv /\ [Next]_vars => [Channel!Next]_(Channel!vars)
  <2> SUFFICES ASSUME IInv, [Next]_vars
               PROVE  [Channel!Next]_(Channel!vars)
    OBVIOUS
  <2>1. CASE \E p \in Producers : LogClaim(p)
    BY <2>1, ClaimAccepts DEF Channel!Next
  <2>2. CASE \E p \in Producers : LogFull(p)
    BY <2>2, FullDrops DEF Channel!Next
  <2>3. CASE DrainLog
    <3>1. Len(sink) = Freed /\ Len(sink) = dequeue_pos /\ dequeue_pos < Len(accepted)
      BY <2>3, Bounds DEF DrainLog, IInv, Indices, Freed
    <3>2. Freed' = Freed
      BY <2>3 DEF DrainLog, members, Freed
    <3>3. Channel!Deliver
      BY <2>3, <3>1, <3>2, LoggedRecord
         DEF DrainLog, members, producers, Channel!Deliver
    <3> QED
      BY <3>3 DEF Channel!Next
  <2>4. CASE DrainFree
    <3>1. Freed < Len(sink) /\ Freed' = Freed + 1
      BY <2>4, Bounds DEF DrainFree, IInv, Indices, Freed
    <3>2. Channel!Release
      BY <2>4, <3>1 DEF DrainFree, producers, output, Channel!Release
    <3> QED
      BY <3>2 DEF Channel!Next
  <2>5. CASE DrainAdvance
    <3>1. Freed' = Freed
      BY <2>5, Bounds DEF DrainAdvance, Freed
    <3> QED
      BY <2>5, <3>1 DEF DrainAdvance, producers, output, Channel!vars
  <2>6. CASE \E p \in Producers :
               \/ LogFiltered(p) \/ LogLoadPos(p) \/ LogCellFree(p)
               \/ LogBehind(p) \/ LogReload(p) \/ LogClaimLost(p)
               \/ LogClaimSpurious(p) \/ LogWriteMeta(p) \/ LogWriteText(p)
               \/ LogPublish(p)
    BY <2>6 DEF LogFiltered, LogLoadPos, LogCellFree, LogBehind, LogReload,
       LogClaimLost, LogClaimSpurious, LogWriteMeta, LogWriteText, LogPublish,
       members, drain, output, Freed, Channel!vars
  <2>7. CASE DrainSome \/ DrainEmpty \/ DrainSleep \/ DrainStop
             \/ DrainReadMeta \/ DrainSync
    BY <2>7 DEF DrainSome, DrainEmpty, DrainSleep, DrainStop, DrainReadMeta,
       DrainSync, members, producers, output, Freed, Channel!vars
  <2>8. CASE (\E level \in Levels : SetLevel(level)) \/ FlushCall \/ OwnerStep
             \/ DestroyStop \/ UNCHANGED vars
    BY <2>8 DEF SetLevel, FlushCall, OwnerStep, FlushLoadFirst, FlushCompare,
       FlushSink, DestroyStop, DestroyJoin, vars, members, producers, drain,
       output, Freed, Channel!vars
  <2> QED
    BY <2>1, <2>2, <2>3, <2>4, <2>5, <2>6, <2>7, <2>8
       DEF Next, LogStart, LogStep, DrainStep, Terminated
<1>3. Spec => []IInv
  BY Invariance
<1> QED
  BY <1>1, <1>2, <1>3, PTL DEF Spec, ImplementsChannel, Channel!Spec
=============================================================================
