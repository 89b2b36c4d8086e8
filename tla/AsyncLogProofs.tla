--------------------------- MODULE AsyncLogProofs ---------------------------
(***************************************************************************)
(* Proofs about AsyncLog, for any number of threads and data loggers, any  *)
(* queue size and any number of calls.                                     *)
(***************************************************************************)
EXTENDS AsyncLog, SequenceTheorems, TLAPS

-----------------------------------------------------------------------------
(* The inductive invariant behind TypeOK, LoggerOrder,                     *)
(* EveryRecordAccounted and OrphanedOnlyByRace.                            *)

\* What TypeOK leaves open: the functions and what they hold, and that only
\* registered loggers are due for the periodic flush.
Shapes ==
  /\ queue \in [0..2 -> Seq(Message)] /\ queue[0] = << >>
  /\ written \in [Loggers -> Seq(Message)] /\ disk \in [Loggers -> Nat]
  /\ \A l \in Loggers : \A i \in DOMAIN written[l] :
       written[l][i].kind = "log" /\ written[l][i].from = l
  /\ evicted \subseteq Message /\ posted \in [Loggers -> SUBSET (0..MaxCalls)]
  /\ held \in [Callers -> 0..2]
  /\ DOMAIN msg = Callers /\ DOMAIN name = Loggers
  /\ \A l \in due : name[l] # NoName

\* Initialize() replaces at most a pool that was created behind its back, and
\* only the data loggers created in that moment are left without one.
Pools ==
  /\ init \in {"none", "create"} => pool <= 1
  /\ init \in {"join", "logger", "ready"} => pool >= 1
  /\ name[Default] = IF Ready THEN <<"process">> ELSE NoName
  /\ Ready => tp[Default] = pool
  /\ \A d \in Data :
       /\ name[d] # <<"process">>
       /\ name[d] # NoName => /\ tp[d] \in 1..pool
                              /\ tp[d] = pool \/ d \in raced
                              /\ init = "create" => d \in raced

\* A caller inside a call: what it posts, and where.
Pending ==
  \A c \in Callers :
    /\ pc[c] \in {"stream", "log"} => /\ c \in Threads /\ Ready
                                      /\ msg[c] \in Message /\ msg[c].kind = "log"
                                      /\ msg[c].from = Default /\ msg[c].by = c
    /\ pc[c] = "post" => /\ c \in Data /\ name[c] # NoName /\ held[c] = tp[c]
                         /\ msg[c] \in Message
                         /\ msg[c].from = c /\ msg[c].by = c

\* A logger's messages are all in the queue of its pool.
Home ==
  \A g \in 1..2 : \A i \in DOMAIN queue[g] :
    tp[queue[g][i].from] = g /\ name[queue[g][i].from] # NoName

\* m was made before n, by the same caller.
Before(m, n) ==
  m.kind = "log" /\ n.kind = "log" /\ m.from = n.from /\ m.by = n.by => m.id < n.id

InSinks  == UNION {ToSet(written[l]) : l \in Loggers}
Made     == {m \in InQueues \cup InSinks \cup evicted : m.kind = "log"}
InCalls  == {msg[c] : c \in {x \in Callers : pc[x] \in {"stream", "log", "post"}}}

\* A caller's records stand in its queue in the order of its calls, and the
\* one it is about to post comes after them.
QueueOrder ==
  /\ \A g \in 1..2 : \A i, j \in DOMAIN queue[g] :
       i < j => Before(queue[g][i], queue[g][j])
  /\ \A r \in Made, n \in InCalls : Before(r, n)

\* The number of a call belongs to one record.
Numbered ==
  /\ \A m \in Made \cup InCalls : m.id <= calls
  /\ \A m, n \in Made \cup {k \in InCalls : k.kind = "log"} : m.id = n.id => m = n

\* A record that waits for its post passed the compile-time floor.
AboveFloor ==
  \A c \in Callers :
    pc[c] \in {"stream", "log"} => FromSpdlogLevel(msg[c].level) >= ActiveLevel

\* One past spdlog's check is of a level that is on, or was when it passed.
PassedCheck ==
  \A t \in Threads :
    pc[t] = "log" => AtLeast(msg[t].level, level) \/ t \in overtaken

IInv ==
  /\ TypeOK
  /\ Shapes
  /\ Pools
  /\ Pending
  /\ Home
  /\ QueueOrder
  /\ Numbered
  /\ LoggerOrder
  /\ EveryRecordAccounted
  /\ OrphanedOnlyByRace

-----------------------------------------------------------------------------
(* Messages and sequences of them.                                         *)

\* The levels of spdlog as a set.
LEMMA LevelSet ==
  ToSet(SpdlogLevels) = {"trace", "debug", "info", "warn", "err", "critical", "off"}
  BY DEF ToSet, SpdlogLevels

\* Every LogLevel, in range or not, has a spdlog level.
LEMMA ToLevel ==
  ASSUME NEW lv
  PROVE  ToSpdlogLevel(lv) \in ToSet(SpdlogLevels)
  BY LevelSet DEF ToSpdlogLevel, Switch

\* What the callers post are messages.
LEMMA RecordMessage ==
  ASSUME NEW l \in Loggers, NEW c \in Callers, NEW id \in 0..MaxCalls,
         NEW lv \in ToSet(SpdlogLevels)
  PROVE  /\ Record(l, c, id, lv) \in Message
         /\ Record(l, c, id, lv).kind = "log" /\ Record(l, c, id, lv).from = l
         /\ Record(l, c, id, lv).by = c /\ Record(l, c, id, lv).id = id
         /\ Record(l, c, id, lv).level = lv
  BY DEF Record, Message

LEMMA FlushMessage ==
  ASSUME NEW l \in Loggers
  PROVE  /\ FlushOf(l) \in Message /\ FlushOf(l).kind = "flush"
         /\ FlushOf(l).from = l /\ FlushOf(l).by = l
  BY LevelSet, AsyncAssumption DEF FlushOf, Message, Loggers, Callers

\* The fields of a message.
LEMMA MessageFields ==
  ASSUME NEW m \in Message
  PROVE  /\ m.kind \in {"log", "flush"} /\ m.from \in Loggers
         /\ m.id \in 0..MaxCalls /\ m.id \in Nat
  BY AsyncAssumption DEF Message

\* A worker takes the first message of a queue.
LEMMA RemoveFirstMessage ==
  ASSUME NEW S, NEW s \in Seq(S), s # << >>
  PROVE  RemoveAt(s, 1) = Tail(s)
<1>1. SubSeq(s, 1, 0) = << >>
  BY SubSeqEmpty
<1>2. SubSeq(s, 2, Len(s)) = Tail(s) /\ Tail(s) \in Seq(S)
  OBVIOUS
<1>3. << >> \o Tail(s) = Tail(s)
  BY <1>2, ConcatEmptySeq
<1> QED
  BY <1>1, <1>2, <1>3 DEF RemoveAt

\* A message is posted behind the others.
LEMMA AppendPlaces ==
  ASSUME NEW S, NEW q \in Seq(S), NEW m \in S
  PROVE  /\ Append(q, m) \in Seq(S) /\ Len(Append(q, m)) = Len(q) + 1
         /\ Append(q, m)[Len(q) + 1] = m /\ Last(Append(q, m)) = m
         /\ \A i \in 1..Len(q) : Append(q, m)[i] = q[i]
  BY DEF Last

\* The same when the first one is given up.
LEMMA TailAppendPlaces ==
  ASSUME NEW S, NEW q \in Seq(S), NEW m \in S, q # << >>
  PROVE  /\ Append(Tail(q), m) \in Seq(S) /\ Len(Append(Tail(q), m)) = Len(q)
         /\ Append(Tail(q), m)[Len(q)] = m /\ Last(Append(Tail(q), m)) = m
         /\ \A i \in 1..(Len(q) - 1) : Append(Tail(q), m)[i] = q[i + 1]
<1> DEFINE u == Tail(q)
<1>1. /\ u \in Seq(S) /\ Len(u) = Len(q) - 1 /\ Len(q) \in Nat
      /\ \A i \in 1..(Len(q) - 1) : u[i] = q[i + 1]
  OBVIOUS
<1> HIDE DEF u
<1>2. /\ Append(u, m) \in Seq(S) /\ Len(Append(u, m)) = Len(u) + 1
      /\ Append(u, m)[Len(u) + 1] = m /\ Last(Append(u, m)) = m
      /\ \A i \in 1..Len(u) : Append(u, m)[i] = u[i]
  BY <1>1, AppendPlaces
<1>3. Len(u) + 1 = Len(q)
  BY <1>1
<1> QED
  BY <1>1, <1>2, <1>3 DEF u

\* What is in the queues, by its place.
LEMMA InQueuesPlace ==
  ASSUME NEW m
  PROVE  /\ m \in InQueues <=> \E g \in 1..2 : \E i \in DOMAIN queue[g] : queue[g][i] = m
         /\ m \in InQueues' <=> \E g \in 1..2 : \E i \in DOMAIN queue'[g] : queue'[g][i] = m
  BY DEF InQueues, ToSet

\* The queues are sequences of messages.
LEMMA QueueTypes ==
  ASSUME IInv, NEW g \in 1..2
  PROVE  /\ queue[g] \in Seq(Message) /\ Len(queue[g]) \in Nat
         /\ DOMAIN queue[g] = 1..Len(queue[g])
         /\ \A i \in DOMAIN queue[g] : queue[g][i] \in Message /\ queue[g][i] \in InQueues
         /\ InQueues \subseteq Message
<1>1. \A h \in 1..2 : queue[h] \in Seq(Message)
  BY DEF IInv, Shapes
<1>2. \A h \in 1..2 : \A i \in DOMAIN queue[h] : queue[h][i] \in Message
  BY <1>1
<1>3. queue[g] \in Seq(Message) /\ Len(queue[g]) \in Nat /\ DOMAIN queue[g] = 1..Len(queue[g])
  BY <1>1
<1> QED
  BY <1>2, <1>3, InQueuesPlace

-----------------------------------------------------------------------------
(* A message is posted.                                                    *)

\* What both policies do to the queue of pool g: k messages are evicted.
LEMMA PostPlaces ==
  ASSUME IInv, NEW g \in 1..2, NEW m \in Message, PostOverrun(g, m) \/ PostBlock(g, m)
  PROVE  \E k \in 0..1 :
           /\ k <= Len(queue[g]) /\ Len(queue[g]) - k < QueueSize
           /\ queue' = [queue EXCEPT ![g] = Append(IF k = 1 THEN Tail(queue[g]) ELSE queue[g], m)]
           /\ evicted' = IF k = 1 THEN evicted \cup {queue[g][1]} ELSE evicted
           /\ posted' = [posted EXCEPT ![m.from] = Ids(m.from, m)]
<1>0. /\ queue[g] \in Seq(Message) /\ Len(queue[g]) \in Nat /\ Len(queue[g]) <= QueueSize
      /\ QueueSize \in Nat \ {0}
  BY QueueTypes, AsyncAssumption DEF IInv, TypeOK
<1>1. CASE ~Full(g)
  <2>1. /\ Len(queue[g]) < QueueSize /\ queue' = [queue EXCEPT ![g] = Append(queue[g], m)]
        /\ evicted' = evicted /\ posted' = [posted EXCEPT ![m.from] = Ids(m.from, m)]
    BY <1>0, <1>1 DEF Full, PostOverrun, PostBlock
  <2>2. 0 \in 0..1 /\ 0 <= Len(queue[g]) /\ Len(queue[g]) - 0 < QueueSize /\ 0 # 1
    BY <1>0, <2>1
  <2> QED
    BY <2>1, <2>2
<1>2. CASE Full(g)
  <2>1. /\ queue' = [queue EXCEPT ![g] = Append(Tail(queue[g]), m)]
        /\ evicted' = evicted \cup {Head(queue[g])}
        /\ posted' = [posted EXCEPT ![m.from] = Ids(m.from, m)]
    BY <1>2 DEF PostOverrun, PostBlock
  <2>2. 1 \in 0..1 /\ 1 <= Len(queue[g]) /\ Len(queue[g]) - 1 < QueueSize
    BY <1>0, <1>2 DEF Full
  <2>3. Head(queue[g]) = queue[g][1]
    BY <1>0, <2>2
  <2> QED
    BY <2>1, <2>2, <2>3
<1> QED
  BY <1>1, <1>2

\* The new message is the last of its queue; the others move up by k places.
LEMMA PostShift ==
  ASSUME IInv, NEW g \in 1..2, NEW m \in Message, PostOverrun(g, m) \/ PostBlock(g, m)
  PROVE  \E k \in 0..1 :
           LET q == queue[g]
               r == queue'[g]
           IN  /\ k <= Len(q) /\ Len(q) - k < QueueSize
               /\ queue' \in [0..2 -> Seq(Message)]
               /\ \A h \in 0..2 : h # g => queue'[h] = queue[h]
               /\ r \in Seq(Message) /\ Len(r) = Len(q) - k + 1
               /\ r[Len(r)] = m /\ Last(r) = m
               /\ \A i \in 1..(Len(r) - 1) : r[i] = q[i + k] /\ i + k \in 1..Len(q)
               /\ evicted' = IF k = 1 THEN evicted \cup {q[1]} ELSE evicted
               /\ posted' = [posted EXCEPT ![m.from] = Ids(m.from, m)]
<1>1. PICK k \in 0..1 :
        /\ k <= Len(queue[g]) /\ Len(queue[g]) - k < QueueSize
        /\ queue' = [queue EXCEPT ![g] = Append(IF k = 1 THEN Tail(queue[g]) ELSE queue[g], m)]
        /\ evicted' = IF k = 1 THEN evicted \cup {queue[g][1]} ELSE evicted
        /\ posted' = [posted EXCEPT ![m.from] = Ids(m.from, m)]
  BY PostPlaces
<1>2. queue \in [0..2 -> Seq(Message)] /\ g \in 0..2
  BY DEF IInv, Shapes
<1>3. queue[g] \in Seq(Message)
  BY QueueTypes
<1> DEFINE r == queue'[g]
<1>4. r = Append(IF k = 1 THEN Tail(queue[g]) ELSE queue[g], m)
      /\ \A h \in 0..2 : h # g => queue'[h] = queue[h]
  BY <1>1, <1>2
<1>5. /\ r \in Seq(Message) /\ Len(r) = Len(queue[g]) - k + 1
      /\ r[Len(r)] = m /\ Last(r) = m
      /\ \A i \in 1..(Len(r) - 1) : r[i] = queue[g][i + k] /\ i + k \in 1..Len(queue[g])
  <2> DEFINE q == queue[g]
  <2>1. q \in Seq(Message) /\ k <= Len(q) /\ r = Append(IF k = 1 THEN Tail(q) ELSE q, m)
    BY <1>1, <1>3, <1>4
  <2> HIDE DEF q, r
  <2>2. Len(q) \in Nat
    BY <2>1
  <2>3. CASE k = 0
    <3>1. r = Append(q, m)
      BY <2>1, <2>3
    <3>2. /\ r \in Seq(Message) /\ Len(r) = Len(q) + 1 /\ r[Len(q) + 1] = m
          /\ Last(r) = m /\ \A i \in 1..Len(q) : r[i] = q[i]
      BY <2>1, <3>1, AppendPlaces
    <3>3. Len(r) = Len(q) - k + 1 /\ \A i \in 1..(Len(r) - 1) : i + k = i /\ i \in 1..Len(q)
      BY <2>2, <2>3, <3>2
    <3> QED
      BY <2>2, <3>2, <3>3 DEF q
  <2>4. CASE k = 1
    <3>1. r = Append(Tail(q), m) /\ q # << >>
      BY <2>1, <2>4
    <3>2. /\ r \in Seq(Message) /\ Len(r) = Len(q) /\ r[Len(q)] = m
          /\ Last(r) = m /\ \A i \in 1..(Len(q) - 1) : r[i] = q[i + 1]
      BY <2>1, <3>1, TailAppendPlaces
    <3>3. Len(r) = Len(q) - k + 1
      BY <2>2, <2>4, <3>2
    <3> QED
      BY <2>2, <2>4, <3>2, <3>3 DEF q
  <2>5. k = 0 \/ k = 1
    OBVIOUS
  <2> QED
    BY <2>3, <2>4, <2>5 DEF q
<1>6. queue' \in [0..2 -> Seq(Message)]
  BY <1>1, <1>2, <1>5
<1> QED
  BY <1>1, <1>4, <1>5, <1>6

\* The others keep their order, and one that is evicted was the first.
LEMMA PostQueue ==
  ASSUME IInv, NEW g \in 1..2, NEW m \in Message, PostOverrun(g, m) \/ PostBlock(g, m),
         tp[m.from] = g, name[m.from] # NoName, UNCHANGED <<tp, name>>,
         \A r \in Made : Before(r, m)
  PROVE  /\ queue' \in [0..2 -> Seq(Message)] /\ queue'[0] = << >>
         /\ \A h \in 0..2 : Len(queue'[h]) <= QueueSize
         /\ Last(queue'[g]) = m
         /\ InQueues' \subseteq InQueues \cup {m} /\ m \in InQueues'
         /\ InQueues \subseteq InQueues' \cup evicted'
         /\ evicted \subseteq evicted' /\ evicted' \subseteq evicted \cup InQueues
         /\ \A e \in evicted', q \in InQueues' : e \in evicted \/ q = m \/ Before(e, q)
         /\ Home'
         /\ \A h \in 1..2 : \A i, j \in DOMAIN queue'[h] :
              i < j => Before(queue'[h][i], queue'[h][j])
         /\ posted' = [posted EXCEPT ![m.from] = Ids(m.from, m)]
<1>1. PICK k \in 0..1 :
        LET q == queue[g]
            r == queue'[g]
        IN  /\ k <= Len(q) /\ Len(q) - k < QueueSize
            /\ queue' \in [0..2 -> Seq(Message)]
            /\ \A h \in 0..2 : h # g => queue'[h] = queue[h]
            /\ r \in Seq(Message) /\ Len(r) = Len(q) - k + 1
            /\ r[Len(r)] = m /\ Last(r) = m
            /\ \A i \in 1..(Len(r) - 1) : r[i] = q[i + k] /\ i + k \in 1..Len(q)
            /\ evicted' = IF k = 1 THEN evicted \cup {q[1]} ELSE evicted
            /\ posted' = [posted EXCEPT ![m.from] = Ids(m.from, m)]
  BY PostShift, ZenonT(30)
<1>2. queue \in [0..2 -> Seq(Message)] /\ queue[0] = << >> /\ g \in 0..2
      /\ \A h \in 0..2 : Len(queue[h]) <= QueueSize
  BY DEF IInv, Shapes, TypeOK
<1>3. /\ queue[g] \in Seq(Message) /\ Len(queue[g]) \in Nat
      /\ DOMAIN queue[g] = 1..Len(queue[g])
      /\ \A i \in DOMAIN queue[g] : queue[g][i] \in Message /\ queue[g][i] \in InQueues
      /\ InQueues \subseteq Message
  BY QueueTypes
<1> DEFINE r == queue'[g]
<1>4. \A h \in 0..2 : h # g => queue'[h] = queue[h]
  BY <1>1
<1>5. /\ r \in Seq(Message) /\ Len(r) = Len(queue[g]) - k + 1
      /\ r[Len(r)] = m /\ Last(r) = m
      /\ \A i \in 1..(Len(r) - 1) : r[i] = queue[g][i + k] /\ i + k \in 1..Len(queue[g])
  BY <1>1
<1>6. DOMAIN r = 1..Len(r) /\ Len(r) \in Nat /\ Len(r) >= 1
  BY <1>1, <1>3, <1>5, SMTT(30)
<1>7. \A i \in DOMAIN r : i = Len(r) \/ i \in 1..(Len(r) - 1)
  BY <1>6
<1>8. queue' \in [0..2 -> Seq(Message)] /\ queue'[0] = << >>
  BY <1>1, <1>2, <1>4, <1>5
<1>9. \A h \in 0..2 : Len(queue'[h]) <= QueueSize
  <2> TAKE h \in 0..2
  <2>1. CASE h = g
    <3>1. QueueSize \in Nat
      BY AsyncAssumption
    <3> QED
      BY <1>1, <1>3, <1>5, <2>1, <3>1, SMTT(30)
  <2>2. CASE h # g
    BY <1>2, <1>4, <2>2
  <2> QED
    BY <2>1, <2>2
<1> HIDE DEF r
<1>10. m \in InQueues'
  BY <1>5, <1>6, InQueuesPlace DEF r
<1>11. InQueues' \subseteq InQueues \cup {m}
  <2> SUFFICES ASSUME NEW x \in InQueues', x # m
               PROVE  x \in InQueues
    OBVIOUS
  <2>1. PICK h \in 1..2 : \E i \in DOMAIN queue'[h] : queue'[h][i] = x
    BY InQueuesPlace
  <2>2. CASE h # g
    BY <1>4, <2>1, <2>2, InQueuesPlace
  <2>3. CASE h = g
    <3>1. PICK i \in DOMAIN r : r[i] = x
      BY <2>1, <2>3 DEF r
    <3>2. i \in 1..(Len(r) - 1)
      BY <1>5, <1>7, <3>1
    <3> QED
      BY <1>3, <1>5, <3>1, <3>2
  <2> QED
    BY <2>2, <2>3
<1>12. evicted \subseteq evicted' /\ evicted' \subseteq evicted \cup InQueues
  <2>1. k = 1 => queue[g][1] \in InQueues
    BY <1>1, <1>3
  <2> QED
    BY <1>1, <2>1
<1>13. InQueues \subseteq InQueues' \cup evicted'
  <2> SUFFICES ASSUME NEW x \in InQueues, x \notin evicted'
               PROVE  x \in InQueues'
    OBVIOUS
  <2>1. PICK h \in 1..2 : \E i \in DOMAIN queue[h] : queue[h][i] = x
    BY InQueuesPlace
  <2>2. CASE h # g
    BY <1>4, <2>1, <2>2, InQueuesPlace
  <2>3. CASE h = g
    <3>1. PICK i \in DOMAIN queue[g] : queue[g][i] = x
      BY <2>1, <2>3
    <3>2. i - k >= 1
      <4>1. ~(k = 1 /\ i = 1)
        BY <1>1, <3>1
      <4> QED
        BY <1>3, <3>1, <4>1
    <3>3. i - k \in 1..(Len(r) - 1) /\ (i - k) + k = i
      BY <1>3, <1>5, <3>1, <3>2
    <3>4. r[i - k] = x /\ i - k \in DOMAIN r
      BY <1>5, <1>6, <3>1, <3>3
    <3> QED
      BY <3>4, InQueuesPlace DEF r
  <2> QED
    BY <2>2, <2>3
<1>14. \A h \in 1..2 : \A i, j \in DOMAIN queue'[h] :
         i < j => Before(queue'[h][i], queue'[h][j])
  <2> SUFFICES ASSUME NEW h \in 1..2, NEW i \in DOMAIN queue'[h], NEW j \in DOMAIN queue'[h],
                      i < j
               PROVE  Before(queue'[h][i], queue'[h][j])
    OBVIOUS
  <2>1. CASE h # g
    BY <1>4, <2>1 DEF IInv, QueueOrder
  <2>2. CASE h = g
    <3>1. i \in DOMAIN r /\ j \in DOMAIN r
      BY <2>2 DEF r
    <3>2. i \in 1..(Len(r) - 1) /\ r[i] = queue[g][i + k] /\ i + k \in DOMAIN queue[g]
      <4>1. i \in 1..(Len(r) - 1)
        BY <1>6, <3>1
      <4>2. r[i] = queue[g][i + k] /\ i + k \in 1..Len(queue[g])
        BY <1>5, <4>1
      <4> QED
        BY <1>3, <4>1, <4>2
    <3>3. CASE j = Len(r)
      <4>1. r[i] \in InQueues /\ r[j] = m
        BY <1>3, <1>5, <3>2, <3>3
      <4>2. r[i].kind = "log" => r[i] \in Made
        BY <4>1 DEF Made
      <4> QED
        BY <2>2, <4>1, <4>2 DEF Before, r
    <3>4. CASE j \in 1..(Len(r) - 1)
      <4>1. r[j] = queue[g][j + k] /\ j + k \in DOMAIN queue[g] /\ i + k < j + k
        <5>1. r[j] = queue[g][j + k] /\ j + k \in 1..Len(queue[g])
          BY <1>5, <3>4
        <5>2. i + k < j + k
          BY <3>2, <3>4
        <5> QED
          BY <1>3, <5>1, <5>2
      <4> QED
        BY <2>2, <3>2, <4>1 DEF IInv, QueueOrder, r
    <3> QED
      BY <1>7, <3>1, <3>3, <3>4
  <2> QED
    BY <2>1, <2>2
<1>15. Home'
  <2> SUFFICES ASSUME NEW h \in 1..2, NEW i \in DOMAIN queue'[h]
               PROVE  tp[queue'[h][i].from] = h /\ name[queue'[h][i].from] # NoName
    BY DEF Home
  <2>1. CASE h # g
    BY <1>4, <2>1 DEF IInv, Home
  <2>2. CASE h = g
    <3>1. i \in DOMAIN r /\ queue'[h][i] = r[i]
      BY <2>2 DEF r
    <3>2. CASE i = Len(r)
      BY <1>5, <2>2, <3>1, <3>2
    <3>3. CASE i \in 1..(Len(r) - 1)
      <4>1. r[i] = queue[g][i + k] /\ i + k \in 1..Len(queue[g])
        BY <1>5, <3>3
      <4>2. i + k \in DOMAIN queue[g]
        BY <1>3, <4>1
      <4> QED
        BY <2>2, <3>1, <4>1, <4>2 DEF IInv, Home
    <3> QED
      BY <1>7, <3>1, <3>2, <3>3
  <2> QED
    BY <2>1, <2>2
<1>16. \A e \in evicted', q \in InQueues' : e \in evicted \/ q = m \/ Before(e, q)
  <2> SUFFICES ASSUME NEW e \in evicted', NEW q \in InQueues', e \notin evicted, q # m
               PROVE  Before(e, q)
    OBVIOUS
  <2>1. k = 1 /\ e = queue[g][1] /\ 1 \in DOMAIN queue[g]
    BY <1>1, <1>3
  <2>2. PICK h \in 1..2 : \E i \in DOMAIN queue'[h] : queue'[h][i] = q
    BY InQueuesPlace
  <2>3. CASE h # g
    <3>1. tp[e.from] = g /\ tp[q.from] = h
      BY <1>4, <2>1, <2>2, <2>3 DEF IInv, Home
    <3> QED
      BY <2>3, <3>1 DEF Before
  <2>4. CASE h = g
    <3>1. PICK i \in DOMAIN r : r[i] = q
      BY <2>2, <2>4 DEF r
    <3>2. i \in 1..(Len(r) - 1)
      BY <1>5, <1>7, <3>1
    <3>3. q = queue[g][i + 1] /\ i + 1 \in DOMAIN queue[g] /\ 1 < i + 1
      BY <1>3, <1>5, <2>1, <3>1, <3>2
    <3> QED
      BY <2>1, <3>3 DEF IInv, QueueOrder
  <2> QED
    BY <2>3, <2>4
<1>17. Last(queue'[g]) = m
  BY <1>5 DEF r
<1> QED
  BY <1>1, <1>8, <1>9, <1>10, <1>11, <1>12, <1>13, <1>14, <1>15, <1>16, <1>17

\* The numbers of the records of logger l, by the records.
LEMMA IdsMembership ==
  ASSUME NEW l, NEW i
  PROVE  /\ i \in Queued(l) <=> \E x \in InQueues : x.kind = "log" /\ x.from = l /\ x.id = i
         /\ i \in Written(l) <=>
              \E x \in ToSet(written[l]) : x.kind = "log" /\ x.from = l /\ x.id = i
         /\ i \in Evicted(l) <=> \E x \in evicted : x.kind = "log" /\ x.from = l /\ x.id = i
         /\ i \in Queued(l)' <=> \E x \in InQueues' : x.kind = "log" /\ x.from = l /\ x.id = i
         /\ i \in Written(l)' <=>
              \E x \in ToSet(written'[l]) : x.kind = "log" /\ x.from = l /\ x.id = i
         /\ i \in Evicted(l)' <=> \E x \in evicted' : x.kind = "log" /\ x.from = l /\ x.id = i
  BY DEF Queued, Written, Evicted, IdsOf, Records, InQueues, ToSet

\* The places of a logger's records in its sinks.
LEMMA SinkPlaces ==
  ASSUME IInv, NEW l \in Loggers
  PROVE  /\ written[l] \in Seq(Message) /\ Len(written[l]) \in Nat
         /\ DOMAIN written[l] = 1..Len(written[l])
         /\ \A i \in DOMAIN written[l] : /\ written[l][i] \in Message
                                         /\ written[l][i] \in ToSet(written[l])
                                         /\ written[l][i] \in Made
         /\ \A x \in ToSet(written[l]) : x \in Made /\ x.kind = "log" /\ x.from = l
<1>1. written[l] \in Seq(Message)
  BY DEF IInv, Shapes
<1>2. \A i \in DOMAIN written[l] : written[l][i] \in Message
  BY <1>1
<1>3. \A i \in DOMAIN written[l] : written[l][i].kind = "log" /\ written[l][i].from = l
  BY DEF IInv, Shapes
<1>4. \A x \in ToSet(written[l]) : x.kind = "log" /\ x.from = l /\ x \in InSinks
  BY <1>3 DEF ToSet, InSinks
<1>5. Len(written[l]) \in Nat /\ DOMAIN written[l] = 1..Len(written[l])
  BY <1>1
<1> QED
  BY <1>1, <1>2, <1>4, <1>5 DEF Made, ToSet

\* LoggerOrder, with Before.
LEMMA OrderOfSets ==
  /\ LoggerOrder <=>
       \A l \in Loggers :
         /\ \A i, j \in DOMAIN written[l] :
              i < j /\ written[l][i].by = written[l][j].by
                => written[l][i].id < written[l][j].id
         /\ \A w \in ToSet(written[l]) \cup evicted, q \in InQueues :
              w.from = l /\ q.from = l => Before(w, q)
  /\ LoggerOrder' <=>
       \A l \in Loggers :
         /\ \A i, j \in DOMAIN written'[l] :
              i < j /\ written'[l][i].by = written'[l][j].by
                => written'[l][i].id < written'[l][j].id
         /\ \A w \in ToSet(written'[l]) \cup evicted', q \in InQueues' :
              w.from = l /\ q.from = l => Before(w, q)
<1>1. LoggerOrder <=>
       \A l \in Loggers :
         /\ \A i, j \in DOMAIN written[l] :
              i < j /\ written[l][i].by = written[l][j].by
                => written[l][i].id < written[l][j].id
         /\ \A w \in ToSet(written[l]) \cup evicted, q \in InQueues :
              w.from = l /\ q.from = l => Before(w, q)
  BY Zenon DEF LoggerOrder, Records, Before, InQueues
<1>2. LoggerOrder' <=>
       \A l \in Loggers :
         /\ \A i, j \in DOMAIN written'[l] :
              i < j /\ written'[l][i].by = written'[l][j].by
                => written'[l][i].id < written'[l][j].id
         /\ \A w \in ToSet(written'[l]) \cup evicted', q \in InQueues' :
              w.from = l /\ q.from = l => Before(w, q)
  BY Zenon DEF LoggerOrder, Records, Before, InQueues
<1> QED
  BY <1>1, <1>2

\* No record in the queues has the number of one in the sinks or an evicted one.
LEMMA FreshInQueue ==
  ASSUME IInv, NEW l \in Loggers, NEW w \in ToSet(written[l]) \cup evicted, NEW q \in InQueues,
         w.kind = "log", q.kind = "log", w.from = l, q.from = l
  PROVE  w.id # q.id
<1> SUFFICES ASSUME w.id = q.id
             PROVE  FALSE
  OBVIOUS
<1>1. w \in Made /\ q \in Made
  BY DEF Made, InSinks
<1>2. w = q
  BY <1>1 DEF IInv, Numbered
<1>3. Before(w, q)
  BY OrderOfSets DEF IInv
<1>4. w.id < q.id
  BY <1>2, <1>3 DEF Before
<1>5. q.id \in Nat
  BY QueueTypes, MessageFields
<1> QED
  BY <1>2, <1>4, <1>5

\* A message is posted: the order and the account of the records.
LEMMA PostRecords ==
  ASSUME IInv, NEW m \in Message, written' = written,
         InQueues' \subseteq InQueues \cup {m}, m \in InQueues',
         InQueues \subseteq InQueues' \cup evicted',
         evicted \subseteq evicted', evicted' \subseteq evicted \cup InQueues,
         \A e \in evicted', q \in InQueues' : e \in evicted \/ q = m \/ Before(e, q),
         posted' = [posted EXCEPT ![m.from] = Ids(m.from, m)],
         \A r \in Made : Before(r, m)
  PROVE  /\ LoggerOrder' /\ EveryRecordAccounted'
         /\ Made' \subseteq Made \cup {m} /\ evicted' \subseteq Message
         /\ posted' \in [Loggers -> SUBSET (0..MaxCalls)]
<1>1. evicted' \subseteq Message
  BY QueueTypes DEF IInv, Shapes
<1>2. Made' \subseteq Made \cup {m}
  BY DEF Made, InSinks
<1>3. \A w \in evicted' : w.kind = "log" => w \in Made
  BY DEF Made
<1>4. LoggerOrder'
  <2> SUFFICES ASSUME NEW l \in Loggers
               PROVE  /\ \A i, j \in DOMAIN written'[l] :
                           i < j /\ written'[l][i].by = written'[l][j].by
                             => written'[l][i].id < written'[l][j].id
                      /\ \A w \in ToSet(written'[l]) \cup evicted', q \in InQueues' :
                           w.from = l /\ q.from = l => Before(w, q)
    BY OrderOfSets
  <2>1. \A i, j \in DOMAIN written[l] :
          i < j /\ written[l][i].by = written[l][j].by
            => written[l][i].id < written[l][j].id
    BY OrderOfSets DEF IInv
  <2>2. \A w \in ToSet(written[l]) \cup evicted, q \in InQueues :
          w.from = l /\ q.from = l => Before(w, q)
    BY OrderOfSets DEF IInv
  <2>3. ASSUME NEW w \in ToSet(written[l]) \cup evicted', NEW q \in InQueues',
               w.from = l, q.from = l
        PROVE  Before(w, q)
    <3>1. CASE q = m
      <4>1. w.kind = "log" => w \in Made
        BY <1>3, SinkPlaces
      <4> QED
        BY <3>1, <4>1 DEF Before
    <3>2. CASE q # m
      BY <2>2, <2>3, <3>2
    <3> QED
      BY <3>1, <3>2
  <2> QED
    BY <2>1, <2>3
<1>5. posted \in [Loggers -> SUBSET (0..MaxCalls)] /\ m.from \in Loggers /\ m.id \in 0..MaxCalls
  BY MessageFields DEF IInv, Shapes
<1>6. \A l \in Loggers : posted'[l] = IF l = m.from /\ m.kind = "log"
                                      THEN posted[l] \cup {m.id} ELSE posted[l]
  BY <1>5 DEF Ids
<1>7. posted' \in [Loggers -> SUBSET (0..MaxCalls)]
  BY <1>5 DEF Ids
<1>8. EveryRecordAccounted'
  <2> SUFFICES ASSUME NEW l \in Loggers
               PROVE  /\ posted'[l] = Queued(l)' \cup Written(l)' \cup Evicted(l)'
                      /\ Written(l)' \cap Evicted(l)' = {}
    BY DEF EveryRecordAccounted
  <2>1. /\ posted[l] = Queued(l) \cup Written(l) \cup Evicted(l)
        /\ Written(l) \cap Evicted(l) = {}
    BY DEF IInv, EveryRecordAccounted
  <2>2. Written(l)' = Written(l)
    BY DEF Written, IdsOf, Records, ToSet
  <2>3. Queued(l) \subseteq Queued(l)' \cup Evicted(l)' /\ Evicted(l) \subseteq Evicted(l)'
    BY IdsMembership
  <2>4. Evicted(l)' \subseteq Evicted(l) \cup Queued(l)
    BY IdsMembership
  <2>5. ASSUME l = m.from /\ m.kind = "log"
        PROVE  posted'[l] = Queued(l)' \cup Written(l)' \cup Evicted(l)'
    <3>1. m.id \in Queued(l)'
      BY <2>5, IdsMembership
    <3>2. Queued(l)' \subseteq Queued(l) \cup {m.id}
      BY <2>5, IdsMembership
    <3>3. posted'[l] = posted[l] \cup {m.id}
      BY <1>6, <2>5
    <3> QED
      BY <2>1, <2>2, <2>3, <2>4, <3>1, <3>2, <3>3
  <2>6. ASSUME ~(l = m.from /\ m.kind = "log")
        PROVE  posted'[l] = Queued(l)' \cup Written(l)' \cup Evicted(l)'
    <3>1. Queued(l)' \subseteq Queued(l)
      BY <2>6, IdsMembership
    <3>2. posted'[l] = posted[l]
      BY <1>6, <2>6
    <3> QED
      BY <2>1, <2>2, <2>3, <2>4, <3>1, <3>2
  <2>7. Written(l)' \cap Evicted(l)' = {}
    <3> SUFFICES ASSUME NEW i \in Written(l), i \in Evicted(l)'
                 PROVE  FALSE
      BY <2>2
    <3>1. PICK w \in ToSet(written[l]) : w.kind = "log" /\ w.from = l /\ w.id = i
      BY IdsMembership
    <3>2. PICK e \in evicted' : e.kind = "log" /\ e.from = l /\ e.id = i
      BY IdsMembership
    <3>3. CASE e \in evicted
      <4>1. i \in Evicted(l)
        BY <3>2, <3>3, IdsMembership
      <4> QED
        BY <2>1, <4>1
    <3>4. CASE e \in InQueues
      BY <3>1, <3>2, <3>4, FreshInQueue
    <3> QED
      BY <3>3, <3>4
  <2> QED
    BY <2>5, <2>6, <2>7
<1> QED
  BY <1>1, <1>2, <1>4, <1>7, <1>8

-----------------------------------------------------------------------------
(* A worker takes a message.                                               *)

\* The message is the first of its queue, and the others keep their order.
LEMMA WorkerQueue ==
  ASSUME IInv, NEW g \in 1..2, queue[g] # << >>, queue' = [queue EXCEPT ![g] = Tail(queue[g])],
         UNCHANGED <<tp, name>>
  PROVE  /\ queue' \in [0..2 -> Seq(Message)] /\ queue'[0] = << >>
         /\ \A h \in 0..2 : Len(queue'[h]) <= QueueSize
         /\ queue[g][1] \in InQueues /\ queue[g][1] \in Message
         /\ InQueues' \subseteq InQueues
         /\ InQueues \subseteq InQueues' \cup {queue[g][1]}
         /\ \A q \in InQueues' : Before(queue[g][1], q)
         /\ Home'
         /\ \A h \in 1..2 : \A i, j \in DOMAIN queue'[h] :
              i < j => Before(queue'[h][i], queue'[h][j])
<1>2. queue \in [0..2 -> Seq(Message)] /\ queue[0] = << >> /\ g \in 0..2
      /\ \A h \in 0..2 : Len(queue[h]) <= QueueSize
  BY DEF IInv, Shapes, TypeOK
<1>3. /\ queue[g] \in Seq(Message) /\ Len(queue[g]) \in Nat
      /\ DOMAIN queue[g] = 1..Len(queue[g])
      /\ \A i \in DOMAIN queue[g] : queue[g][i] \in Message /\ queue[g][i] \in InQueues
  BY QueueTypes
<1> DEFINE r == queue'[g]
<1>4. r = Tail(queue[g]) /\ \A h \in 0..2 : h # g => queue'[h] = queue[h]
  BY <1>2
<1>5. /\ r \in Seq(Message) /\ Len(r) = Len(queue[g]) - 1 /\ Len(queue[g]) >= 1
      /\ DOMAIN r = 1..(Len(queue[g]) - 1)
      /\ \A i \in 1..(Len(queue[g]) - 1) : r[i] = queue[g][i + 1]
  <2> DEFINE q == queue[g]
  <2>1. q \in Seq(Message) /\ q # << >> /\ r = Tail(q)
    BY <1>3, <1>4
  <2> HIDE DEF q, r
  <2> QED
    BY <2>1 DEF q
<1>6. \A i \in DOMAIN r : r[i] = queue[g][i + 1] /\ i + 1 \in DOMAIN queue[g] /\ 1 < i + 1
  BY <1>3, <1>5
<1>7. 1 \in DOMAIN queue[g]
  BY <1>3, <1>5
<1>8. queue' \in [0..2 -> Seq(Message)] /\ queue'[0] = << >>
  BY <1>2, <1>4, <1>5
<1>9. \A h \in 0..2 : Len(queue'[h]) <= QueueSize
  <2> TAKE h \in 0..2
  <2>1. CASE h = g
    <3>1. QueueSize \in Nat /\ Len(queue[g]) <= QueueSize
      BY <1>2, AsyncAssumption
    <3> QED
      BY <1>3, <1>5, <2>1, <3>1
  <2>2. CASE h # g
    BY <1>2, <1>4, <2>2
  <2> QED
    BY <2>1, <2>2
<1> HIDE DEF r
<1>10. InQueues' \subseteq InQueues
  <2> SUFFICES ASSUME NEW x \in InQueues'
               PROVE  x \in InQueues
    OBVIOUS
  <2>1. PICK h \in 1..2 : \E i \in DOMAIN queue'[h] : queue'[h][i] = x
    BY InQueuesPlace
  <2>2. CASE h # g
    BY <1>4, <2>1, <2>2, InQueuesPlace
  <2>3. CASE h = g
    BY <1>3, <1>6, <2>1, <2>3 DEF r
  <2> QED
    BY <2>2, <2>3
<1>11. InQueues \subseteq InQueues' \cup {queue[g][1]}
  <2> SUFFICES ASSUME NEW x \in InQueues, x # queue[g][1]
               PROVE  x \in InQueues'
    OBVIOUS
  <2>1. PICK h \in 1..2 : \E i \in DOMAIN queue[h] : queue[h][i] = x
    BY InQueuesPlace
  <2>2. CASE h # g
    BY <1>4, <2>1, <2>2, InQueuesPlace
  <2>3. CASE h = g
    <3>1. PICK i \in DOMAIN queue[g] : queue[g][i] = x
      BY <2>1, <2>3
    <3>2. i - 1 \in 1..(Len(queue[g]) - 1) /\ (i - 1) + 1 = i
      <4> DEFINE n == Len(queue[g])
      <4>1. i # 1 /\ i \in 1..n /\ n \in Nat
        BY <1>3, <3>1
      <4> HIDE DEF n
      <4>2. i - 1 \in 1..(n - 1) /\ (i - 1) + 1 = i
        BY <4>1
      <4> QED
        BY <4>2 DEF n
    <3>3. r[i - 1] = x /\ i - 1 \in DOMAIN r
      BY <1>5, <3>1, <3>2
    <3> QED
      BY <3>3, InQueuesPlace DEF r
  <2> QED
    BY <2>2, <2>3
<1>12. \A q \in InQueues' : Before(queue[g][1], q)
  <2> TAKE q \in InQueues'
  <2>1. PICK h \in 1..2 : \E i \in DOMAIN queue'[h] : queue'[h][i] = q
    BY InQueuesPlace
  <2>2. CASE h # g
    <3>1. tp[queue[g][1].from] = g /\ tp[q.from] = h
      BY <1>4, <1>7, <2>1, <2>2 DEF IInv, Home
    <3> QED
      BY <2>2, <3>1 DEF Before
  <2>3. CASE h = g
    <3>1. PICK i \in DOMAIN r : r[i] = q
      BY <2>1, <2>3 DEF r
    <3>2. q = queue[g][i + 1] /\ i + 1 \in DOMAIN queue[g] /\ 1 < i + 1
      BY <1>6, <3>1
    <3> QED
      BY <1>7, <3>2 DEF IInv, QueueOrder
  <2> QED
    BY <2>2, <2>3
<1>13. Home'
  <2> SUFFICES ASSUME NEW h \in 1..2, NEW i \in DOMAIN queue'[h]
               PROVE  tp[queue'[h][i].from] = h /\ name[queue'[h][i].from] # NoName
    BY DEF Home
  <2>1. CASE h # g
    BY <1>4, <2>1 DEF IInv, Home
  <2>2. CASE h = g
    BY <1>6, <2>2 DEF IInv, Home, r
  <2> QED
    BY <2>1, <2>2
<1>14. \A h \in 1..2 : \A i, j \in DOMAIN queue'[h] :
         i < j => Before(queue'[h][i], queue'[h][j])
  <2> SUFFICES ASSUME NEW h \in 1..2, NEW i \in DOMAIN queue'[h], NEW j \in DOMAIN queue'[h],
                      i < j
               PROVE  Before(queue'[h][i], queue'[h][j])
    OBVIOUS
  <2>1. CASE h # g
    BY <1>4, <2>1 DEF IInv, QueueOrder
  <2>2. CASE h = g
    <3>1. i \in DOMAIN r /\ j \in DOMAIN r /\ i \in Int /\ j \in Int
      BY <1>5, <2>2 DEF r
    <3>2. /\ r[i] = queue[g][i + 1] /\ i + 1 \in DOMAIN queue[g]
          /\ r[j] = queue[g][j + 1] /\ j + 1 \in DOMAIN queue[g]
          /\ i + 1 < j + 1
      BY <1>6, <3>1
    <3> QED
      BY <2>2, <3>2 DEF IInv, QueueOrder, r
  <2> QED
    BY <2>1, <2>2
<1>15. queue[g][1] \in InQueues /\ queue[g][1] \in Message
  BY <1>3, <1>7
<1> QED
  BY <1>8, <1>9, <1>10, <1>11, <1>12, <1>13, <1>14, <1>15

\* A record reaches the sinks of its logger: order and account.
LEMMA WorkerRecords ==
  ASSUME IInv, NEW m \in InQueues, m \in Message, m.kind = "log",
         written' = [written EXCEPT ![m.from] = Append(written[m.from], m)],
         InQueues' \subseteq InQueues, InQueues \subseteq InQueues' \cup {m},
         \A q \in InQueues' : Before(m, q), UNCHANGED <<evicted, posted>>
  PROVE  /\ LoggerOrder' /\ EveryRecordAccounted' /\ Made' \subseteq Made
         /\ written' \in [Loggers -> Seq(Message)]
         /\ \A l \in Loggers : \A i \in DOMAIN written'[l] :
              written'[l][i].kind = "log" /\ written'[l][i].from = l
         /\ Len(written'[m.from]) = Len(written[m.from]) + 1
         /\ \A l \in Loggers : l # m.from => written'[l] = written[l]
<1> DEFINE f == m.from
           s == written[f]
           u == written'[f]
<1>1. f \in Loggers
  BY MessageFields
<1>2. written \in [Loggers -> Seq(Message)]
  BY DEF IInv, Shapes
<1>3. u = Append(s, m) /\ \A l \in Loggers : l # f => written'[l] = written[l]
  BY <1>1, <1>2
<1>4. /\ s \in Seq(Message) /\ Len(s) \in Nat /\ DOMAIN s = 1..Len(s)
      /\ \A i \in DOMAIN s : s[i] \in ToSet(s)
      /\ \A x \in ToSet(s) : x \in Made /\ x.kind = "log" /\ x.from = f
  BY <1>1, SinkPlaces
<1> HIDE DEF s, u
<1>5. /\ u \in Seq(Message) /\ Len(u) = Len(s) + 1 /\ u[Len(s) + 1] = m
      /\ DOMAIN u = 1..(Len(s) + 1)
      /\ \A i \in 1..Len(s) : u[i] = s[i]
  BY <1>3, <1>4, AppendPlaces
<1>6. ToSet(u) = ToSet(s) \cup {m}
  <2>1. \A i \in DOMAIN u : u[i] = m \/ u[i] \in ToSet(s)
    BY <1>4, <1>5
  <2>2. \A i \in DOMAIN s : i \in DOMAIN u /\ u[i] = s[i]
    BY <1>4, <1>5
  <2>3. Len(s) + 1 \in DOMAIN u
    BY <1>4, <1>5
  <2> QED
    BY <1>5, <2>1, <2>2, <2>3 DEF ToSet
<1>7. written' \in [Loggers -> Seq(Message)]
  BY <1>1, <1>2, <1>3, <1>5 DEF s
<1>8. \A l \in Loggers : ToSet(written'[l]) = IF l = f THEN ToSet(s) \cup {m} ELSE ToSet(written[l])
  <2> TAKE l \in Loggers
  <2>1. CASE l = f
    BY <1>6, <2>1 DEF u
  <2>2. CASE l # f
    BY <1>3, <2>2
  <2> QED
    BY <2>1, <2>2
<1>9. m \in Made
  BY DEF Made
<1>10. Made' \subseteq Made
  <2>1. InSinks' \subseteq InSinks \cup {m}
    BY <1>1, <1>8 DEF InSinks, s
  <2> QED
    BY <1>9, <2>1 DEF Made
<1>11. \A l \in Loggers : \A i \in DOMAIN written'[l] :
         written'[l][i].kind = "log" /\ written'[l][i].from = l
  <2> TAKE l \in Loggers
  <2>1. CASE l = f
    <3>1. \A i \in DOMAIN u : u[i] = m \/ u[i] \in ToSet(s)
      BY <1>4, <1>5
    <3>2. \A i \in DOMAIN u : u[i].kind = "log" /\ u[i].from = f
      BY <1>4, <3>1
    <3> QED
      BY <2>1, <3>2 DEF u
  <2>2. CASE l # f
    BY <1>3, <2>2 DEF IInv, Shapes
  <2> QED
    BY <2>1, <2>2
<1>12. \A w \in ToSet(s) : w.by = m.by => w.id < m.id
  <2> TAKE w \in ToSet(s)
  <2>0. w.kind = "log" /\ w.from = f /\ m.from = f
    BY <1>4
  <2>1. Before(w, m)
    <3>1. w \in ToSet(written[f])
      BY DEF s
    <3> QED
      BY <1>1, <2>0, <3>1, OrderOfSets DEF IInv
  <2> QED
    BY <2>0, <2>1 DEF Before
<1>13. LoggerOrder'
  <2> SUFFICES ASSUME NEW l \in Loggers
               PROVE  /\ \A i, j \in DOMAIN written'[l] :
                           i < j /\ written'[l][i].by = written'[l][j].by
                             => written'[l][i].id < written'[l][j].id
                      /\ \A w \in ToSet(written'[l]) \cup evicted', q \in InQueues' :
                           w.from = l /\ q.from = l => Before(w, q)
    BY OrderOfSets
  <2>1. \A i, j \in DOMAIN written[l] :
          i < j /\ written[l][i].by = written[l][j].by
            => written[l][i].id < written[l][j].id
    BY OrderOfSets DEF IInv
  <2>2. \A w \in ToSet(written[l]) \cup evicted, q \in InQueues :
          w.from = l /\ q.from = l => Before(w, q)
    BY OrderOfSets DEF IInv
  <2>3. \A w \in ToSet(written'[l]) \cup evicted', q \in InQueues' :
          w.from = l /\ q.from = l => Before(w, q)
    BY <1>8, <2>2 DEF s
  <2>4. CASE l # f
    BY <1>3, <2>1, <2>3, <2>4
  <2>5. CASE l = f
    <3> SUFFICES ASSUME NEW i \in DOMAIN u, NEW j \in DOMAIN u, i < j, u[i].by = u[j].by
                 PROVE  u[i].id < u[j].id
      BY <2>3, <2>5 DEF u
    <3>1. i \in 1..Len(s) /\ u[i] = s[i] /\ s[i] \in ToSet(s) /\ i \in DOMAIN s
      BY <1>4, <1>5
    <3>2. CASE j = Len(s) + 1
      BY <1>5, <1>12, <3>1, <3>2
    <3>3. CASE j # Len(s) + 1
      <4>1. j \in DOMAIN s /\ u[j] = s[j]
        BY <1>4, <1>5, <3>3
      <4> QED
        BY <2>1, <2>5, <3>1, <4>1 DEF s
    <3> QED
      BY <3>2, <3>3
  <2> QED
    BY <2>4, <2>5
<1>14. EveryRecordAccounted'
  <2> SUFFICES ASSUME NEW l \in Loggers
               PROVE  /\ posted'[l] = Queued(l)' \cup Written(l)' \cup Evicted(l)'
                      /\ Written(l)' \cap Evicted(l)' = {}
    BY DEF EveryRecordAccounted
  <2>1. /\ posted[l] = Queued(l) \cup Written(l) \cup Evicted(l)
        /\ Written(l) \cap Evicted(l) = {}
    BY DEF IInv, EveryRecordAccounted
  <2>2. Evicted(l)' = Evicted(l) /\ Queued(l)' \subseteq Queued(l)
    <3>1. Evicted(l)' = Evicted(l)
      BY DEF Evicted, IdsOf, Records
    <3>2. Queued(l)' \subseteq Queued(l)
      BY IdsMembership
    <3> QED
      BY <3>1, <3>2
  <2>3. CASE l # f
    <3>1. Written(l)' = Written(l)
      BY <1>3, <2>3 DEF Written, IdsOf, Records, ToSet
    <3>2. Queued(l) \subseteq Queued(l)'
      BY <2>3, IdsMembership
    <3> QED
      BY <2>1, <2>2, <3>1, <3>2
  <2>4. CASE l = f
    <3>1. Written(l)' = Written(l) \cup {m.id}
      <4>1. ToSet(written'[l]) = ToSet(written[l]) \cup {m}
        BY <1>8, <2>4 DEF s
      <4>2. \A i : i \in Written(l)' <=> i \in Written(l) \/ i = m.id
        BY <2>4, <4>1, IdsMembership
      <4> QED
        BY <4>2
    <3>2. Queued(l) \subseteq Queued(l)' \cup {m.id} /\ m.id \in Queued(l)
      BY <2>4, IdsMembership
    <3>3. m.id \notin Evicted(l)
      <4> SUFFICES ASSUME m.id \in Evicted(l)
                   PROVE  FALSE
        OBVIOUS
      <4>1. PICK e \in evicted : e.kind = "log" /\ e.from = l /\ e.id = m.id
        BY IdsMembership
      <4> QED
        BY <2>4, <4>1, FreshInQueue
    <3> QED
      BY <2>1, <2>2, <3>1, <3>2, <3>3
  <2> QED
    BY <2>3, <2>4
<1> QED
  BY <1>3, <1>5, <1>7, <1>10, <1>11, <1>13, <1>14 DEF s, u

\* Nothing is posted and nothing written: the records stay where they are.  A
\* flush message that a worker takes leaves no trace.
LEMMA SameRecords ==
  ASSUME IInv, UNCHANGED <<written, evicted, posted>>, InQueues' \subseteq InQueues,
         \A q \in InQueues : q.kind = "log" => q \in InQueues'
  PROVE  LoggerOrder' /\ EveryRecordAccounted' /\ Made' \subseteq Made
<1>1. LoggerOrder'
  BY OrderOfSets DEF IInv
<1>2. Made' \subseteq Made
  BY DEF Made, InSinks
<1>3. EveryRecordAccounted'
  <2> SUFFICES ASSUME NEW l \in Loggers
               PROVE  /\ posted'[l] = Queued(l)' \cup Written(l)' \cup Evicted(l)'
                      /\ Written(l)' \cap Evicted(l)' = {}
    BY DEF EveryRecordAccounted
  <2>1. Evicted(l)' = Evicted(l) /\ Written(l)' = Written(l)
    BY DEF Evicted, Written, IdsOf, Records, ToSet
  <2>2. Queued(l)' \subseteq Queued(l) /\ Queued(l) \subseteq Queued(l)'
    BY IdsMembership
  <2>3. Queued(l)' = Queued(l)
    BY <2>2
  <2> QED
    BY <2>1, <2>3 DEF IInv, EveryRecordAccounted
<1> QED
  BY <1>1, <1>2, <1>3

-----------------------------------------------------------------------------
(* The numbers of the calls.                                               *)

\* Records are messages, and numbered up to the last call.
LEMMA MadeFields ==
  ASSUME IInv
  PROVE  /\ calls \in Nat /\ calls \in 0..MaxCalls
         /\ \A r \in Made : r \in Message /\ r.kind = "log" /\ r.id \in Nat /\ r.id <= calls
         /\ \A n \in InCalls : n \in Message /\ n.id \in Nat /\ n.id <= calls
<1>1. calls \in 0..MaxCalls /\ calls \in Nat
  BY AsyncAssumption DEF IInv, TypeOK
<1>2. \A r \in Made : r \in Message /\ r.kind = "log"
  <2> TAKE r \in Made
  <2>1. CASE r \in InQueues
    <3>1. InQueues \subseteq Message
      <4>1. 1 \in 1..2
        OBVIOUS
      <4> QED
        BY <4>1, QueueTypes
    <3> QED
      BY <2>1, <3>1 DEF Made
  <2>2. CASE r \in InSinks
    <3>1. PICK l \in Loggers : r \in ToSet(written[l])
      BY <2>2 DEF InSinks
    <3>2. PICK i \in DOMAIN written[l] : r = written[l][i]
      BY <3>1 DEF ToSet
    <3> QED
      BY <3>2, SinkPlaces DEF Made
  <2>3. CASE r \in evicted
    BY <2>3 DEF Made, IInv, Shapes
  <2> QED
    BY <2>1, <2>2, <2>3 DEF Made
<1>3. \A n \in InCalls : n \in Message
  <2> TAKE n \in InCalls
  <2>1. PICK c \in Callers : pc[c] \in {"stream", "log", "post"} /\ n = msg[c]
    BY DEF InCalls
  <2> QED
    BY <2>1 DEF IInv, Pending
<1>4. \A x \in Made \cup InCalls : x.id <= calls
  BY DEF IInv, Numbered
<1> QED
  BY <1>1, <1>2, <1>3, <1>4, MessageFields

\* The record of a new call comes after all others.
LEMMA NewIsLast ==
  ASSUME IInv, NEW x, x.id = calls + 1
  PROVE  /\ \A r \in Made : Before(r, x)
         /\ \A n \in Made \cup InCalls : n.id # x.id
<1>1. \A n \in Made \cup InCalls : n.id \in Nat /\ n.id <= calls /\ calls \in Nat
  BY MadeFields
<1>2. \A n \in Made \cup InCalls : n.id < calls + 1
  BY <1>1
<1> QED
  BY <1>1, <1>2 DEF Before

\* A step that makes or moves at most the record x.
LEMMA CallsInv ==
  ASSUME IInv, NEW x, calls' \in {calls, calls + 1},
         Made' \subseteq Made \cup {x}, InCalls' \subseteq InCalls \cup {x},
         \/ x \in InCalls
         \/ x.kind = "flush" /\ x.id = 0
         \/ x.id = calls + 1 /\ calls' = calls + 1,
         x \in Made' => \A n \in InCalls' : n.by # x.by
  PROVE  Numbered' /\ \A r \in Made', n \in InCalls' : Before(r, n)
<1>1. /\ calls \in Nat
      /\ \A r \in Made : r.kind = "log" /\ r.id \in Nat /\ r.id <= calls
      /\ \A n \in InCalls : n.id \in Nat /\ n.id <= calls
  BY MadeFields
<1>2. \A r \in Made' : r.kind = "log"
  BY DEF Made
<1>3. \A r \in Made, n \in InCalls : Before(r, n)
  BY DEF IInv, QueueOrder
<1>4. \A r \in Made : Before(r, x)
  <2>1. CASE x \in InCalls
    BY <1>3, <2>1
  <2>2. CASE x.kind = "flush"
    BY <2>2 DEF Before
  <2>3. CASE x.id = calls + 1
    BY <2>3, NewIsLast
  <2> QED
    BY <2>1, <2>2, <2>3
<1>5. \A r \in Made', n \in InCalls' : Before(r, n)
  <2> TAKE r \in Made', n \in InCalls'
  <2>1. CASE r = x
    BY <2>1 DEF Before
  <2>2. CASE r # x
    <3>1. r \in Made /\ (n \in InCalls \/ n = x)
      BY <2>2
    <3> QED
      BY <1>3, <1>4, <3>1
  <2> QED
    BY <2>1, <2>2
<1>6. \A m \in Made' \cup InCalls' : m.id <= calls'
  <2> TAKE m \in Made' \cup InCalls'
  <2>0. calls' \in Nat /\ calls <= calls'
    BY <1>1
  <2>1. CASE m \in Made \cup InCalls
    <3>1. m.id \in Nat /\ m.id <= calls
      BY <1>1, <2>1
    <3> QED
      BY <1>1, <2>0, <3>1
  <2>2. CASE m = x /\ x \notin InCalls
    BY <1>1, <2>0, <2>2
  <2> QED
    BY <2>1, <2>2
<1>7. \A m, n \in Made' \cup {k \in InCalls' : k.kind = "log"} : m.id = n.id => m = n
  <2> SUFFICES ASSUME NEW m \in Made' \cup {k \in InCalls' : k.kind = "log"},
                      NEW n \in Made' \cup {k \in InCalls' : k.kind = "log"},
                      m.id = n.id, m # n
               PROVE  FALSE
    OBVIOUS
  <2>1. m.kind = "log" /\ n.kind = "log"
    BY <1>2
  <2> DEFINE Old == Made \cup {k \in InCalls : k.kind = "log"}
  <2>2. \A i, j \in Old : i.id = j.id => i = j
    BY DEF IInv, Numbered
  <2>3. (m \in Old \/ m = x) /\ (n \in Old \/ n = x)
    BY <2>1
  <2>4. CASE x.id = calls + 1
    <3>1. \A k \in Old : k.id # x.id
      BY <2>4, NewIsLast
    <3> QED
      BY <2>2, <2>3, <3>1
  <2>5. CASE x \in InCalls
    <3>1. m \in Old /\ n \in Old
      BY <2>1, <2>3, <2>5
    <3> QED
      BY <2>2, <3>1
  <2>6. CASE x.kind = "flush"
    BY <2>1, <2>2, <2>3, <2>6
  <2> QED
    BY <2>4, <2>5, <2>6
<1> QED
  BY <1>5, <1>6, <1>7 DEF Numbered

\* A step that makes no record and moves none out of a call.
LEMMA CallsKeep ==
  ASSUME IInv, calls' \in {calls, calls + 1}, Made' \subseteq Made, InCalls' \subseteq InCalls
  PROVE  Numbered' /\ \A r \in Made', n \in InCalls' : Before(r, n)
<1> DEFINE x == FlushOf(Default)
<1>1. x.kind = "flush" /\ x.id = 0
  BY DEF FlushOf
<1>2. x \notin Made'
  BY <1>1 DEF Made
<1> HIDE DEF x
<1> QED
  BY <1>1, <1>2, CallsInv

\* Nothing is posted and nothing written.
LEMMA QuietRecords ==
  ASSUME IInv, UNCHANGED <<queue, written, disk, evicted, posted>>
  PROVE  /\ LoggerOrder' /\ EveryRecordAccounted' /\ Made' \subseteq Made
         /\ \A g \in 1..2 : \A i, j \in DOMAIN queue'[g] :
              i < j => Before(queue'[g][i], queue'[g][j])
<1>1. InQueues' = InQueues
  BY DEF InQueues
<1>2. LoggerOrder' /\ EveryRecordAccounted' /\ Made' \subseteq Made
  BY <1>1, SameRecords
<1> QED
  BY <1>2 DEF IInv, QueueOrder

\* A step that posts nothing and writes nothing, and adds at most the message
\* x to those that the callers have still to post.
LEMMA QuietStep ==
  ASSUME IInv, NEW x, UNCHANGED <<queue, written, disk, evicted, posted>>,
         calls' \in {calls, calls + 1}, InCalls' \subseteq InCalls \cup {x},
         \/ x \in InCalls
         \/ x.kind = "flush" /\ x.id = 0
         \/ x.id = calls + 1 /\ calls' = calls + 1
  PROVE  QueueOrder' /\ Numbered' /\ LoggerOrder' /\ EveryRecordAccounted'
<1>1. /\ LoggerOrder' /\ EveryRecordAccounted' /\ Made' \subseteq Made
      /\ \A g \in 1..2 : \A i, j \in DOMAIN queue'[g] :
           i < j => Before(queue'[g][i], queue'[g][j])
  BY QuietRecords
<1>2. Numbered' /\ \A r \in Made', n \in InCalls' : Before(r, n)
  <2>1. CASE x \in InCalls
    BY <1>1, <2>1, CallsKeep
  <2>2. CASE x.kind = "flush" /\ x.id = 0
    <3>1. x \notin Made'
      BY <2>2 DEF Made
    <3> QED
      BY <1>1, <2>2, <3>1, CallsInv
  <2>3. CASE x.id = calls + 1 /\ calls' = calls + 1
    <3>1. x \notin Made
      BY <2>3, NewIsLast
    <3> QED
      BY <1>1, <2>3, <3>1, CallsInv
  <2> QED
    BY <2>1, <2>2, <2>3
<1> QED
  BY <1>1, <1>2 DEF QueueOrder

\* The same for a step that leaves the callers alone.
LEMMA QuietSetup ==
  ASSUME IInv, UNCHANGED <<queue, written, disk, evicted, posted, pc, msg>>,
         calls' \in {calls, calls + 1}
  PROVE  QueueOrder' /\ Numbered' /\ LoggerOrder' /\ EveryRecordAccounted'
<1> DEFINE x == FlushOf(Default)
<1>1. x.kind = "flush" /\ x.id = 0
  BY DEF FlushOf
<1>2. InCalls' = InCalls
  BY DEF InCalls
<1> HIDE DEF x
<1> QED
  BY <1>1, <1>2, QuietStep

\* A step that posts the message m.
LEMMA PostStep ==
  ASSUME IInv, NEW g \in 1..2, NEW m \in Message, PostOverrun(g, m) \/ PostBlock(g, m),
         tp[m.from] = g, name[m.from] # NoName, UNCHANGED <<tp, name, written>>,
         calls' \in {calls, calls + 1}, InCalls' \subseteq InCalls,
         \/ m \in InCalls
         \/ m.kind = "flush" /\ m.id = 0
         \/ m.id = calls + 1 /\ calls' = calls + 1,
         m.kind = "log" => \A n \in InCalls' : n.by # m.by
  PROVE  /\ queue' \in [0..2 -> Seq(Message)] /\ queue'[0] = << >>
         /\ \A h \in 0..2 : Len(queue'[h]) <= QueueSize
         /\ evicted' \subseteq Message /\ posted' \in [Loggers -> SUBSET (0..MaxCalls)]
         /\ Home' /\ QueueOrder' /\ Numbered' /\ LoggerOrder' /\ EveryRecordAccounted'
         /\ Last(queue'[g]) = m
<1>1. \A r \in Made : Before(r, m)
  <2>1. CASE m \in InCalls
    BY <2>1 DEF IInv, QueueOrder
  <2>2. CASE m.kind = "flush"
    BY <2>2 DEF Before
  <2>3. CASE m.id = calls + 1
    BY <2>3, NewIsLast
  <2> QED
    BY <2>1, <2>2, <2>3
<1>2. /\ queue' \in [0..2 -> Seq(Message)] /\ queue'[0] = << >>
      /\ \A h \in 0..2 : Len(queue'[h]) <= QueueSize
      /\ Last(queue'[g]) = m
      /\ InQueues' \subseteq InQueues \cup {m} /\ m \in InQueues'
      /\ InQueues \subseteq InQueues' \cup evicted'
      /\ evicted \subseteq evicted' /\ evicted' \subseteq evicted \cup InQueues
      /\ \A e \in evicted', q \in InQueues' : e \in evicted \/ q = m \/ Before(e, q)
      /\ Home'
      /\ \A h \in 1..2 : \A i, j \in DOMAIN queue'[h] :
           i < j => Before(queue'[h][i], queue'[h][j])
      /\ posted' = [posted EXCEPT ![m.from] = Ids(m.from, m)]
  BY <1>1, PostQueue
<1>3. /\ LoggerOrder' /\ EveryRecordAccounted'
      /\ Made' \subseteq Made \cup {m} /\ evicted' \subseteq Message
      /\ posted' \in [Loggers -> SUBSET (0..MaxCalls)]
  BY <1>1, <1>2, PostRecords
<1>4. m \in Made' => \A n \in InCalls' : n.by # m.by
  BY DEF Made
<1>5. Numbered' /\ \A r \in Made', n \in InCalls' : Before(r, n)
  BY <1>3, <1>4, CallsInv
<1> QED
  BY <1>2, <1>3, <1>5 DEF QueueOrder

-----------------------------------------------------------------------------
(* Initialize().                                                           *)

\* The types a step keeps that leaves the queues and the sinks alone.
LEMMA SameTypes ==
  ASSUME IInv, UNCHANGED <<queue, written, disk, evicted, posted>>
  PROVE  /\ queue' \in [0..2 -> Seq(Message)] /\ queue'[0] = << >>
         /\ \A h \in 0..2 : queue'[h] \in Seq(Message) /\ Len(queue'[h]) <= QueueSize
         /\ written' \in [Loggers -> Seq(Message)] /\ disk' \in [Loggers -> Nat]
         /\ \A l \in Loggers : /\ written'[l] \in Seq(Message)
                               /\ disk'[l] \in 0..Len(written'[l])
         /\ \A l \in Loggers : \A i \in DOMAIN written'[l] :
              written'[l][i].kind = "log" /\ written'[l][i].from = l
         /\ evicted' \subseteq Message /\ posted' \in [Loggers -> SUBSET (0..MaxCalls)]
  BY DEF IInv, TypeOK, Shapes

\* What the constants leave apart.
LEMMA Apart ==
  /\ Default \in Loggers /\ Default \notin Data /\ Data \subseteq Loggers
  /\ Data \subseteq Callers /\ Threads \subseteq Callers /\ Threads \cap Data = {}
  /\ \A l \in Loggers : l = Default \/ l \in Data
  /\ <<"process">> # NoName
  BY AsyncAssumption DEF Loggers, Callers, NoName

\* The name of a file of a data logger is that of no other logger's place.
LEMMA FileNameApart ==
  ASSUME NEW d
  PROVE  FileName(d) # NoName /\ FileName(d) # <<"process">>
<1> DEFINE x == <<Prefix[d], now, ".csv">>
<1>1. FileName(d) = Append(<<"path">>, x)
  BY DEF FileName, CreateLogFileName
<1> HIDE DEF x
<1>2. <<"path">> \in Seq({"path", x}) /\ x \in {"path", x} /\ Len(<<"path">>) = 1
  OBVIOUS
<1>3. Len(Append(<<"path">>, x)) = 2
  BY <1>2, AppendPlaces
<1>4. Len(NoName) = 0 /\ Len(<<"process">>) = 1
  BY DEF NoName
<1> QED
  BY <1>1, <1>3, <1>4

\* The look at the pool: no data logger has one yet if there is none.
LEMMA InitializeCheckInv ==
  ASSUME IInv, InitializeCheck
  PROVE  IInv'
<1> USE DEF InitializeCheck, callers, output, history
<1>1. QueueOrder' /\ Numbered' /\ LoggerOrder' /\ EveryRecordAccounted'
  BY QuietSetup
<1>2. TypeOK' /\ Shapes'
  BY SameTypes DEF IInv, TypeOK, Shapes
<1>3. Pools'
  <2>1. pool \in 0..2 /\ init = "none" /\ init' = IF pool = 0 THEN "create" ELSE "logger"
    BY DEF IInv, TypeOK
  <2>2. \A d \in Data : name[d] # NoName => tp[d] \in 1..pool
    BY DEF IInv, Pools
  <2>3. pool = 0 => \A d \in Data : name[d] = NoName
    BY <2>2
  <2> QED
    BY <2>1, <2>3 DEF IInv, Pools, Ready
<1>4. Pending' /\ Home' /\ OrphanedOnlyByRace'
  BY DEF IInv, Pending, Home, OrphanedOnlyByRace, Ready
<1> QED
  BY <1>1, <1>2, <1>3, <1>4 DEF IInv

\* The new pool: those that had the old one were created after the look.  The
\* old one may have to be waited for.
LEMMA InitializePoolInv ==
  ASSUME IInv, InitializePool
  PROVE  IInv'
<1> USE DEF InitializePool, callers, output, history
<1>1. QueueOrder' /\ Numbered' /\ LoggerOrder' /\ EveryRecordAccounted'
  BY QuietSetup
<1>2. /\ pool \in 0..1 /\ pool' \in 1..2 /\ pool' = pool + 1
      /\ init = "create" /\ init' \in {"join", "logger"}
  BY DEF IInv, TypeOK, Pools
<1>3. TypeOK' /\ Shapes'
  BY <1>2, SameTypes DEF IInv, TypeOK, Shapes
<1>4. Pools'
  <2>1. \A d \in Data : name[d] # NoName => tp[d] \in 1..pool /\ d \in raced
    BY DEF IInv, Pools
  <2>2. \A d \in Data : name[d] # NoName => tp[d] \in 1..pool' /\ d \in raced
    BY <1>2, <2>1
  <2> QED
    BY <1>2, <2>2 DEF IInv, Pools, Ready
<1>5. Pending' /\ Home' /\ OrphanedOnlyByRace'
  BY DEF IInv, Pending, Home, OrphanedOnlyByRace, Ready
<1> QED
  BY <1>1, <1>3, <1>4, <1>5 DEF IInv

\* The worker of the old pool has ended.
LEMMA InitializeJoinInv ==
  ASSUME IInv, InitializeJoin
  PROVE  IInv'
<1> USE DEF InitializeJoin, callers, output, history
<1>1. QueueOrder' /\ Numbered' /\ LoggerOrder' /\ EveryRecordAccounted'
  BY QuietSetup
<1>2. TypeOK' /\ Shapes'
  BY SameTypes DEF IInv, TypeOK, Shapes
<1>3. Pools' /\ Pending' /\ Home' /\ OrphanedOnlyByRace'
  BY DEF IInv, Pools, Pending, Home, OrphanedOnlyByRace, Ready
<1> QED
  BY <1>1, <1>2, <1>3 DEF IInv

\* The logger is assigned: until then nothing was posted through it.
LEMMA InitializeLoggerInv ==
  ASSUME IInv, InitializeLogger
  PROVE  IInv'
<1> USE DEF InitializeLogger, callers, output, history
<1>1. QueueOrder' /\ Numbered' /\ LoggerOrder' /\ EveryRecordAccounted'
  BY QuietSetup
<1>2. pool \in 1..2 /\ init = "logger" /\ init' = "ready" /\ pool' = pool
  BY DEF IInv, TypeOK, Pools
<1>3. /\ name'[Default] = <<"process">> /\ tp'[Default] = pool
      /\ \A l \in Data : name'[l] = name[l] /\ tp'[l] = tp[l]
      /\ DOMAIN name' = Loggers /\ tp' \in [Loggers -> 0..2]
  BY <1>2, Apart DEF IInv, TypeOK, Shapes
<1>4. name[Default] = NoName /\ \A d \in Data : name[d] # <<"process">>
  BY <1>2 DEF IInv, Pools, Ready
<1>5. level' \in ToSet(SpdlogLevels)
  BY ToLevel
<1>7. TypeOK'
  BY <1>2, <1>3, <1>5, SameTypes DEF IInv, TypeOK
<1>8. Shapes'
  BY <1>3, <1>4, Apart, SameTypes DEF IInv, Shapes
<1>9. Pools'
  BY <1>2, <1>3 DEF IInv, Pools, Ready
<1>10. Pending'
  BY <1>2, <1>3 DEF IInv, Pending, Ready
<1>11. Home'
  <2> SUFFICES ASSUME NEW g \in 1..2, NEW i \in DOMAIN queue[g]
               PROVE  tp'[queue[g][i].from] = g /\ name'[queue[g][i].from] # NoName
    BY DEF Home
  <2>1. queue[g][i].from \in Loggers
    BY QueueTypes, MessageFields
  <2>2. tp[queue[g][i].from] = g /\ name[queue[g][i].from] # NoName
    BY DEF IInv, Home
  <2>3. queue[g][i].from \in Data
    BY <1>4, <2>1, <2>2, Apart
  <2> QED
    BY <1>3, <2>2, <2>3
<1> QED
  BY <1>1, <1>7, <1>8, <1>9, <1>10, <1>11 DEF IInv, OrphanedOnlyByRace

-----------------------------------------------------------------------------
(* XLOG_*.                                                                 *)

\* The DefaultLogger that is assigned has a pool and a name.
LEMMA DefaultReady ==
  ASSUME IInv, Ready
  PROVE  tp[Default] \in 1..2 /\ tp[Default] = pool /\ name[Default] # NoName
<1>1. pool \in 1..2
  BY DEF IInv, TypeOK, Pools, Ready
<1> QED
  BY <1>1, Apart DEF IInv, Pools

\* The next call has a number.
LEMMA NextCall ==
  ASSUME IInv, calls < MaxCalls
  PROVE  calls + 1 \in 0..MaxCalls
  BY AsyncAssumption DEF IInv, TypeOK

\* What a caller has still to post is its own.
LEMMA OwnMessages ==
  ASSUME IInv, NEW c \in Callers, pc[c] \in {"stream", "log", "post"}
  PROVE  msg[c] \in Message /\ msg[c] \in InCalls /\ msg[c].by = c
  BY DEF IInv, Pending, InCalls

\* The messages in calls are not those of an idle caller.
LEMMA IdleHasNone ==
  ASSUME IInv, NEW c \in Callers, pc[c] = "idle"
  PROVE  \A n \in InCalls : n.by # c
<1> SUFFICES ASSUME NEW n \in InCalls
             PROVE  n.by # c
  OBVIOUS
<1>1. PICK e \in Callers : pc[e] \in {"stream", "log", "post"} /\ n = msg[e]
  BY DEF InCalls
<1>2. n.by = e
  BY <1>1, OwnMessages
<1> QED
  BY <1>1, <1>2

\* A caller that has posted its message has none left.
LEMMA LeavesCall ==
  ASSUME IInv, NEW c \in Callers, NEW p \in {"idle", "join"},
         pc' = [pc EXCEPT ![c] = p], msg' = [msg EXCEPT ![c] = << >>]
  PROVE  InCalls' \subseteq InCalls /\ \A n \in InCalls' : n.by # c
<1> SUFFICES ASSUME NEW n \in InCalls'
             PROVE  n \in InCalls /\ n.by # c
  OBVIOUS
<1>1. PICK e \in Callers : pc'[e] \in {"stream", "log", "post"} /\ n = msg'[e]
  BY DEF InCalls
<1>2. e # c /\ pc[e] \in {"stream", "log", "post"} /\ n = msg[e]
  BY <1>1 DEF IInv, TypeOK, Shapes
<1> QED
  BY <1>2, OwnMessages

\* The types after a message is posted.
LEMMA PostedTypes ==
  ASSUME IInv, queue' \in [0..2 -> Seq(Message)], queue'[0] = << >>,
         \A h \in 0..2 : Len(queue'[h]) <= QueueSize,
         evicted' \subseteq Message, posted' \in [Loggers -> SUBSET (0..MaxCalls)],
         UNCHANGED <<setup, now, level, output>>,
         pc' \in [Callers -> {"idle", "stream", "log", "post", "join"}], held' \in [Callers -> 0..2],
         \A c \in Callers : (pc'[c] = "post") <=> (held'[c] # 0),
         DOMAIN msg' = Callers, due' \subseteq due, calls' \in 0..MaxCalls,
         overtaken' \subseteq overtaken
  PROVE  TypeOK' /\ Shapes' /\ UNCHANGED <<env, init, pool, tp, name, written, disk>>
<1>1. UNCHANGED <<env, init, pool, tp, name, written, disk>>
  BY DEF setup, output
<1>2. \A h \in 0..2 : queue'[h] \in Seq(Message) /\ Len(queue'[h]) <= QueueSize
  OBVIOUS
<1>3. TypeOK'
  BY <1>1, <1>2 DEF IInv, TypeOK
<1>4. Shapes'
  BY <1>1 DEF IInv, Shapes
<1> QED
  BY <1>1, <1>3, <1>4

\* The level changes.
LEMMA SetLoggerLevelInv ==
  ASSUME IInv, NEW lv, SetLoggerLevel(lv)
  PROVE  IInv'
<1> USE DEF SetLoggerLevel, setup, callers, output, history
<1>1. QueueOrder' /\ Numbered' /\ LoggerOrder' /\ EveryRecordAccounted'
  BY QuietSetup
<1>2. calls' \in 0..MaxCalls /\ level' \in ToSet(SpdlogLevels)
  BY NextCall, ToLevel
<1>3. TypeOK' /\ Shapes'
  BY <1>2, SameTypes DEF IInv, TypeOK, Shapes
<1>4. Pools' /\ Pending' /\ Home' /\ OrphanedOnlyByRace'
  BY DEF IInv, Pools, Pending, Home, OrphanedOnlyByRace, Ready
<1> QED
  BY <1>1, <1>3, <1>4 DEF IInv

\* A record is made: it gets the number of its call.
LEMMA RecordMade ==
  ASSUME IInv, NEW t \in Threads, NEW lv, NEW p \in {"stream", "log"},
         Ready, pc[t] = "idle", calls < MaxCalls, calls' = calls + 1,
         pc' = [pc EXCEPT ![t] = p],
         msg' = [msg EXCEPT ![t] = Record(Default, t, calls + 1, ToSpdlogLevel(lv))],
         UNCHANGED <<setup, now, level, queue, held, due, output, history>>
  PROVE  IInv'
<1> USE DEF setup, output, history
<1> DEFINE m == Record(Default, t, calls + 1, ToSpdlogLevel(lv))
<1>0. t \in Callers /\ t \notin Data
  BY Apart
<1>1. calls' \in 0..MaxCalls
  BY NextCall
<1>2. /\ m \in Message /\ m.kind = "log" /\ m.from = Default /\ m.by = t
      /\ m.id = calls + 1
  BY <1>0, <1>1, ToLevel, Apart, RecordMessage
<1> HIDE DEF m
<1>3. /\ \A c \in Callers : c # t => pc'[c] = pc[c] /\ msg'[c] = msg[c]
      /\ pc'[t] = p /\ msg'[t] = m
      /\ DOMAIN msg' = Callers
      /\ pc' \in [Callers -> {"idle", "stream", "log", "post", "join"}]
  BY <1>0 DEF m, IInv, TypeOK, Shapes
<1>4. InCalls' \subseteq InCalls \cup {m}
  BY <1>3 DEF InCalls
<1>5. QueueOrder' /\ Numbered' /\ LoggerOrder' /\ EveryRecordAccounted'
  BY <1>0, <1>2, <1>4, QuietStep
<1>6. \A c \in Callers : (pc'[c] = "post") <=> (held'[c] # 0)
  BY <1>0, <1>3 DEF IInv, TypeOK
<1>7. TypeOK' /\ Shapes'
  BY <1>1, <1>3, <1>6, SameTypes DEF IInv, TypeOK, Shapes
<1>8. Pools' /\ Home' /\ OrphanedOnlyByRace'
  BY DEF IInv, Pools, Home, OrphanedOnlyByRace, Ready
<1>9. Pending'
  BY <1>0, <1>2, <1>3 DEF IInv, Pending, Ready
<1> QED
  BY <1>5, <1>7, <1>8, <1>9 DEF IInv

\* The gate of a stream, and the check of XLOG_INFO and the like.
LEMMA StreamGateInv ==
  ASSUME IInv, NEW t \in Threads, NEW lv, StreamGate(t, lv)
  PROVE  IInv'
  BY RecordMade DEF StreamGate, GetInstance

LEMMA XlogInv ==
  ASSUME IInv, NEW t \in Threads, NEW lv, Xlog(t, lv)
  PROVE  IInv'
  BY RecordMade DEF Xlog, GetInstance

\* The stream message passes the check, or is given up if its level is off.
LEMMA StreamLogInv ==
  ASSUME IInv, NEW t \in Threads, StreamLog(t)
  PROVE  IInv'
<1>0. t \in Callers /\ pc[t] = "stream"
  BY Apart DEF StreamLog
<1>1. /\ UNCHANGED <<env, init, pool, tp, name, now, level, queue, held, due, written, disk>>
      /\ UNCHANGED <<calls, posted, evicted, rejected, mark, raced, overtaken>>
  BY DEF StreamLog, setup, output, history
<1>2. /\ \/ pc' = [pc EXCEPT ![t] = "log"] /\ msg' = msg
         \/ pc' = [pc EXCEPT ![t] = "idle"] /\ msg' = [msg EXCEPT ![t] = << >>]
  BY DEF StreamLog
<1>3. /\ \A c \in Callers : c # t => pc'[c] = pc[c] /\ msg'[c] = msg[c]
      /\ pc'[t] \in {"log", "idle"} /\ (pc'[t] = "log" => msg'[t] = msg[t])
      /\ DOMAIN msg' = Callers
      /\ pc' \in [Callers -> {"idle", "stream", "log", "post", "join"}]
  <2>1. /\ pc \in [Callers -> {"idle", "stream", "log", "post", "join"}]
        /\ DOMAIN msg = Callers
    BY DEF IInv, TypeOK, Shapes
  <2> QED
    BY <1>0, <1>2, <2>1
<1>4. InCalls' \subseteq InCalls
  <2> SUFFICES ASSUME NEW e \in Callers, pc'[e] \in {"stream", "log", "post"}
               PROVE  msg'[e] \in InCalls
    BY DEF InCalls
  <2>1. pc[e] \in {"stream", "log", "post"} /\ msg'[e] = msg[e]
    BY <1>0, <1>3
  <2> QED
    BY <2>1 DEF InCalls
<1>5. msg[t] \in InCalls
  BY <1>0, OwnMessages
<1>6. QueueOrder' /\ Numbered' /\ LoggerOrder' /\ EveryRecordAccounted'
  BY <1>1, <1>4, <1>5, QuietStep
<1>7. \A c \in Callers : (pc'[c] = "post") <=> (held'[c] # 0)
  BY <1>0, <1>1, <1>3 DEF IInv, TypeOK
<1>8. TypeOK' /\ Shapes'
  BY <1>1, <1>3, <1>7, SameTypes DEF IInv, TypeOK, Shapes
<1>9. Pools' /\ Home' /\ OrphanedOnlyByRace'
  BY <1>1 DEF IInv, Pools, Home, OrphanedOnlyByRace, Ready
<1>10. Pending'
  BY <1>0, <1>1, <1>3 DEF IInv, Pending, Ready
<1> QED
  BY <1>6, <1>8, <1>9, <1>10 DEF IInv

\* The record is posted.
LEMMA LogPostInv ==
  ASSUME IInv, NEW t \in Threads, LogPost(t)
  PROVE  IInv' /\ Last(queue'[tp[Default]]) = msg[t]
<1> USE DEF LogPost
<1>0. t \in Callers /\ pc[t] = "log"
  BY Apart
<1>1. Ready /\ msg[t].kind = "log" /\ msg[t].from = Default /\ msg[t].by = t
  BY <1>0 DEF IInv, Pending
<1>2. msg[t] \in Message /\ msg[t] \in InCalls
  BY <1>0, OwnMessages
<1>3. InCalls' \subseteq InCalls /\ \A n \in InCalls' : n.by # t
  BY <1>0, LeavesCall
<1>4. /\ pc' \in [Callers -> {"idle", "stream", "log", "post", "join"}]
      /\ DOMAIN msg' = Callers
      /\ \A c \in Callers : c # t => pc'[c] = pc[c] /\ msg'[c] = msg[c]
      /\ pc'[t] = "idle" /\ held' = held
      /\ \A c \in Callers : (pc'[c] = "post") <=> (held'[c] # 0)
  BY <1>0 DEF IInv, TypeOK, Shapes
<1>5. /\ UNCHANGED <<setup, now, level, held, due, output, calls>> /\ UNCHANGED <<rejected, raced>>
      /\ UNCHANGED <<env, init, pool, tp, name, written, disk>>
      /\ overtaken' \subseteq overtaken
  BY DEF setup, output
<1>6. held \in [Callers -> 0..2] /\ calls \in 0..MaxCalls
  BY DEF IInv, TypeOK, Shapes
<1>7. PostOverrun(tp[Default], msg[t])
  BY DEF XlogPost
<1>8. tp[Default] \in 1..2 /\ name[Default] # NoName
  BY <1>1, DefaultReady
<1>9. /\ queue' \in [0..2 -> Seq(Message)] /\ queue'[0] = << >>
      /\ \A h \in 0..2 : Len(queue'[h]) <= QueueSize
      /\ evicted' \subseteq Message /\ posted' \in [Loggers -> SUBSET (0..MaxCalls)]
      /\ Home' /\ QueueOrder' /\ Numbered' /\ LoggerOrder' /\ EveryRecordAccounted'
      /\ Last(queue'[tp[Default]]) = msg[t]
  BY <1>1, <1>2, <1>3, <1>5, <1>7, <1>8, PostStep
<1>10. TypeOK' /\ Shapes'
  BY <1>4, <1>5, <1>6, <1>9, PostedTypes
<1>11. Pools' /\ OrphanedOnlyByRace'
  BY <1>5 DEF IInv, Pools, OrphanedOnlyByRace, Ready
<1>12. Pending'
  BY <1>4, <1>5 DEF IInv, Pending, Ready
<1> QED
  BY <1>9, <1>10, <1>11, <1>12 DEF IInv

\* The flush of Terminate().
LEMMA TerminateInv ==
  ASSUME IInv, NEW t \in Threads, Terminate(t)
  PROVE  IInv'
<1> USE DEF Terminate
<1> DEFINE m == FlushOf(Default)
<1>1. /\ m \in Message /\ m.kind = "flush" /\ m.from = Default /\ m.id = 0
      /\ PostOverrun(tp[Default], m) /\ calls' = calls + 1
  BY Apart, FlushMessage DEF XlogPost, FlushOf
<1>2. /\ UNCHANGED <<setup, now, level, output>> /\ UNCHANGED <<rejected, raced, due, overtaken>>
      /\ UNCHANGED <<env, init, pool, tp, name, written, disk, pc, held, msg>>
  BY DEF setup, output, callers
<1> HIDE DEF m
<1>3. InCalls' = InCalls
  BY <1>2 DEF InCalls
<1>4. tp[Default] \in 1..2 /\ name[Default] # NoName
  BY DefaultReady DEF GetInstance
<1>5. /\ queue' \in [0..2 -> Seq(Message)] /\ queue'[0] = << >>
      /\ \A h \in 0..2 : Len(queue'[h]) <= QueueSize
      /\ evicted' \subseteq Message /\ posted' \in [Loggers -> SUBSET (0..MaxCalls)]
      /\ Home' /\ QueueOrder' /\ Numbered' /\ LoggerOrder' /\ EveryRecordAccounted'
  BY <1>1, <1>2, <1>3, <1>4, PostStep
<1>6. /\ pc' \in [Callers -> {"idle", "stream", "log", "post", "join"}]
      /\ held' \in [Callers -> 0..2]
      /\ \A c \in Callers : (pc'[c] = "post") <=> (held'[c] # 0)
      /\ DOMAIN msg' = Callers
  BY <1>2 DEF IInv, TypeOK, Shapes
<1>7. calls' \in 0..MaxCalls
  BY NextCall
<1>8. TypeOK' /\ Shapes'
  BY <1>2, <1>5, <1>6, <1>7, PostedTypes
<1>9. Pools' /\ Pending' /\ OrphanedOnlyByRace'
  BY <1>2 DEF IInv, Pools, Pending, OrphanedOnlyByRace, Ready
<1> QED
  BY <1>5, <1>8, <1>9 DEF IInv

-----------------------------------------------------------------------------
(* The data loggers.                                                       *)

\* The constructor: the new name is nobody's, and the pool is there.
LEMMA ConstructInv ==
  ASSUME IInv, NEW d \in Data, Construct(d)
  PROVE  IInv'
<1> USE DEF Construct, callers, output
<1>1. QueueOrder' /\ Numbered' /\ LoggerOrder' /\ EveryRecordAccounted'
  BY QuietSetup
<1>2. /\ name[d] = NoName /\ FileName(d) # NoName /\ FileName(d) # <<"process">>
      /\ \A l \in Loggers : name[l] # FileName(d)
      /\ d \in Loggers /\ d # Default
  BY FileNameApart, Apart
<1>3. /\ pool \in 0..2 /\ pool' \in 1..2
      /\ pool' = IF pool = 0 THEN 1 ELSE pool
      /\ tp \in [Loggers -> 0..2] /\ DOMAIN name = Loggers
  BY DEF IInv, TypeOK, Shapes
<1>4. /\ name'[d] = FileName(d) /\ tp'[d] = pool'
      /\ \A l \in Loggers : l # d => name'[l] = name[l] /\ tp'[l] = tp[l]
      /\ DOMAIN name' = Loggers /\ tp' \in [Loggers -> 0..2]
  BY <1>2, <1>3
<1>6. TypeOK'
  BY <1>3, <1>4, SameTypes DEF IInv, TypeOK
<1>7. Shapes'
  BY <1>4, SameTypes DEF IInv, Shapes
<1>8. Pools'
  <2>1. \A e \in Data : e # d => /\ name'[e] # <<"process">>
                                 /\ name'[e] # NoName => /\ tp'[e] \in 1..pool /\ pool' = pool
                                                         /\ tp'[e] = pool \/ e \in raced
                                                         /\ init = "create" => e \in raced
    <3>1. \A e \in Data : e # d /\ name'[e] # NoName => tp[e] \in 1..pool
      BY <1>4, Apart DEF IInv, Pools
    <3>2. \A e \in Data : e # d /\ name'[e] # NoName => pool # 0
      BY <3>1
    <3> QED
      BY <1>3, <1>4, <3>1, <3>2, Apart DEF IInv, Pools
  <2>2. \A e \in Data : /\ name'[e] # <<"process">>
                        /\ name'[e] # NoName => /\ tp'[e] \in 1..pool'
                                                /\ tp'[e] = pool' \/ e \in raced'
                                                /\ init' = "create" => e \in raced'
    <3> TAKE e \in Data
    <3>1. CASE e = d
      <4>1. tp'[d] \in 1..pool'
        BY <1>3, <1>4
      <4> QED
        BY <1>2, <1>4, <3>1, <4>1
    <3>2. CASE e # d
      BY <2>1, <3>2
    <3> QED
      BY <3>1, <3>2
  <2>3. name'[Default] = IF Ready THEN <<"process">> ELSE NoName
    BY <1>2, <1>4, Apart DEF IInv, Pools
  <2>4. /\ init \in {"none", "create"} => pool' <= 1
        /\ init \in {"join", "logger", "ready"} => pool' >= 1 /\ pool' = pool
    BY <1>3 DEF IInv, Pools
  <2>5. Ready => tp'[Default] = pool'
    BY <1>2, <1>4, <2>4, Apart DEF IInv, Pools, Ready
  <2> QED
    BY <2>2, <2>3, <2>4, <2>5 DEF Pools, Ready
<1>9. Pending'
  <2> SUFFICES ASSUME NEW c \in Callers
               PROVE  /\ pc[c] \in {"stream", "log"} =>
                           /\ c \in Threads /\ Ready
                           /\ msg[c] \in Message /\ msg[c].kind = "log"
                           /\ msg[c].from = Default /\ msg[c].by = c
                      /\ pc[c] = "post" => /\ c \in Data /\ name'[c] # NoName
                                           /\ held[c] = tp'[c]
                                           /\ msg[c] \in Message
                                           /\ msg[c].from = c /\ msg[c].by = c
    BY DEF Pending, Ready
  <2>1. pc[c] = "post" => c \in Data /\ c # d
    BY <1>2 DEF IInv, Pending
  <2> QED
    BY <1>4, <2>1, Apart DEF IInv, Pending
<1>10. Home'
  <2> SUFFICES ASSUME NEW g \in 1..2, NEW i \in DOMAIN queue[g]
               PROVE  tp'[queue[g][i].from] = g /\ name'[queue[g][i].from] # NoName
    BY DEF Home
  <2>1. queue[g][i].from \in Loggers
    BY QueueTypes, MessageFields
  <2>2. tp[queue[g][i].from] = g /\ name[queue[g][i].from] # NoName
    BY DEF IInv, Home
  <2> QED
    BY <1>2, <1>4, <2>1, <2>2
<1>11. OrphanedOnlyByRace'
  BY DEF IInv, OrphanedOnlyByRace
<1> QED
  BY <1>1, <1>6, <1>7, <1>8, <1>9, <1>10, <1>11 DEF IInv

\* The constructor throws: the pool is there all the same, and had no logger.
LEMMA ConstructThrowsInv ==
  ASSUME IInv, NEW d \in Data, ConstructThrows(d)
  PROVE  IInv'
<1> USE DEF ConstructThrows, callers, output, history
<1>1. QueueOrder' /\ Numbered' /\ LoggerOrder' /\ EveryRecordAccounted'
  BY QuietSetup
<1>2. TypeOK' /\ Shapes'
  BY SameTypes DEF IInv, TypeOK, Shapes
<1>3. init \in {"none", "create"} /\ \A e \in Data : name[e] = NoName
  <2>1. \A e \in Data : name[e] # NoName => tp[e] \in 1..pool
    BY DEF IInv, Pools
  <2>2. \A e \in Data : name[e] = NoName
    BY <2>1
  <2>3. init \in {"none", "create"}
    BY DEF IInv, TypeOK, Pools
  <2> QED
    BY <2>2, <2>3
<1>4. Pools'
  BY <1>3 DEF IInv, Pools, Ready
<1>5. Pending' /\ Home' /\ OrphanedOnlyByRace'
  BY DEF IInv, Pending, Home, OrphanedOnlyByRace, Ready
<1> QED
  BY <1>1, <1>2, <1>4, <1>5 DEF IInv

\* A call: the pool is locked, or it is gone, which only the race explains.
LEMMA CallInv ==
  ASSUME IInv, NEW d \in Data, NEW m \in Message, Call(d, m), m.from = d, m.by = d,
         (m.kind = "log" /\ m.id = calls + 1) \/ (m.kind = "flush" /\ m.id = 0)
  PROVE  IInv'
<1> USE DEF Call
<1>0. d \in Callers /\ d \in Loggers /\ name[d] # NoName /\ pc[d] = "idle" /\ calls' = calls + 1
  BY Apart
<1>1. calls' \in 0..MaxCalls
  BY NextCall
<1>2. UNCHANGED <<env, init, pool, tp, name, now, level, queue, due, written, disk,
                  posted, evicted, raced, overtaken>>
  BY DEF setup, output
<1>3. tp[d] \in 1..pool /\ (tp[d] = pool \/ d \in raced) /\ pool \in 0..2
  BY <1>0 DEF IInv, TypeOK, Pools
<1>4. CASE PoolAlive(tp[d])
  <2>1. /\ \A c \in Callers : c # d => pc'[c] = pc[c] /\ msg'[c] = msg[c] /\ held'[c] = held[c]
        /\ pc'[d] = "post" /\ msg'[d] = m /\ held'[d] = tp[d]
        /\ DOMAIN msg' = Callers /\ pc' \in [Callers -> {"idle", "stream", "log", "post", "join"}]
        /\ held' \in [Callers -> 0..2] /\ UNCHANGED rejected
    <3>1. /\ pc' = [pc EXCEPT ![d] = "post"] /\ held' = [held EXCEPT ![d] = tp[d]]
          /\ msg' = [msg EXCEPT ![d] = m] /\ UNCHANGED rejected
      BY <1>4
    <3>2. /\ pc \in [Callers -> {"idle", "stream", "log", "post", "join"}] /\ held \in [Callers -> 0..2]
          /\ DOMAIN msg = Callers /\ tp[d] \in 0..2
      BY <1>0 DEF IInv, TypeOK, Shapes
    <3> HIDE DEF Call
    <3> QED
      BY <1>0, <3>1, <3>2
  <2>2. InCalls' \subseteq InCalls \cup {m}
    BY <2>1 DEF InCalls
  <2>3. QueueOrder' /\ Numbered' /\ LoggerOrder' /\ EveryRecordAccounted'
    BY <1>0, <1>2, <2>2, QuietStep
  <2>4. \A c \in Callers : (pc'[c] = "post") <=> (held'[c] # 0)
    BY <1>3, <2>1 DEF IInv, TypeOK
  <2>5. TypeOK' /\ Shapes'
    BY <1>1, <1>2, <2>1, <2>4, SameTypes DEF IInv, TypeOK, Shapes
  <2>6. Pools' /\ Home' /\ OrphanedOnlyByRace'
    BY <1>2, <2>1 DEF IInv, Pools, Home, OrphanedOnlyByRace, Ready
  <2>7. Pending'
    BY <1>0, <1>2, <2>1 DEF IInv, Pending, Ready
  <2> QED
    BY <2>3, <2>5, <2>6, <2>7 DEF IInv
<1>5. CASE ~PoolAlive(tp[d])
  <2>1. rejected' = rejected \cup {d} /\ UNCHANGED <<pc, held, msg>>
    BY <1>5 DEF callers
  <2>2. QueueOrder' /\ Numbered' /\ LoggerOrder' /\ EveryRecordAccounted'
    BY <1>0, <1>2, <2>1, QuietSetup
  <2>3. TypeOK' /\ Shapes'
    BY <1>1, <1>2, <2>1, SameTypes DEF IInv, TypeOK, Shapes
  <2>4. Pools' /\ Home' /\ Pending'
    BY <1>2, <2>1 DEF IInv, Pools, Home, Pending, Ready
  <2>5. d \in raced
    BY <1>3, <1>5 DEF PoolAlive
  <2>6. OrphanedOnlyByRace'
    BY <1>2, <2>1, <2>5 DEF IInv, OrphanedOnlyByRace
  <2> QED
    BY <2>2, <2>3, <2>4, <2>6 DEF IInv
<1> QED
  BY <1>4, <1>5

LEMMA LogInv ==
  ASSUME IInv, NEW d \in Data, Call(d, Record(d, d, calls + 1, "info"))
  PROVE  IInv'
<1> DEFINE m == Record(d, d, calls + 1, "info")
<1>1. /\ m \in Message /\ m.kind = "log" /\ m.from = d /\ m.by = d
      /\ m.id = calls + 1
  <2>1. calls + 1 \in 0..MaxCalls
    BY NextCall DEF Call
  <2> QED
    BY <2>1, Apart, LevelSet, RecordMessage
<1>2. Call(d, m)
  OBVIOUS
<1> HIDE DEF m
<1>3. (m.kind = "log" /\ m.id = calls + 1) \/ (m.kind = "flush" /\ m.id = 0)
  BY <1>1
<1> QED
  BY <1>1, <1>2, <1>3, CallInv

LEMMA FlushInv ==
  ASSUME IInv, NEW d \in Data, Flush(d)
  PROVE  IInv'
<1> DEFINE m == FlushOf(d)
<1>1. m \in Message /\ m.kind = "flush" /\ m.from = d /\ m.by = d
  BY Apart, FlushMessage
<1>2. m.id = 0 /\ Call(d, m)
  BY DEF FlushOf, Flush
<1> HIDE DEF m
<1> QED
  BY <1>1, <1>2, CallInv

\* The message of the call is put into the queue of the pool that was locked.
LEMMA PostInv ==
  ASSUME IInv, NEW d \in Data, Post(d)
  PROVE  IInv'
<1> USE DEF Post
<1>0. d \in Callers /\ d \in Loggers /\ pc[d] = "post"
  BY Apart
<1>1. /\ held[d] \in 1..2 /\ tp[d] = held[d] /\ name[d] # NoName
      /\ msg[d] \in Message /\ msg[d].from = d /\ msg[d].by = d
  BY <1>0 DEF IInv, TypeOK, Shapes, Pending
<1>2. msg[d] \in InCalls
  BY <1>0, OwnMessages
<1> DEFINE p == IF LastHolder(d) THEN "join" ELSE "idle"
<1>3. InCalls' \subseteq InCalls /\ \A n \in InCalls' : n.by # d
  <2>1. p \in {"idle", "join"} /\ pc' = [pc EXCEPT ![d] = p]
    OBVIOUS
  <2> HIDE DEF p
  <2> QED
    BY <1>0, <2>1, LeavesCall
<1>4. /\ UNCHANGED <<setup, now, level, due, output, calls>> /\ UNCHANGED <<rejected, raced, overtaken>>
      /\ UNCHANGED <<env, init, pool, tp, name, written, disk>>
  BY DEF setup, output
<1>5. /\ queue' \in [0..2 -> Seq(Message)] /\ queue'[0] = << >>
      /\ \A h \in 0..2 : Len(queue'[h]) <= QueueSize
      /\ evicted' \subseteq Message /\ posted' \in [Loggers -> SUBSET (0..MaxCalls)]
      /\ Home' /\ QueueOrder' /\ Numbered' /\ LoggerOrder' /\ EveryRecordAccounted'
  <2>1. PostBlock(held[d], msg[d])
    OBVIOUS
  <2> QED
    BY <1>1, <1>2, <1>3, <1>4, <2>1, PostStep
<1>6. /\ \A c \in Callers : c # d => pc'[c] = pc[c] /\ msg'[c] = msg[c] /\ held'[c] = held[c]
      /\ pc'[d] \in {"idle", "join"} /\ held'[d] = 0
      /\ DOMAIN msg' = Callers /\ pc' \in [Callers -> {"idle", "stream", "log", "post", "join"}]
      /\ held' \in [Callers -> 0..2]
  BY <1>0 DEF IInv, TypeOK, Shapes
<1>7. \A c \in Callers : (pc'[c] = "post") <=> (held'[c] # 0)
  BY <1>6 DEF IInv, TypeOK
<1>8. calls' \in 0..MaxCalls
  BY DEF IInv, TypeOK
<1>9. TypeOK' /\ Shapes'
  BY <1>4, <1>5, <1>6, <1>7, <1>8, PostedTypes
<1>10. Pools' /\ OrphanedOnlyByRace'
  BY <1>4 DEF IInv, Pools, OrphanedOnlyByRace, Ready
<1>11. Pending'
  BY <1>4, <1>6 DEF IInv, Pending, Ready
<1> QED
  BY <1>5, <1>9, <1>10, <1>11 DEF IInv

\* The worker of the pool that d let go has ended.
LEMMA JoinInv ==
  ASSUME IInv, NEW d \in Data, Join(d)
  PROVE  IInv'
<1>0. d \in Callers /\ pc[d] = "join"
  BY Apart DEF Join
<1>1. /\ UNCHANGED <<env, init, pool, tp, name, now, level, queue, held, msg, due, written, disk>>
      /\ UNCHANGED <<calls, posted, evicted, rejected, mark, raced, overtaken>>
  BY DEF Join, setup, output, history
<1>2. /\ \A c \in Callers : c # d => pc'[c] = pc[c]
      /\ pc'[d] = "idle"
      /\ pc' \in [Callers -> {"idle", "stream", "log", "post", "join"}]
  BY <1>0 DEF Join, IInv, TypeOK
<1>3. InCalls' \subseteq InCalls
  <2> SUFFICES ASSUME NEW e \in Callers, pc'[e] \in {"stream", "log", "post"}
               PROVE  msg'[e] \in InCalls
    BY DEF InCalls
  <2>1. pc[e] \in {"stream", "log", "post"} /\ msg'[e] = msg[e]
    BY <1>0, <1>1, <1>2
  <2> QED
    BY <2>1 DEF InCalls
<1>4. QueueOrder' /\ Numbered' /\ LoggerOrder' /\ EveryRecordAccounted'
  <2> DEFINE x == FlushOf(Default)
  <2>1. x.kind = "flush" /\ x.id = 0
    BY DEF FlushOf
  <2> HIDE DEF x
  <2> QED
    BY <1>1, <1>3, <2>1, QuietStep
<1>5. \A c \in Callers : (pc'[c] = "post") <=> (held'[c] # 0)
  BY <1>0, <1>1, <1>2 DEF IInv, TypeOK
<1>6. TypeOK' /\ Shapes'
  BY <1>1, <1>2, <1>5, SameTypes DEF IInv, TypeOK, Shapes
<1>7. Pools' /\ Home' /\ OrphanedOnlyByRace'
  BY <1>1 DEF IInv, Pools, Home, OrphanedOnlyByRace, Ready
<1>8. Pending'
  BY <1>0, <1>1, <1>2 DEF IInv, Pending, Ready
<1> QED
  BY <1>4, <1>6, <1>7, <1>8 DEF IInv

-----------------------------------------------------------------------------
(* The clock, the periodic flush and the worker.                           *)

LEMMA TickInv ==
  ASSUME IInv, Tick
  PROVE  IInv'
<1> USE DEF Tick
<1>1. calls' \in 0..MaxCalls /\ calls' = calls + 1
  BY NextCall
<1>2. UNCHANGED <<env, init, pool, tp, name, level, queue, pc, held, msg, written, disk,
                  posted, evicted, rejected, raced, overtaken>>
  BY DEF setup, callers, output, history
<1>3. QueueOrder' /\ Numbered' /\ LoggerOrder' /\ EveryRecordAccounted'
  BY <1>1, <1>2, QuietSetup
<1>4. TypeOK' /\ Shapes'
  BY <1>1, <1>2, SameTypes DEF IInv, TypeOK, Shapes
<1>5. Pools' /\ Home' /\ Pending' /\ OrphanedOnlyByRace'
  BY <1>2 DEF IInv, Pools, Home, Pending, OrphanedOnlyByRace, Ready
<1> QED
  BY <1>3, <1>4, <1>5 DEF IInv

\* The flush of one logger, if it still has a pool.
LEMMA PeriodicFlushInv ==
  ASSUME IInv, NEW l \in Loggers, PeriodicFlush(l)
  PROVE  IInv'
<1> USE DEF PeriodicFlush
<1>1. /\ UNCHANGED <<setup, now, level, calls, output>>
      /\ UNCHANGED <<rejected, raced, overtaken>>
      /\ UNCHANGED <<env, init, pool, tp, name, written, disk, pc, held, msg>>
      /\ due' \subseteq due /\ l \in due
  BY DEF setup, output, callers
<1>2. InCalls' = InCalls
  BY <1>1 DEF InCalls
<1>3. /\ pc' \in [Callers -> {"idle", "stream", "log", "post", "join"}] /\ held' \in [Callers -> 0..2]
      /\ \A c \in Callers : (pc'[c] = "post") <=> (held'[c] # 0)
      /\ DOMAIN msg' = Callers /\ calls' \in 0..MaxCalls
  BY <1>1 DEF IInv, TypeOK, Shapes
<1>4. Pools' /\ Pending' /\ OrphanedOnlyByRace'
  BY <1>1 DEF IInv, Pools, Pending, OrphanedOnlyByRace, Ready
<1>5. CASE ~PoolAlive(tp[l])
  <2>1. UNCHANGED <<queue, written, disk, evicted, posted>>
    BY <1>1, <1>5
  <2>2. QueueOrder' /\ Numbered' /\ LoggerOrder' /\ EveryRecordAccounted'
    BY <1>1, <2>1, QuietSetup
  <2>3. TypeOK' /\ Shapes'
    BY <1>1, <1>3, <2>1, SameTypes, SMTT(30) DEF IInv, TypeOK, Shapes
  <2>4. Home'
    BY <1>1, <2>1 DEF IInv, Home
  <2> QED
    BY <1>4, <2>2, <2>3, <2>4 DEF IInv
<1>6. CASE PoolAlive(tp[l])
  <2> DEFINE m == FlushOf(l)
             g == tp[l]
  <2>1. m \in Message /\ m.kind = "flush" /\ m.from = l /\ m.id = 0
    BY FlushMessage DEF FlushOf
  <2>2. g \in 1..2 /\ name[m.from] # NoName /\ tp[m.from] = g
    BY <1>1, <1>6, <2>1 DEF PoolAlive, IInv, TypeOK, Shapes
  <2>3. PostOverrun(g, m) \/ PostBlock(g, m)
    BY <1>6
  <2> HIDE DEF m, g
  <2>4. /\ queue' \in [0..2 -> Seq(Message)] /\ queue'[0] = << >>
        /\ \A h \in 0..2 : Len(queue'[h]) <= QueueSize
        /\ evicted' \subseteq Message /\ posted' \in [Loggers -> SUBSET (0..MaxCalls)]
        /\ Home' /\ QueueOrder' /\ Numbered' /\ LoggerOrder' /\ EveryRecordAccounted'
    BY <1>1, <1>2, <2>1, <2>2, <2>3, PostStep
  <2>5. TypeOK' /\ Shapes'
    BY <1>1, <1>3, <2>4, PostedTypes
  <2> QED
    BY <1>4, <2>4, <2>5 DEF IInv
<1> QED
  BY <1>5, <1>6

\* The only worker of a pool takes the first message of its queue.
LEMMA WorkerStepInv ==
  ASSUME IInv, NEW g \in 1..2, WorkerStep(g)
  PROVE  IInv'
<1> DEFINE m == queue[g][1]
           w == IF m.kind = "log" THEN Append(written[m.from], m) ELSE written[m.from]
<1>1. /\ 1 <= Len(queue[g]) /\ written' = [written EXCEPT ![m.from] = w]
      /\ disk' = IF Syncs(m) THEN [disk EXCEPT ![m.from] = Len(w)] ELSE disk
      /\ queue' = [queue EXCEPT ![g] = RemoveAt(queue[g], 1)]
  <2>1. \A k \in 1..kAsyncWorkerThreads : k = 1
    BY DEF kAsyncWorkerThreads
  <2> QED
    BY <2>1 DEF WorkerStep
<1>2. UNCHANGED <<env, init, pool, tp, name, now, level, pc, held, msg, due, calls,
                  posted, evicted, rejected, raced, overtaken>>
  BY DEF WorkerStep, setup, callers, history
<1>3. queue[g] \in Seq(Message) /\ queue[g] # << >> /\ m \in Message
  BY <1>1, QueueTypes
<1>4. queue' = [queue EXCEPT ![g] = Tail(queue[g])]
  BY <1>1, <1>3, RemoveFirstMessage
<1>5. /\ queue' \in [0..2 -> Seq(Message)] /\ queue'[0] = << >>
      /\ \A h \in 0..2 : Len(queue'[h]) <= QueueSize
      /\ m \in InQueues /\ m \in Message
      /\ InQueues' \subseteq InQueues
      /\ InQueues \subseteq InQueues' \cup {m}
      /\ \A q \in InQueues' : Before(m, q)
      /\ Home'
      /\ \A h \in 1..2 : \A i, j \in DOMAIN queue'[h] :
           i < j => Before(queue'[h][i], queue'[h][j])
  BY <1>2, <1>3, <1>4, WorkerQueue
<1>6. m.from \in Loggers /\ m.kind \in {"log", "flush"}
  BY <1>3, MessageFields
<1>7. /\ written \in [Loggers -> Seq(Message)] /\ disk \in [Loggers -> Nat]
      /\ \A l \in Loggers : disk[l] \in 0..Len(written[l])
      /\ \A l \in Loggers : \A i \in DOMAIN written[l] :
           written[l][i].kind = "log" /\ written[l][i].from = l
  BY DEF IInv, TypeOK, Shapes
<1> HIDE DEF m, w
<1>8. /\ LoggerOrder' /\ EveryRecordAccounted' /\ Made' \subseteq Made
      /\ written' \in [Loggers -> Seq(Message)]
      /\ \A l \in Loggers : \A i \in DOMAIN written'[l] :
           written'[l][i].kind = "log" /\ written'[l][i].from = l
      /\ \A l \in Loggers : Len(written'[l]) \in Nat /\ disk[l] \in 0..Len(written'[l])
      /\ written'[m.from] = w
  <2>1. CASE m.kind = "log"
    <3>1. written' = [written EXCEPT ![m.from] = Append(written[m.from], m)]
      BY <1>1, <2>1 DEF w
    <3>2. /\ LoggerOrder' /\ EveryRecordAccounted' /\ Made' \subseteq Made
          /\ written' \in [Loggers -> Seq(Message)]
          /\ \A l \in Loggers : \A i \in DOMAIN written'[l] :
               written'[l][i].kind = "log" /\ written'[l][i].from = l
          /\ Len(written'[m.from]) = Len(written[m.from]) + 1
          /\ \A l \in Loggers : l # m.from => written'[l] = written[l]
      BY <1>2, <1>5, <2>1, <3>1, WorkerRecords
    <3>3. \A l \in Loggers : Len(written'[l]) \in Nat /\ disk[l] \in 0..Len(written'[l])
      <4> TAKE l \in Loggers
      <4>1. Len(written[l]) \in Nat /\ disk[l] \in 0..Len(written[l])
        BY <1>7
      <4>2. Len(written'[l]) = Len(written[l]) \/ Len(written'[l]) = Len(written[l]) + 1
        BY <3>2
      <4> QED
        BY <4>1, <4>2
    <3> QED
      BY <1>1, <1>6, <1>7, <3>2, <3>3
  <2>2. CASE m.kind = "flush"
    <3>1. written' = written /\ w = written[m.from]
      BY <1>1, <1>6, <1>7, <2>2 DEF w
    <3>2. \A q \in InQueues : q.kind = "log" => q \in InQueues'
      BY <1>5, <2>2
    <3>3. LoggerOrder' /\ EveryRecordAccounted' /\ Made' \subseteq Made
      BY <1>2, <1>5, <3>1, <3>2, SameRecords
    <3> QED
      BY <1>7, <3>1, <3>3
  <2> QED
    BY <1>6, <2>1, <2>2
<1>9. disk' \in [Loggers -> Nat] /\ \A l \in Loggers : disk'[l] \in 0..Len(written'[l])
  <2>1. Len(w) \in 0..Len(written'[m.from]) /\ Len(w) \in Nat
    BY <1>6, <1>8
  <2> QED
    BY <1>1, <1>6, <1>7, <1>8, <2>1
<1>10. InCalls' = InCalls
  BY <1>2 DEF InCalls
<1>11. Numbered' /\ \A r \in Made', n \in InCalls' : Before(r, n)
  BY <1>2, <1>8, <1>10, CallsKeep
<1>12. QueueOrder'
  BY <1>5, <1>11 DEF QueueOrder
<1>13. TypeOK'
  <2>1. \A h \in 0..2 : queue'[h] \in Seq(Message) /\ Len(queue'[h]) <= QueueSize
    BY <1>5
  <2>2. \A l \in Loggers : written'[l] \in Seq(Message) /\ disk'[l] \in 0..Len(written'[l])
    BY <1>8, <1>9
  <2> QED
    BY <1>2, <2>1, <2>2 DEF IInv, TypeOK
<1>14. Shapes'
  BY <1>2, <1>5, <1>8, <1>9 DEF IInv, Shapes
<1>15. Pools' /\ Pending' /\ OrphanedOnlyByRace'
  BY <1>2 DEF IInv, Pools, Pending, OrphanedOnlyByRace, Ready
<1> QED
  BY <1>5, <1>8, <1>11, <1>12, <1>13, <1>14, <1>15 DEF IInv

-----------------------------------------------------------------------------
(* The inductive invariant.                                                *)

LEMMA InitInv ==
  ASSUME Init
  PROVE  IInv
<1> USE DEF Init
<1>1. /\ \A c \in Callers : pc[c] = "idle" /\ held[c] = 0
      /\ \A l \in Loggers : /\ name[l] = NoName /\ tp[l] = 0 /\ written[l] = << >>
                            /\ disk[l] = 0 /\ posted[l] = {}
      /\ \A g \in 0..2 : queue[g] = << >>
  OBVIOUS
<1>2. InQueues = {} /\ InSinks = {} /\ InCalls = {} /\ Made = {}
  <2>1. InQueues = {}
    BY <1>1, InQueuesPlace
  <2>2. InSinks = {}
    BY <1>1 DEF InSinks, ToSet
  <2>3. InCalls = {}
    BY <1>1 DEF InCalls
  <2> QED
    BY <2>1, <2>2, <2>3 DEF Made
<1>3. TypeOK
  <2>1. "info" \in ToSet(SpdlogLevels)
    BY LevelSet
  <2>2. \A l \in Loggers : written[l] \in Seq(Message) /\ disk[l] \in 0..Len(written[l])
    BY <1>1
  <2>3. \A g \in 0..2 : queue[g] \in Seq(Message) /\ Len(queue[g]) <= QueueSize
    BY <1>1, AsyncAssumption
  <2>4. calls \in 0..MaxCalls /\ now \in 0..MaxTime
    BY AsyncAssumption
  <2>5. \A c \in Callers : (pc[c] = "post") <=> (held[c] # 0)
    BY <1>1
  <2> QED
    BY <2>1, <2>2, <2>3, <2>4, <2>5 DEF TypeOK
<1>4. Shapes
  BY <1>1 DEF Shapes
<1>5. Pools
  <2>1. name[Default] = NoName /\ \A d \in Data : name[d] = NoName /\ name[d] # <<"process">>
    BY <1>1, Apart
  <2>2. init = "none" /\ pool = 0
    OBVIOUS
  <2> HIDE DEF Init
  <2> QED
    BY <2>1, <2>2 DEF Pools, Ready
<1>10. Pending /\ OrphanedOnlyByRace
  BY <1>1 DEF Pending, OrphanedOnlyByRace
<1>6. Home
  BY <1>1 DEF Home
<1>7. QueueOrder /\ Numbered
  <2>1. \A g \in 1..2 : \A i, j \in DOMAIN queue[g] :
          i < j => Before(queue[g][i], queue[g][j])
    BY <1>1
  <2> QED
    BY <1>2, <2>1 DEF QueueOrder, Numbered
<1>8. LoggerOrder
  BY <1>1, <1>2, OrderOfSets
<1>9. EveryRecordAccounted
  <2> SUFFICES ASSUME NEW l \in Loggers
               PROVE  /\ posted[l] = Queued(l) \cup Written(l) \cup Evicted(l)
                      /\ Written(l) \cap Evicted(l) = {}
    BY DEF EveryRecordAccounted
  <2>1. Queued(l) = {} /\ Evicted(l) = {}
    BY <1>2, IdsMembership
  <2>2. Written(l) = {}
    BY <1>1 DEF Written, IdsOf, Records, ToSet
  <2> QED
    BY <1>1, <2>1, <2>2
<1> QED
  BY <1>3, <1>4, <1>5, <1>6, <1>7, <1>8, <1>9, <1>10 DEF IInv

\* Nothing happens.
LEMMA StutterInv ==
  ASSUME IInv, UNCHANGED vars
  PROVE  IInv'
<1>1. /\ UNCHANGED <<env, init, pool, tp, name, now, level, queue, pc, held, msg, due>>
      /\ UNCHANGED <<written, disk, calls, posted, evicted, rejected, mark, raced,
                     overtaken>>
  BY DEF vars, setup, callers, output, history
<1>2. QueueOrder' /\ Numbered' /\ LoggerOrder' /\ EveryRecordAccounted'
  BY <1>1, QuietSetup
<1>3. TypeOK' /\ Shapes'
  BY <1>1, SameTypes DEF IInv, TypeOK, Shapes
<1>4. Pools' /\ Pending' /\ Home' /\ OrphanedOnlyByRace'
  BY <1>1 DEF IInv, Pools, Pending, Home, OrphanedOnlyByRace, Ready
<1> QED
  BY <1>2, <1>3, <1>4 DEF IInv

LEMMA NextInv ==
  ASSUME IInv, [Next]_vars
  PROVE  IInv'
<1>1. CASE InitStep
  BY <1>1, InitializeCheckInv, InitializePoolInv, InitializeJoinInv, InitializeLoggerInv
     DEF InitStep
<1>2. ASSUME NEW lv \in XlogLevels, SetLoggerLevel(lv)
      PROVE  IInv'
  BY <1>2, SetLoggerLevelInv
<1>3. ASSUME NEW t \in Threads, XlogCall(t)
      PROVE  IInv'
  BY <1>3, XlogInv, StreamGateInv, TerminateInv DEF XlogCall
<1>4. ASSUME NEW t \in Threads, StreamLog(t) \/ LogPost(t)
      PROVE  IInv'
  BY <1>4, StreamLogInv, LogPostInv
<1>5. ASSUME NEW d \in Data, DataCall(d)
      PROVE  IInv'
  BY <1>5, ConstructInv, ConstructThrowsInv, FlushInv, LogInv DEF DataCall, LogText, LogData, LogEvent
<1>6. ASSUME NEW d \in Data, Post(d) \/ Join(d)
      PROVE  IInv'
  BY <1>6, PostInv, JoinInv
<1>7. CASE Tick
  BY <1>7, TickInv
<1>8. ASSUME NEW l \in Loggers, PeriodicFlush(l)
      PROVE  IInv'
  BY <1>8, PeriodicFlushInv
<1>9. ASSUME NEW g \in 1..2, WorkerStep(g)
      PROVE  IInv'
  BY <1>9, WorkerStepInv
<1>10. CASE Idle
  BY <1>10, StutterInv DEF Idle
<1>11. CASE UNCHANGED vars
  BY <1>11, StutterInv
<1> QED
  BY <1>1, <1>2, <1>3, <1>4, <1>5, <1>6, <1>7, <1>8, <1>9, <1>10, <1>11 DEF Next

\* Every state of AsyncLog satisfies its inductive invariant.
THEOREM Invariance == Spec => []IInv
<1>1. Init => IInv
  BY InitInv
<1>2. IInv /\ [Next]_vars => IInv'
  BY NextInv
<1> QED
  BY <1>1, <1>2, PTL DEF Spec

-----------------------------------------------------------------------------
(* The properties.                                                         *)

\* Types; no queue exceeds its size, and a caller holds a pool while it posts.
THEOREM TypeCorrect == Spec => []TypeOK
<1>1. IInv => TypeOK
  BY DEF IInv
<1> QED
  BY <1>1, Invariance, PTL

\* The records of one thread reach the sinks of a logger in the order of its
\* calls, and what is lost or written is older than what is queued.
THEOREM RecordsInOrder == Spec => []LoggerOrder
<1>1. IInv => LoggerOrder
  BY DEF IInv
<1> QED
  BY <1>1, Invariance, PTL

\* Each record posted is queued, written or evicted.
THEOREM NoRecordVanishes == Spec => []EveryRecordAccounted
<1>1. IInv => EveryRecordAccounted
  BY DEF IInv
<1> QED
  BY <1>1, Invariance, PTL

\* A data logger finds its pool gone only after the race with Initialize().
THEOREM OrphansRaced == Spec => []OrphanedOnlyByRace
<1>1. IInv => OrphanedOnlyByRace
  BY DEF IInv
<1> QED
  BY <1>1, Invariance, PTL

-----------------------------------------------------------------------------
(* Levels.                                                                 *)

\* Each of the six macros of a family has its own number in its #if.
LEMMA SiteTables ==
  ASSUME NEW n \in 1..6
  PROVE  /\ XLOG_Sites[n].floor = n - 1 /\ XLOG_Sites[n].level = n - 1
         /\ XLOG_RT_Sites[n].floor = n - 1 /\ XLOG_RT_Sites[n].level = n - 1
<1>1. n \in {1, 2, 3, 4, 5, 6}
  OBVIOUS
<1>2. XLOG_Sites[n].floor = n - 1 /\ XLOG_Sites[n].level = n - 1
  BY <1>1 DEF XLOG_Sites
<1>3. XLOG_RT_Sites[n].floor = n - 1 /\ XLOG_RT_Sites[n].level = n - 1
  BY <1>1 DEF XLOG_RT_Sites
<1> QED
  BY <1>2, <1>3

\* A level above the compile-time floor is still above it as a spdlog level.
LEMMA FloorKept ==
  ASSUME NEW lv, Site(lv)
  PROVE  FromSpdlogLevel(ToSpdlogLevel(lv)) >= ActiveLevel
<1>1. PICK n \in 1..6 : XLOG_Sites[n].level = lv /\ ActiveLevel <= XLOG_Sites[n].floor
  BY DEF Site, XLOG_Site
<1>2. lv \in 0..5 /\ ActiveLevel <= lv
  BY <1>1, SiteTables
<1>3. lv \in {0, 1, 2, 3, 4, 5}
  BY <1>2
<1>4. FromSpdlogLevel(ToSpdlogLevel(lv)) = lv
  BY <1>3 DEF FromSpdlogLevel, ToSpdlogLevel, Switch
<1> QED
  BY <1>2, <1>4

\* A record of the DefaultLogger is posted only by LogPost().
LEMMA PostsOfDefault ==
  ASSUME IInv, [Next]_vars, posted'[Default] # posted[Default]
  PROVE  \E t \in Threads : LogPost(t)
<1>1. ASSUME UNCHANGED posted
      PROVE  FALSE
  BY <1>1
<1>2. ~InitStep
  BY <1>1 DEF InitStep, InitializeCheck, InitializePool, InitializeJoin, InitializeLogger,
             history
<1>3. ~Tick /\ ~UNCHANGED vars /\ ~Idle
  BY <1>1 DEF Tick, Idle, vars, history
<1>4. \A lv : ~SetLoggerLevel(lv)
  BY <1>1 DEF SetLoggerLevel, history
<1>5. \A g \in 1..2 : ~WorkerStep(g)
  BY <1>1 DEF WorkerStep, history
<1>6. \A d \in Data : ~DataCall(d)
  BY <1>1 DEF DataCall, Construct, ConstructThrows, Flush, LogText, LogData, LogEvent,
             Call, history
<1>7. posted \in [Loggers -> SUBSET (0..MaxCalls)] /\ Default \in Loggers
  BY Apart DEF IInv, Shapes
<1>8. ASSUME NEW l, NEW m, posted' = [posted EXCEPT ![l] = Ids(l, m)],
             l # Default \/ m.kind = "flush"
      PROVE  FALSE
  BY <1>7, <1>8 DEF Ids
<1>9. \A d \in Data : ~Post(d) /\ ~Join(d)
  <2> SUFFICES ASSUME NEW d \in Data, Post(d)
               PROVE  FALSE
    BY <1>1 DEF Join, history
  <2>1. msg[d].from = d /\ d # Default
    BY Apart DEF Post, IInv, Pending
  <2>2. posted' = [posted EXCEPT ![d] = Ids(d, msg[d])]
    BY <2>1 DEF Post, PostBlock
  <2> QED
    BY <1>8, <2>1, <2>2
<1>10. \A l \in Loggers : ~PeriodicFlush(l)
  <2> SUFFICES ASSUME NEW l \in Loggers, PeriodicFlush(l)
               PROVE  FALSE
    OBVIOUS
  <2>1. FlushOf(l).from = l /\ FlushOf(l).kind = "flush"
    BY FlushMessage
  <2>2. posted' = [posted EXCEPT ![l] = Ids(l, FlushOf(l))]
    BY <1>1, <2>1 DEF PeriodicFlush, PostOverrun, PostBlock
  <2> QED
    BY <1>8, <2>1, <2>2
<1>11. \A t \in Threads : ~Terminate(t)
  <2> SUFFICES ASSUME NEW t \in Threads, Terminate(t)
               PROVE  FALSE
    OBVIOUS
  <2>1. FlushOf(Default).from = Default /\ FlushOf(Default).kind = "flush"
    BY Apart, FlushMessage
  <2>2. posted' = [posted EXCEPT ![Default] = Ids(Default, FlushOf(Default))]
    BY <2>1 DEF Terminate, XlogPost, PostOverrun
  <2> QED
    BY <1>8, <2>1, <2>2
<1>12. \A t \in Threads : ~StreamLog(t) /\ \A lv : ~StreamGate(t, lv) /\ ~Xlog(t, lv)
  BY <1>1 DEF StreamLog, StreamGate, Xlog, history
<1> QED
  BY <1>2, <1>3, <1>4, <1>5, <1>6, <1>9, <1>10, <1>11, <1>12 DEF Next, XlogCall

\* What every step does to the records in the calls of the threads: one is
\* made, passes the check, or is posted, or the level is set.
LEMMA RecordStep ==
  ASSUME IInv, [Next]_vars
  PROVE  \/ /\ \E t \in Threads : \E lv \in XlogLevels : Xlog(t, lv) \/ StreamGate(t, lv)
         \/ \E t \in Threads : StreamLog(t) \/ LogPost(t)
         \/ \E lv \in XlogLevels : SetLoggerLevel(lv)
         \/ /\ \A c \in Callers : pc'[c] \in {"stream", "log"}
                                    => pc'[c] = pc[c] /\ msg'[c] = msg[c]
            /\ overtaken' = overtaken
            /\ Ready => level' = level
<1> DEFINE Still == /\ \A c \in Callers : pc'[c] \in {"stream", "log"}
                                          => pc'[c] = pc[c] /\ msg'[c] = msg[c]
                    /\ overtaken' = overtaken
                    /\ Ready => level' = level
<1>0. pc \in [Callers -> {"idle", "stream", "log", "post", "join"}] /\ DOMAIN msg = Callers
  BY DEF IInv, TypeOK, Shapes
<1>1. ASSUME UNCHANGED <<pc, msg, overtaken>>, Ready => level' = level
      PROVE  Still
  BY <1>1
<1>2. ASSUME NEW d \in Data, NEW p \in {"idle", "post", "join"}, NEW m,
             pc' = [pc EXCEPT ![d] = p], msg' = [msg EXCEPT ![d] = m] \/ msg' = msg,
             UNCHANGED <<overtaken, level>>
      PROVE  Still
  <2>1. /\ d \in Callers /\ pc'[d] = p
        /\ \A c \in Callers : c # d => pc'[c] = pc[c] /\ msg'[c] = msg[c]
    BY <1>0, <1>2, Apart
  <2> QED
    BY <1>2, <2>1
<1> HIDE DEF Still
<1>3. CASE InitStep
  <2>1. CASE InitializeLogger
    BY <1>1, <2>1 DEF InitializeLogger, callers, history, Ready
  <2>2. CASE InitializeCheck \/ InitializePool \/ InitializeJoin
    BY <1>1, <2>2 DEF InitializeCheck, InitializePool, InitializeJoin, callers, history
  <2> QED
    BY <1>3, <2>1, <2>2 DEF InitStep
<1>4. CASE Tick \/ UNCHANGED vars \/ Idle
  BY <1>1, <1>4 DEF Tick, Idle, vars, callers, history
<1>5. ASSUME NEW t \in Threads, Terminate(t)
      PROVE  Still
  BY <1>1, <1>5 DEF Terminate, callers
<1>6. ASSUME NEW d \in Data, NEW m, Call(d, m)
      PROVE  Still
  <2>1. CASE UNCHANGED callers
    BY <1>1, <1>6, <2>1 DEF Call, callers
  <2>2. CASE pc' = [pc EXCEPT ![d] = "post"] /\ msg' = [msg EXCEPT ![d] = m]
    BY <1>2, <1>6, <2>2 DEF Call
  <2> QED
    BY <1>6, <2>1, <2>2 DEF Call
<1>7. ASSUME NEW d \in Data, DataCall(d)
      PROVE  Still
  <2>1. CASE Construct(d) \/ ConstructThrows(d)
    BY <1>1, <2>1 DEF Construct, ConstructThrows, callers, history
  <2> QED
    BY <1>6, <1>7, <2>1 DEF DataCall, Flush, LogText, LogData, LogEvent
<1>8. ASSUME NEW d \in Data, Post(d)
      PROVE  Still
  <2> DEFINE p == IF LastHolder(d) THEN "join" ELSE "idle"
  <2>1. /\ p \in {"idle", "post", "join"} /\ pc' = [pc EXCEPT ![d] = p]
        /\ msg' = [msg EXCEPT ![d] = << >>] /\ UNCHANGED <<overtaken, level>>
    BY <1>8 DEF Post
  <2> HIDE DEF p
  <2> QED
    BY <1>2, <2>1
<1>9. ASSUME NEW d \in Data, Join(d)
      PROVE  Still
  BY <1>2, <1>9 DEF Join, history
<1>10. ASSUME NEW l \in Loggers, PeriodicFlush(l)
       PROVE  Still
  BY <1>1, <1>10 DEF PeriodicFlush, callers
<1>11. ASSUME NEW g \in 1..2, WorkerStep(g)
       PROVE  Still
  BY <1>1, <1>11 DEF WorkerStep, callers, history
<1> QED
  BY <1>3, <1>4, <1>5, <1>7, <1>8, <1>9, <1>10, <1>11 DEF Next, XlogCall, Still

\* A record keeps its level, and the check what it found, until the post.
LEMMA LevelStep ==
  ASSUME IInv, AboveFloor, PassedCheck, [Next]_vars
  PROVE  AboveFloor' /\ PassedCheck'
<1>0. pc \in [Callers -> {"idle", "stream", "log", "post", "join"}] /\ DOMAIN msg = Callers
  BY DEF IInv, TypeOK, Shapes
<1>1. ASSUME NEW t \in Threads, NEW lv \in XlogLevels, Xlog(t, lv) \/ StreamGate(t, lv)
      PROVE  AboveFloor' /\ PassedCheck'
  <2>1. /\ msg'[t] = Record(Default, t, calls + 1, ToSpdlogLevel(lv))
        /\ Site(lv) /\ ShouldLog(level, lv) /\ UNCHANGED <<level, overtaken>>
        /\ \A c \in Callers : c # t => pc'[c] = pc[c] /\ msg'[c] = msg[c]
    BY <1>0, <1>1, Apart DEF Xlog, StreamGate, history
  <2>2. msg'[t].level = ToSpdlogLevel(lv)
    BY <2>1 DEF Record
  <2>3. FromSpdlogLevel(msg'[t].level) >= ActiveLevel
    BY <2>1, <2>2, FloorKept
  <2>4. AtLeast(msg'[t].level, level')
    BY <2>1, <2>2 DEF ShouldLog
  <2> QED
    BY <2>1, <2>3, <2>4, Apart DEF AboveFloor, PassedCheck
<1>2. ASSUME NEW t \in Threads, StreamLog(t)
      PROVE  AboveFloor' /\ PassedCheck'
  <2>1. /\ t \in Callers /\ pc[t] = "stream" /\ UNCHANGED <<level, overtaken>>
        /\ \A c \in Callers : c # t => pc'[c] = pc[c] /\ msg'[c] = msg[c]
        /\ \/ pc'[t] = "log" /\ msg'[t] = msg[t] /\ AtLeast(msg[t].level, level)
           \/ pc'[t] = "idle"
    BY <1>0, <1>2, Apart DEF StreamLog, history
  <2> QED
    BY <2>1, Apart DEF AboveFloor, PassedCheck
<1>3. ASSUME NEW t \in Threads, LogPost(t)
      PROVE  AboveFloor' /\ PassedCheck'
  <2>1. /\ t \in Callers /\ pc'[t] = "idle" /\ level' = level /\ overtaken' = overtaken \ {t}
        /\ \A c \in Callers : c # t => pc'[c] = pc[c] /\ msg'[c] = msg[c]
    BY <1>0, <1>3, Apart DEF LogPost
  <2> QED
    BY <2>1, Apart DEF AboveFloor, PassedCheck
<1>4. ASSUME NEW lv \in XlogLevels, SetLoggerLevel(lv)
      PROVE  AboveFloor' /\ PassedCheck'
  BY <1>4 DEF SetLoggerLevel, callers, AboveFloor, PassedCheck
<1>5. ASSUME \A c \in Callers : pc'[c] \in {"stream", "log"}
                                 => pc'[c] = pc[c] /\ msg'[c] = msg[c],
             overtaken' = overtaken, Ready => level' = level
      PROVE  AboveFloor' /\ PassedCheck'
  <2>1. \A t \in Threads : pc[t] = "log" => Ready
    BY Apart DEF IInv, Pending
  <2> QED
    BY <1>5, <2>1, Apart DEF AboveFloor, PassedCheck
<1> QED
  BY <1>1, <1>2, <1>3, <1>4, <1>5, RecordStep

\* A record of a level that is off enters the queue only from a Log() that was
\* past spdlog's check when the level was set, and none enters below the
\* compile-time floor, whatever the floor and the levels in use.
THEOREM LevelsHonoured == Spec => LevelHonoured
<1> DEFINE Honoured ==
             posted'[Default] # posted[Default] =>
               LET m == Last(queue'[tp[Default]])
               IN  /\ AtLeast(m.level, level) \/ m.by \in overtaken
                   /\ FromSpdlogLevel(m.level) >= ActiveLevel
<1>1. Init => AboveFloor /\ PassedCheck
  BY Apart DEF Init, AboveFloor, PassedCheck
<1>2. IInv /\ AboveFloor /\ PassedCheck /\ [Next]_vars => (AboveFloor /\ PassedCheck)'
  BY LevelStep
<1>3. IInv /\ AboveFloor /\ PassedCheck /\ [Next]_vars => Honoured
  <2> SUFFICES ASSUME IInv, AboveFloor, PassedCheck, [Next]_vars,
                      posted'[Default] # posted[Default]
               PROVE  LET m == Last(queue'[tp[Default]])
                      IN  /\ AtLeast(m.level, level) \/ m.by \in overtaken
                          /\ FromSpdlogLevel(m.level) >= ActiveLevel
    OBVIOUS
  <2>1. PICK t \in Threads : LogPost(t)
    BY PostsOfDefault
  <2>2. t \in Callers /\ pc[t] = "log" /\ Last(queue'[tp[Default]]) = msg[t]
    BY <2>1, Apart, LogPostInv DEF LogPost
  <2>3. msg[t].by = t
    BY <2>2, OwnMessages
  <2> QED
    BY <2>2, <2>3 DEF AboveFloor, PassedCheck
<1> QED
  BY <1>1, <1>2, <1>3, Invariance, PTL DEF Spec, LevelHonoured

\* A number from 0 to 6 and its spdlog level.
LEMMA LevelNumbers ==
  /\ DOMAIN SpdlogLevels = 1..7
  /\ \A i, j \in 1..7 : SpdlogLevels[i] = SpdlogLevels[j] => i = j
  /\ \A lv \in 0..6 : ToSpdlogLevel(lv) = SpdlogLevels[lv + 1]
<1>1. DOMAIN SpdlogLevels = 1..7
  BY DEF SpdlogLevels
<1>2. \A i, j \in 1..7 : SpdlogLevels[i] = SpdlogLevels[j] => i = j
  <2>1. \A i \in 1..7 : i \in {1, 2, 3, 4, 5, 6, 7}
    OBVIOUS
  <2>2. /\ SpdlogLevels[1] = "trace" /\ SpdlogLevels[2] = "debug" /\ SpdlogLevels[3] = "info"
        /\ SpdlogLevels[4] = "warn" /\ SpdlogLevels[5] = "err"
        /\ SpdlogLevels[6] = "critical" /\ SpdlogLevels[7] = "off"
    BY DEF SpdlogLevels
  <2> QED
    BY <2>1, <2>2
<1>3. \A lv \in 0..6 : ToSpdlogLevel(lv) = SpdlogLevels[lv + 1]
  <2>1. \A lv \in 0..6 : lv \in {0, 1, 2, 3, 4, 5, 6}
    OBVIOUS
  <2> QED
    BY <2>1 DEF ToSpdlogLevel, Switch, SpdlogLevels
<1> QED
  BY <1>1, <1>2, <1>3

\* Levels compare as their numbers do.
LEMMA AtLeastNumbers ==
  ASSUME NEW a \in 0..6, NEW b \in 0..6
  PROVE  AtLeast(ToSpdlogLevel(a), ToSpdlogLevel(b)) <=> a >= b
<1>1. /\ ToSpdlogLevel(a) = SpdlogLevels[a + 1] /\ a + 1 \in 1..7
      /\ ToSpdlogLevel(b) = SpdlogLevels[b + 1] /\ b + 1 \in 1..7
  BY LevelNumbers
<1>2. ASSUME AtLeast(ToSpdlogLevel(a), ToSpdlogLevel(b))
      PROVE  a >= b
  <2>1. PICK i \in 1..7, j \in 1..7 :
          SpdlogLevels[i] = ToSpdlogLevel(a) /\ SpdlogLevels[j] = ToSpdlogLevel(b) /\ i >= j
    BY <1>2, LevelNumbers DEF AtLeast
  <2>2. i = a + 1 /\ j = b + 1
    BY <1>1, <2>1, LevelNumbers
  <2> QED
    BY <2>1, <2>2
<1>3. ASSUME a >= b
      PROVE  AtLeast(ToSpdlogLevel(a), ToSpdlogLevel(b))
  <2>1. a + 1 >= b + 1
    BY <1>3
  <2> QED
    BY <1>1, <2>1, LevelNumbers DEF AtLeast
<1> QED
  BY <1>2, <1>3

\* In every build and environment the macros XLOG_* and XLOG_RT_* of one name
\* log the same, and
\* a level comes back from spdlog as it was set, or as kOff if it is none.
THEOREM LevelPathsAgree ==
  ASSUME NEW enabled \in BOOLEAN, NEW active \in Int, NEW e
  PROVE  LET lv == ResolveLogLevelFromEnv(e, default_log_level)
         IN  /\ lv \in 0..6
             /\ \A n \in 1..6 :
                  (/\ XLOG_Site(enabled, active, n)
                   /\ LogCase(XLOG_Sites[n].level)
                   /\ ShouldLog(ToSpdlogLevel(lv), XLOG_Sites[n].level))
                  <=> XLOG_RT_Site(enabled, active, n) /\ XLOG_RT_Sites[n].level >= lv
             /\ \A l \in Int :
                  FromSpdlogLevel(ToSpdlogLevel(l)) = IF l \in 0..6 THEN l ELSE kOff
<1> DEFINE lv == ResolveLogLevelFromEnv(e, default_log_level)
<1>1. lv \in 0..6
  <2> DEFINE text  == GetEnvironmentVariable(e, "XLOG_LEVEL")
             asked == strtol(text)[2]
  <2>1. asked \in {-1, 0, 1, 2, 3, 4, 5, 6, 7}
    BY DEF strtol
  <2>2. lv = 2 \/ (lv = asked /\ ~(asked < 0) /\ ~(asked > 6))
    BY Zenon DEF ResolveLogLevelFromEnv, default_log_level, kInfo
  <2> HIDE DEF asked, lv
  <2> QED
    BY <2>1, <2>2
<1> HIDE DEF lv
<1>2. ASSUME NEW n \in 1..6
      PROVE  (/\ XLOG_Site(enabled, active, n)
              /\ LogCase(XLOG_Sites[n].level)
              /\ ShouldLog(ToSpdlogLevel(lv), XLOG_Sites[n].level))
             <=> XLOG_RT_Site(enabled, active, n) /\ XLOG_RT_Sites[n].level >= lv
  <2> DEFINE l == n - 1
  <2>1. /\ XLOG_Sites[n].floor = l /\ XLOG_Sites[n].level = l
        /\ XLOG_RT_Sites[n].floor = l /\ XLOG_RT_Sites[n].level = l
        /\ l \in 0..5
    BY SiteTables
  <2> HIDE DEF l
  <2>2. ShouldLog(ToSpdlogLevel(lv), XLOG_Sites[n].level)
        <=> XLOG_RT_Sites[n].level >= lv
    <3>1. ShouldLog(ToSpdlogLevel(lv), l) <=> l >= lv
      BY <1>1, <2>1, AtLeastNumbers DEF ShouldLog
    <3> QED
      BY <2>1, <3>1
  <2>3. XLOG_Site(enabled, active, n) <=> XLOG_RT_Site(enabled, active, n)
    BY <2>1, Zenon DEF XLOG_Site, XLOG_RT_Site
  <2>4. LogCase(XLOG_Sites[n].level)
    BY <2>1 DEF LogCase
  <2> QED
    BY <2>2, <2>3, <2>4
<1>3. ASSUME NEW l \in Int
      PROVE  FromSpdlogLevel(ToSpdlogLevel(l)) = IF l \in 0..6 THEN l ELSE kOff
  <2>1. CASE l \in 0..6
    <3>1. l \in {0, 1, 2, 3, 4, 5, 6}
      BY <2>1
    <3> QED
      BY <3>1 DEF FromSpdlogLevel, ToSpdlogLevel, Switch, kOff
  <2>2. CASE l \notin 0..6
    <3>1. ToSpdlogLevel(l) = "off"
      BY <2>2 DEF ToSpdlogLevel, Switch
    <3> QED
      BY <2>2, <3>1 DEF FromSpdlogLevel
  <2> QED
    BY <2>1, <2>2
<1> QED
  BY <1>1, <1>2, <1>3 DEF lv

-----------------------------------------------------------------------------
(* What a step does to the messages: nothing, or one is posted, or a worker *)
(* takes one.                                                              *)

\* The message m enters the queue g.
Posting(g, m) ==
  /\ m \in Message /\ tp[m.from] = g /\ name[m.from] # NoName
  /\ PostBlock(g, m) \/ (PostOverrun(g, m) /\ m.from = Default)
  /\ \A r \in Made : Before(r, m) /\ (m.kind = "log" => r.id # m.id)
  /\ UNCHANGED <<tp, name, written, disk>>
  /\ \/ mark' = mark
     \/ m.kind = "flush" /\ mark' = [mark EXCEPT ![m.from] = posted[m.from]]

Quiet == UNCHANGED <<queue, written, disk, evicted, posted, mark>>

\* What is posted is newer than every record before it.
LEMMA PostedIsNew ==
  ASSUME IInv, NEW m, m \in InCalls \/ m.kind = "flush" \/ m.id = calls + 1
  PROVE  \A r \in Made : Before(r, m) /\ (m.kind = "log" => r.id # m.id)
<1>1. CASE m \in InCalls
  <2> SUFFICES ASSUME NEW r \in Made
               PROVE  Before(r, m) /\ (m.kind = "log" => r.id # m.id)
    OBVIOUS
  <2>1. Before(r, m)
    BY <1>1 DEF IInv, QueueOrder
  <2>2. ASSUME m.kind = "log", r.id = m.id
        PROVE  FALSE
    <3>1. r = m
      BY <1>1, <2>2 DEF IInv, Numbered
    <3>2. m.id < m.id /\ m.id \in Nat
      BY <1>1, <2>1, <2>2, <3>1, MadeFields DEF Before
    <3> QED
      BY <3>2
  <2> QED
    BY <2>1, <2>2
<1>2. CASE m.kind = "flush"
  BY <1>2 DEF Before
<1>3. CASE m.id = calls + 1
  BY <1>3, NewIsLast
<1> QED
  BY <1>1, <1>2, <1>3

\* A Log(), the flushes and the calls of the data loggers post one message.
LEMMA XlogPosting ==
  ASSUME IInv, Ready, NEW m \in Message, m.from = Default, XlogPost(m),
         m \in InCalls \/ m.kind = "flush" \/ m.id = calls + 1,
         UNCHANGED <<setup, output>>,
         \/ mark' = mark
         \/ m.kind = "flush" /\ mark' = [mark EXCEPT ![Default] = posted[Default]]
  PROVE  \E g \in 1..2 : \E n : Posting(g, n)
<1>1. tp[Default] \in 1..2 /\ name[Default] # NoName
  BY DefaultReady
<1>2. \A r \in Made : Before(r, m) /\ (m.kind = "log" => r.id # m.id)
  BY PostedIsNew
<1>3. Posting(tp[Default], m)
  BY <1>1, <1>2 DEF Posting, XlogPost, setup, output
<1> QED
  BY <1>1, <1>3

LEMMA LogPostPosting ==
  ASSUME IInv, NEW t \in Threads, LogPost(t)
  PROVE  \E g \in 1..2 : \E n : Posting(g, n)
<1>1. t \in Callers /\ pc[t] = "log" /\ msg[t] \in Message /\ msg[t] \in InCalls
  BY Apart, OwnMessages DEF LogPost
<1>2. Ready /\ msg[t].from = Default
  BY <1>1 DEF IInv, Pending
<1>3. XlogPost(msg[t]) /\ UNCHANGED <<setup, output>> /\ mark' = mark
  BY DEF LogPost
<1> QED
  BY <1>1, <1>2, <1>3, XlogPosting

LEMMA TerminatePosting ==
  ASSUME IInv, NEW t \in Threads, Terminate(t)
  PROVE  \E g \in 1..2 : \E n : Posting(g, n)
<1> DEFINE m == FlushOf(Default)
<1>1. /\ Ready /\ XlogPost(m) /\ UNCHANGED <<setup, output>>
      /\ mark' = [mark EXCEPT ![Default] = posted[Default]]
  BY DEF Terminate, GetInstance
<1>2. m \in Message /\ m.kind = "flush" /\ m.from = Default
  BY Apart, FlushMessage
<1> HIDE DEF m
<1> QED
  BY <1>1, <1>2, XlogPosting

LEMMA PostPosting ==
  ASSUME IInv, NEW d \in Data, Post(d)
  PROVE  \E g \in 1..2 : \E n : Posting(g, n)
<1>1. d \in Callers /\ pc[d] = "post" /\ msg[d] \in Message /\ msg[d] \in InCalls
  BY Apart, OwnMessages DEF Post
<1>2. /\ held[d] \in 1..2 /\ tp[d] = held[d] /\ name[d] # NoName /\ msg[d].from = d
  BY <1>1 DEF IInv, TypeOK, Shapes, Pending
<1>3. \A r \in Made : Before(r, msg[d]) /\ (msg[d].kind = "log" => r.id # msg[d].id)
  BY <1>1, PostedIsNew
<1>4. /\ PostBlock(held[d], msg[d])
      /\ mark' = IF msg[d].kind = "flush" THEN [mark EXCEPT ![d] = posted[d]] ELSE mark
      /\ UNCHANGED <<tp, name, written, disk>>
  BY DEF Post, setup, output
<1>5. Posting(held[d], msg[d])
  BY <1>1, <1>2, <1>3, <1>4 DEF Posting
<1> QED
  BY <1>2, <1>5

LEMMA PeriodicFlushPosting ==
  ASSUME IInv, NEW l \in Loggers, PeriodicFlush(l)
  PROVE  Quiet \/ \E g \in 1..2 : \E n : Posting(g, n)
<1> DEFINE m == FlushOf(l)
<1>1. CASE ~PoolAlive(tp[l])
  BY <1>1 DEF PeriodicFlush, Quiet, output
<1>2. CASE PoolAlive(tp[l])
  <2>1. m \in Message /\ m.kind = "flush" /\ m.from = l
    BY FlushMessage
  <2>2. tp[l] \in 1..2 /\ name[l] # NoName
    BY <1>2 DEF PeriodicFlush, PoolAlive, IInv, TypeOK, Shapes
  <2>3. PostBlock(tp[l], m) \/ (PostOverrun(tp[l], m) /\ l = Default)
    BY <1>2 DEF PeriodicFlush
  <2>4. UNCHANGED <<tp, name, written, disk, mark>>
    BY DEF PeriodicFlush, setup, output
  <2> HIDE DEF m
  <2>5. \A r \in Made : Before(r, m) /\ (m.kind = "log" => r.id # m.id)
    BY <2>1, PostedIsNew
  <2>6. Posting(tp[l], m)
    BY <2>1, <2>2, <2>3, <2>4, <2>5 DEF Posting
  <2> QED
    BY <2>2, <2>6
<1> QED
  BY <1>1, <1>2

\* Every step is one of the three.
LEMMA StepEffects ==
  ASSUME IInv, [Next]_vars
  PROVE  \/ Quiet
         \/ \E g \in 1..2 : \E m : Posting(g, m)
         \/ \E g \in 1..2 : WorkerStep(g)
<1>1. CASE InitStep
  BY <1>1 DEF InitStep, InitializeCheck, InitializePool, InitializeJoin, InitializeLogger,
             Quiet, output, history
<1>2. ASSUME NEW lv \in XlogLevels, SetLoggerLevel(lv)
      PROVE  Quiet
  BY <1>2 DEF SetLoggerLevel, Quiet, output, history
<1>3. ASSUME NEW t \in Threads,
             StreamLog(t) \/ \E lv \in XlogLevels : Xlog(t, lv) \/ StreamGate(t, lv)
      PROVE  Quiet
  BY <1>3 DEF StreamLog, Xlog, StreamGate, Quiet, output, history
<1>4. ASSUME NEW d \in Data, DataCall(d) \/ Join(d)
      PROVE  Quiet
  BY <1>4 DEF DataCall, Construct, ConstructThrows, Flush, LogText, LogData, LogEvent, Call,
             Join, Quiet, output, history
<1>5. CASE Tick \/ Idle \/ UNCHANGED vars
  BY <1>5 DEF Tick, Idle, vars, Quiet, output, history
<1> QED
  BY <1>1, <1>2, <1>3, <1>4, <1>5, LogPostPosting, TerminatePosting, PostPosting,
     PeriodicFlushPosting DEF Next, XlogCall

-----------------------------------------------------------------------------
(* Flushes.                                                                *)

\* Message i of queue g is a flush of logger l, and no record posted before
\* the last Flush() of l stands behind it.
FlushAhead(l, g, i) ==
  /\ queue[g][i].kind = "flush" /\ queue[g][i].from = l
  /\ \A j \in DOMAIN queue[g] :
       i < j /\ queue[g][j].kind = "log" /\ queue[g][j].from = l
         => queue[g][j].id \notin mark[l]

Kept(l)      == mark[l] \subseteq OnDisk(l) \cup Evicted(l)
FlushLost(l) == \E m \in evicted : m.kind = "flush" /\ m.from = l

\* What FlushHonoured leaves out: where the flush stands in its queue.
FlushPlace ==
  /\ mark \in [Loggers -> SUBSET (0..MaxCalls)]
  /\ \A l \in Loggers :
       /\ mark[l] \subseteq posted[l]
       /\ Kept(l) \/ FlushLost(l)
            \/ \E g \in 1..2 : \E i \in DOMAIN queue[g] : FlushAhead(l, g, i)

\* The first n elements of a sequence.
LEMMA FirstElements ==
  ASSUME NEW S, NEW s \in Seq(S), NEW n \in 0..Len(s)
  PROVE  /\ DOMAIN SubSeq(s, 1, n) = 1..n
         /\ \A k \in 1..n : SubSeq(s, 1, n)[k] = s[k] /\ k \in DOMAIN s
  OBVIOUS

\* The numbers of the records of logger l that are on disk.
LEMMA OnDiskPlace ==
  ASSUME NEW l \in Loggers, NEW x,
         written[l] \in Seq(Message), disk[l] \in 0..Len(written[l]),
         written'[l] \in Seq(Message), disk'[l] \in 0..Len(written'[l])
  PROVE  /\ x \in OnDisk(l) <=> \E k \in 1..disk[l] :
              written[l][k].kind = "log" /\ written[l][k].from = l /\ written[l][k].id = x
         /\ x \in OnDisk(l)' <=> \E k \in 1..disk'[l] :
              written'[l][k].kind = "log" /\ written'[l][k].from = l /\ written'[l][k].id = x
<1>1. /\ DOMAIN SubSeq(written[l], 1, disk[l]) = 1..disk[l]
      /\ \A k \in 1..disk[l] : SubSeq(written[l], 1, disk[l])[k] = written[l][k]
  BY FirstElements
<1>2. /\ DOMAIN SubSeq(written'[l], 1, disk'[l]) = 1..disk'[l]
      /\ \A k \in 1..disk'[l] : SubSeq(written'[l], 1, disk'[l])[k] = written'[l][k]
  BY FirstElements
<1>3. x \in OnDisk(l) <=> \E k \in 1..disk[l] :
        written[l][k].kind = "log" /\ written[l][k].from = l /\ written[l][k].id = x
  BY <1>1 DEF OnDisk, IdsOf, Records, ToSet
<1>4. x \in OnDisk(l)' <=> \E k \in 1..disk'[l] :
        written'[l][k].kind = "log" /\ written'[l][k].from = l /\ written'[l][k].id = x
  BY <1>2 DEF OnDisk, IdsOf, Records, ToSet
<1> QED
  BY <1>3, <1>4

\* What the only worker of a pool does with the first message of its queue.
LEMMA WorkerEffect ==
  ASSUME IInv, NEW g \in 1..2, WorkerStep(g)
  PROVE  LET m == queue[g][1]
         IN  /\ queue[g] # << >> /\ queue' = [queue EXCEPT ![g] = Tail(queue[g])]
             /\ m \in Message /\ m \in InQueues /\ m.from \in Loggers
             /\ m.kind \in {"log", "flush"}
             /\ written' = IF m.kind = "log"
                           THEN [written EXCEPT ![m.from] = Append(written[m.from], m)]
                           ELSE written
             /\ \/ disk' = disk /\ m.kind = "log"
                \/ disk' = [disk EXCEPT ![m.from] = Len(written'[m.from])]
             /\ UNCHANGED <<tp, name, evicted, posted, mark>>
<1> DEFINE m == queue[g][1]
           w == IF m.kind = "log" THEN Append(written[m.from], m) ELSE written[m.from]
<1>1. /\ 1 <= Len(queue[g]) /\ written' = [written EXCEPT ![m.from] = w]
      /\ disk' = IF Syncs(m) THEN [disk EXCEPT ![m.from] = Len(w)] ELSE disk
      /\ queue' = [queue EXCEPT ![g] = RemoveAt(queue[g], 1)]
  <2>1. \A k \in 1..kAsyncWorkerThreads : k = 1
    BY DEF kAsyncWorkerThreads
  <2> QED
    BY <2>1 DEF WorkerStep
<1>2. UNCHANGED <<tp, name, evicted, posted, mark>>
  BY DEF WorkerStep, setup, history
<1>3. queue[g] \in Seq(Message) /\ queue[g] # << >> /\ 1 \in DOMAIN queue[g]
  BY <1>1, QueueTypes
<1>4. m \in Message /\ m \in InQueues
  BY <1>3, QueueTypes
<1>5. queue' = [queue EXCEPT ![g] = Tail(queue[g])]
  BY <1>1, <1>3, RemoveFirstMessage
<1>6. m.from \in Loggers /\ m.kind \in {"log", "flush"}
  BY <1>4, MessageFields
<1> HIDE DEF m
<1>7. DOMAIN written = Loggers /\ written'[m.from] = w
  BY <1>1, <1>6 DEF IInv, Shapes
<1>8. written' = IF m.kind = "log"
                 THEN [written EXCEPT ![m.from] = Append(written[m.from], m)] ELSE written
  <2>1. CASE m.kind = "log"
    BY <1>1, <2>1
  <2>2. CASE m.kind # "log"
    BY <1>1, <1>6, <2>2 DEF IInv, Shapes
  <2> QED
    BY <2>1, <2>2
<1>9. \/ disk' = disk /\ m.kind = "log"
      \/ disk' = [disk EXCEPT ![m.from] = Len(written'[m.from])]
  BY <1>1, <1>6, <1>7 DEF Syncs
<1> QED
  BY <1>2, <1>3, <1>4, <1>5, <1>6, <1>8, <1>9 DEF m

\* Nothing that is on disk leaves it.
LEMMA DiskGrows ==
  ASSUME IInv, IInv', NEW g \in 1..2, WorkerStep(g), NEW l \in Loggers
  PROVE  OnDisk(l) \subseteq OnDisk(l)'
<1> DEFINE m == queue[g][1]
<1>1. /\ m.from \in Loggers /\ m \in Message
      /\ written' = IF m.kind = "log"
                    THEN [written EXCEPT ![m.from] = Append(written[m.from], m)] ELSE written
      /\ \/ disk' = disk
         \/ disk' = [disk EXCEPT ![m.from] = Len(written'[m.from])]
  BY WorkerEffect
<1> HIDE DEF m
<1>2. /\ written[l] \in Seq(Message) /\ disk[l] \in 0..Len(written[l])
      /\ written'[l] \in Seq(Message) /\ disk'[l] \in 0..Len(written'[l])
      /\ DOMAIN written = Loggers /\ DOMAIN disk = Loggers
  BY DEF IInv, TypeOK, Shapes
<1>3. /\ Len(written[l]) <= Len(written'[l])
      /\ \A k \in 1..Len(written[l]) : written'[l][k] = written[l][k]
  <2>1. CASE m.kind = "log" /\ m.from = l
    <3>1. written'[l] = Append(written[l], m)
      BY <1>1, <1>2, <2>1
    <3> QED
      BY <1>1, <1>2, <3>1, AppendPlaces
  <2>2. CASE ~(m.kind = "log" /\ m.from = l)
    BY <1>1, <1>2, <2>2
  <2> QED
    BY <2>1, <2>2
<1>4. disk[l] <= disk'[l]
  <2>1. disk'[l] = disk[l] \/ disk'[l] = Len(written'[l])
    BY <1>1, <1>2
  <2> QED
    BY <1>2, <1>3, <2>1
<1>5. \A k \in 1..disk[l] : k \in 1..disk'[l] /\ written'[l][k] = written[l][k]
  BY <1>2, <1>3, <1>4
<1> QED
  BY <1>2, <1>5, OnDiskPlace, SMTT(30)

\* The number of a record of l that is posted was posted by l and by no call yet.
LEMMA PostedIds ==
  ASSUME IInv, NEW g \in 1..2, NEW m, Posting(g, m), NEW l \in Loggers
  PROVE  m.kind = "log" => m.id \notin posted[l]
<1> SUFFICES ASSUME m.kind = "log", m.id \in posted[l]
             PROVE  FALSE
  OBVIOUS
<1>1. \A r \in Made : r.id # m.id
  BY DEF Posting
<1>2. m.id \in Queued(l) \cup Written(l) \cup Evicted(l)
  BY DEF IInv, EveryRecordAccounted
<1>3. \E x \in InQueues \cup ToSet(written[l]) \cup evicted : x.kind = "log" /\ x.id = m.id
  BY <1>2, IdsMembership
<1> QED
  BY <1>1, <1>3 DEF Made, InSinks

\* A message is posted.  A flush stands behind all records of its logger; a
\* record is newer than every mark; what the overrun takes is lost.
LEMMA FlushPosting ==
  ASSUME IInv, FlushPlace, NEW g \in 1..2, NEW m, Posting(g, m)
  PROVE  FlushPlace'
<1>1. /\ m \in Message /\ m.from \in Loggers /\ m.kind \in {"log", "flush"}
      /\ PostOverrun(g, m) \/ PostBlock(g, m)
      /\ UNCHANGED <<tp, name, written, disk>>
      /\ \/ mark' = mark
         \/ m.kind = "flush" /\ mark' = [mark EXCEPT ![m.from] = posted[m.from]]
  BY MessageFields DEF Posting
<1>2. PICK k \in 0..1 :
        LET q == queue[g]
            r == queue'[g]
        IN  /\ k <= Len(q) /\ Len(q) - k < QueueSize
            /\ queue' \in [0..2 -> Seq(Message)]
            /\ \A h \in 0..2 : h # g => queue'[h] = queue[h]
            /\ r \in Seq(Message) /\ Len(r) = Len(q) - k + 1
            /\ r[Len(r)] = m /\ Last(r) = m
            /\ \A i \in 1..(Len(r) - 1) : r[i] = q[i + k] /\ i + k \in 1..Len(q)
            /\ evicted' = IF k = 1 THEN evicted \cup {q[1]} ELSE evicted
            /\ posted' = [posted EXCEPT ![m.from] = Ids(m.from, m)]
  BY <1>1, PostShift
<1> DEFINE q == queue[g]
           r == queue'[g]
<1>3. /\ q \in Seq(Message) /\ Len(q) \in Nat /\ DOMAIN q = 1..Len(q)
  BY QueueTypes
<1>4. /\ r \in Seq(Message) /\ Len(r) = Len(q) - k + 1 /\ r[Len(r)] = m /\ k <= Len(q)
      /\ \A i \in 1..(Len(r) - 1) : r[i] = q[i + k] /\ i + k \in 1..Len(q)
      /\ evicted' = IF k = 1 THEN evicted \cup {q[1]} ELSE evicted
  BY <1>2
<1> HIDE DEF q, r
<1>5. DOMAIN r = 1..Len(r) /\ Len(r) \in Nat /\ Len(r) \in DOMAIN r
  BY <1>3, <1>4
<1>6. posted \in [Loggers -> SUBSET (0..MaxCalls)] /\ mark \in [Loggers -> SUBSET (0..MaxCalls)]
  BY DEF IInv, Shapes, FlushPlace
<1>7. mark' \in [Loggers -> SUBSET (0..MaxCalls)]
  BY <1>1, <1>6
<1>8. ASSUME NEW l \in Loggers
      PROVE  mark'[l] \subseteq posted'[l]
  <2>1. posted[l] \subseteq posted'[l]
    BY <1>1, <1>2, <1>6 DEF Ids
  <2>2. mark'[l] = mark[l] \/ mark'[l] = posted[l]
    BY <1>1, <1>6
  <2> QED
    BY <2>1, <2>2 DEF FlushPlace
<1>9. ASSUME NEW l \in Loggers
      PROVE  Kept(l)' \/ FlushLost(l)'
               \/ \E h \in 1..2 : \E i \in DOMAIN queue'[h] : FlushAhead(l, h, i)'
  <2>1. CASE m.kind = "flush" /\ m.from = l
    <3>1. PICK n \in DOMAIN r : n = Len(r)
      BY <1>5
    <3>2. \A j \in DOMAIN r : ~(n < j)
      BY <1>5, <3>1
    <3>3. r[n] = m
      BY <1>4, <3>1
    <3>4. FlushAhead(l, g, n)'
      BY <2>1, <3>2, <3>3 DEF FlushAhead, r
    <3> QED
      BY <3>1, <3>4 DEF r
  <2>2. CASE ~(m.kind = "flush" /\ m.from = l)
    <3>1. mark'[l] = mark[l]
      BY <1>1, <1>6, <2>2
    <3>2. evicted \subseteq evicted' /\ Evicted(l) \subseteq Evicted(l)'
      <4>1. evicted \subseteq evicted'
        BY <1>4
      <4> QED
        BY <4>1, IdsMembership
    <3>3. CASE Kept(l)
      <4>1. OnDisk(l)' = OnDisk(l)
        BY <1>1 DEF OnDisk, IdsOf, Records
      <4> QED
        BY <3>1, <3>2, <3>3, <4>1 DEF Kept
    <3>4. CASE FlushLost(l)
      BY <3>2, <3>4 DEF FlushLost
    <3>5. ASSUME NEW h \in 1..2, NEW i \in DOMAIN queue[h], FlushAhead(l, h, i)
          PROVE  FlushLost(l)' \/ \E j \in DOMAIN queue'[h] : FlushAhead(l, h, j)'
      <4>1. CASE h # g
        <5>1. queue'[h] = queue[h]
          BY <1>2, <4>1, SMTT(30)
        <5> QED
          BY <3>1, <3>5, <5>1 DEF FlushAhead
      <4>2. CASE h = g /\ k = 1 /\ i = 1
        BY <1>4, <3>5, <4>2 DEF FlushAhead, FlushLost, q
      <4>3. CASE h = g /\ ~(k = 1 /\ i = 1)
        <5>1. /\ i \in 1..Len(q) /\ q[i].kind = "flush" /\ q[i].from = l
              /\ \A j \in 1..Len(q) : i < j /\ q[j].kind = "log" /\ q[j].from = l
                                        => q[j].id \notin mark[l]
          BY <1>3, <3>5, <4>3 DEF FlushAhead, q
        <5>2. i - k \in 1..(Len(r) - 1) /\ (i - k) + k = i /\ i - k \in DOMAIN r
          BY <1>3, <1>4, <1>5, <4>3, <5>1
        <5>3. r[i - k] = q[i]
          BY <1>4, <5>2
        <5>4. ASSUME NEW j \in DOMAIN r, i - k < j, r[j].kind = "log", r[j].from = l
              PROVE  r[j].id \notin mark[l]
          <6>1. CASE j = Len(r)
            <7>1. r[j] = m
              BY <1>4, <6>1
            <7>2. m.id \notin posted[l]
              BY <5>4, <7>1, PostedIds
            <7> QED
              BY <7>1, <7>2 DEF FlushPlace
          <6>2. CASE j # Len(r)
            <7>1. j \in 1..(Len(r) - 1) /\ i < j + k
              BY <1>5, <5>1, <5>4, <6>2
            <7>2. r[j] = q[j + k] /\ j + k \in 1..Len(q)
              BY <1>4, <7>1
            <7> QED
              BY <5>1, <5>4, <7>1, <7>2
          <6> QED
            BY <6>1, <6>2
        <5>5. FlushAhead(l, g, i - k)'
          BY <3>1, <5>1, <5>3, <5>4 DEF FlushAhead, r
        <5> QED
          BY <4>3, <5>2, <5>5 DEF r
      <4> QED
        BY <4>1, <4>2, <4>3
    <3> QED
      BY <3>3, <3>4, <3>5 DEF FlushPlace
  <2> QED
    BY <2>1, <2>2
<1> QED
  BY <1>7, <1>8, <1>9 DEF FlushPlace

\* A worker takes a message.  If it is the flush, what was written is on disk
\* now, and no record of the mark is still queued.
LEMMA FlushWorker ==
  ASSUME IInv, IInv', FlushPlace, NEW g \in 1..2, WorkerStep(g)
  PROVE  FlushPlace'
<1> DEFINE m == queue[g][1]
           q == queue[g]
<1>1. /\ q # << >> /\ queue' = [queue EXCEPT ![g] = Tail(q)]
      /\ m.from \in Loggers /\ m.kind \in {"log", "flush"}
      /\ \/ m.kind = "log"
         \/ written' = written /\ disk' = [disk EXCEPT ![m.from] = Len(written'[m.from])]
      /\ UNCHANGED <<tp, name, evicted, posted, mark>>
  BY WorkerEffect
<1>2. /\ q \in Seq(Message) /\ Len(q) \in Nat /\ DOMAIN q = 1..Len(q)
  BY QueueTypes
<1>3. DOMAIN queue = 0..2 /\ g \in 0..2
  BY DEF IInv, Shapes
<1> DEFINE r == queue'[g]
<1>4. r = Tail(q) /\ \A h \in 1..2 : h # g => queue'[h] = queue[h]
  BY <1>1, <1>3
<1> HIDE DEF m, q, r
<1>5. /\ DOMAIN r = 1..(Len(q) - 1) /\ Len(q) >= 1
      /\ \A i \in 1..(Len(q) - 1) : r[i] = q[i + 1]
  BY <1>1, <1>2, <1>4
<1>6. ASSUME NEW l \in Loggers
      PROVE  Kept(l)' \/ FlushLost(l)'
               \/ \E h \in 1..2 : \E i \in DOMAIN queue'[h] : FlushAhead(l, h, i)'
  <2>1. Evicted(l)' = Evicted(l)
    BY <1>1 DEF Evicted, IdsOf, Records
  <2>2. CASE Kept(l)
    <3>1. OnDisk(l) \subseteq OnDisk(l)'
      BY DiskGrows
    <3> QED
      BY <1>1, <2>1, <2>2, <3>1 DEF Kept
  <2>3. CASE FlushLost(l)
    BY <1>1, <2>3 DEF FlushLost
  <2>4. ASSUME NEW h \in 1..2, NEW i \in DOMAIN queue[h], FlushAhead(l, h, i)
        PROVE  Kept(l)' \/ \E j \in DOMAIN queue'[h] : FlushAhead(l, h, j)'
    <3>1. CASE h # g
      BY <1>1, <1>4, <2>4, <3>1 DEF FlushAhead
    <3>2. CASE h = g /\ i = 1
      <4>1. m.kind = "flush" /\ m.from = l
        BY <2>4, <3>2 DEF FlushAhead, m
      <4>2. written' = written /\ disk'[l] = Len(written[l])
        <5>1. DOMAIN disk = Loggers
          BY DEF IInv, Shapes
        <5> QED
          BY <1>1, <4>1, <5>1
      <4>3. Written(l) \subseteq OnDisk(l)'
        <5> SUFFICES ASSUME NEW x \in Written(l)
                     PROVE  x \in OnDisk(l)'
          OBVIOUS
        <5>1. PICK w \in ToSet(written[l]) : w.kind = "log" /\ w.from = l /\ w.id = x
          BY IdsMembership
        <5>2. PICK n \in DOMAIN written[l] : written[l][n] = w
          BY <5>1 DEF ToSet
        <5>3. /\ written[l] \in Seq(Message) /\ disk[l] \in 0..Len(written[l])
              /\ written'[l] \in Seq(Message) /\ disk'[l] \in 0..Len(written'[l])
          BY DEF IInv, TypeOK
        <5>4. n \in 1..disk'[l]
          BY <4>2, <5>2, <5>3
        <5> QED
          BY <4>2, <5>1, <5>2, <5>3, <5>4, OnDiskPlace
      <4>4. \A x \in Queued(l) : x \notin mark[l]
        <5> SUFFICES ASSUME NEW x \in Queued(l)
                     PROVE  x \notin mark[l]
          OBVIOUS
        <5>1. PICK w \in InQueues : w.kind = "log" /\ w.from = l /\ w.id = x
          BY IdsMembership
        <5>2. PICK e \in 1..2 : \E j \in DOMAIN queue[e] : queue[e][j] = w
          BY InQueuesPlace
        <5>3. PICK j \in DOMAIN queue[e] : queue[e][j] = w
          BY <5>2
        <5>4. tp[l] = e /\ tp[l] = g
          BY <2>4, <3>2, <5>1, <5>3 DEF IInv, Home, FlushAhead
        <5>5. j \in 1..Len(q) /\ q[j] = w
          BY <1>2, <5>3, <5>4 DEF q
        <5>6. j # 1
          BY <4>1, <5>1, <5>5 DEF m, q
        <5>7. 1 < j
          BY <5>5, <5>6
        <5> QED
          BY <2>4, <3>2, <5>1, <5>3, <5>4, <5>7 DEF FlushAhead
      <4>5. mark[l] \subseteq Queued(l) \cup Written(l) \cup Evicted(l)
        BY DEF FlushPlace, IInv, EveryRecordAccounted
      <4> QED
        BY <1>1, <2>1, <4>3, <4>4, <4>5 DEF Kept
    <3>3. CASE h = g /\ i # 1
      <4>1. /\ i \in 1..Len(q) /\ q[i].kind = "flush" /\ q[i].from = l
            /\ \A j \in 1..Len(q) : i < j /\ q[j].kind = "log" /\ q[j].from = l
                                      => q[j].id \notin mark[l]
        BY <1>2, <2>4, <3>3 DEF FlushAhead, q
      <4>2. i - 1 \in 1..(Len(q) - 1) /\ (i - 1) + 1 = i
        BY <1>2, <3>3, <4>1
      <4>3. r[i - 1] = q[i] /\ i - 1 \in DOMAIN r
        BY <1>5, <4>2
      <4>4. ASSUME NEW j \in DOMAIN r, i - 1 < j, r[j].kind = "log", r[j].from = l
            PROVE  r[j].id \notin mark[l]
        <5>1. r[j] = q[j + 1] /\ j + 1 \in 1..Len(q) /\ i < j + 1
          BY <1>2, <1>5, <4>1, <4>4
        <5> QED
          BY <4>1, <4>4, <5>1
      <4>5. FlushAhead(l, g, i - 1)'
        BY <1>1, <4>1, <4>3, <4>4 DEF FlushAhead, r
      <4> QED
        BY <3>3, <4>3, <4>5 DEF r
    <3> QED
      BY <3>1, <3>2, <3>3
  <2> QED
    BY <2>2, <2>3, <2>4 DEF FlushPlace
<1> QED
  BY <1>1, <1>6 DEF FlushPlace

\* Neither.
LEMMA FlushQuiet ==
  ASSUME FlushPlace, Quiet
  PROVE  FlushPlace'
<1>1. \A l \in Loggers : Kept(l)' = Kept(l) /\ FlushLost(l)' = FlushLost(l)
  BY DEF Quiet, Kept, FlushLost, OnDisk, Evicted, IdsOf, Records
<1>2. \A l, g, i : FlushAhead(l, g, i)' = FlushAhead(l, g, i)
  BY DEF Quiet, FlushAhead
<1> QED
  BY <1>1, <1>2 DEF FlushPlace, Quiet

\* A Flush() or Terminate() is honoured unless it, or a record before it, is
\* overrun: for any number of threads and data loggers and any queue size.
THEOREM FlushesHonoured == Spec => []FlushHonoured
<1>1. Init => FlushPlace
  BY DEF Init, FlushPlace, Kept
<1>2. IInv /\ IInv' /\ FlushPlace /\ [Next]_vars => FlushPlace'
  BY StepEffects, FlushPosting, FlushWorker, FlushQuiet
<1>3. IInv /\ FlushPlace => FlushHonoured
  <2> SUFFICES ASSUME FlushPlace, NEW l \in Loggers, ~Kept(l)
               PROVE  \E m \in InQueues \cup evicted : m.kind = "flush" /\ m.from = l
    BY DEF FlushHonoured, Kept
  <2>1. CASE FlushLost(l)
    BY <2>1 DEF FlushLost
  <2>2. ASSUME NEW g \in 1..2, NEW i \in DOMAIN queue[g], FlushAhead(l, g, i)
        PROVE  queue[g][i] \in InQueues /\ queue[g][i].kind = "flush" /\ queue[g][i].from = l
    BY <2>2, InQueuesPlace DEF FlushAhead
  <2> QED
    BY <2>1, <2>2 DEF FlushPlace
<1> QED
  BY <1>1, <1>2, <1>3, Invariance, PTL DEF Spec

-----------------------------------------------------------------------------
(* AsyncLog implements LossyLog.                                           *)

Pend == {m \in InQueues : m.kind = "log"}
Lost == {m \in evicted : m.kind = "log"}

\* m as a record, if it is one.
AsRecord(m) == {r \in {m} : r.kind = "log"}

\* A record is never both queued and evicted.
LEMMA NotEvictedYet ==
  ASSUME IInv, NEW r \in InQueues, r.kind = "log"
  PROVE  r \notin evicted
<1>1. r.from \in Loggers
  BY QueueTypes, MessageFields
<1> QED
  BY <1>1, FreshInQueue

\* The first message of a queue was made before every other that its caller
\* has in a queue.
LEMMA FirstIsOldest ==
  ASSUME IInv, NEW g \in 1..2, queue[g] # << >>
  PROVE  /\ queue[g][1] \in InQueues
         /\ \A s \in InQueues : s = queue[g][1] \/ Before(queue[g][1], s)
<1>1. queue[g] \in Seq(Message) /\ DOMAIN queue[g] = 1..Len(queue[g]) /\ 1 \in DOMAIN queue[g]
  BY QueueTypes
<1>2. queue[g][1] \in InQueues
  BY <1>1, QueueTypes
<1>3. ASSUME NEW s \in InQueues, s # queue[g][1]
      PROVE  Before(queue[g][1], s)
  <2>1. PICK h \in 1..2 : \E i \in DOMAIN queue[h] : queue[h][i] = s
    BY InQueuesPlace
  <2>2. PICK i \in DOMAIN queue[h] : queue[h][i] = s
    BY <2>1
  <2>3. CASE h = g
    <3>1. i \in 1..Len(queue[g]) /\ i # 1
      BY <1>1, <1>3, <2>2, <2>3
    <3>2. 1 < i
      BY <3>1
    <3> QED
      BY <1>1, <2>2, <2>3, <3>2 DEF IInv, QueueOrder
  <2>4. CASE h # g
    <3>1. tp[queue[g][1].from] = g /\ tp[s.from] = h
      BY <1>1, <2>2 DEF IInv, Home
    <3> QED
      BY <2>4, <3>1 DEF Before
  <2> QED
    BY <2>3, <2>4
<1> QED
  BY <1>2, <1>3

LEMMA OldestRecord ==
  ASSUME IInv, NEW e \in InQueues, e.kind = "log",
         \A s \in InQueues : s = e \/ Before(e, s)
  PROVE  Lossy!Oldest(e) /\ e \in Pend
<1>1. e \in Pend
  BY DEF Pend
<1>2. ASSUME NEW s \in Pend, s.from = e.from, s.by = e.by, s.id < e.id
      PROVE  FALSE
  <2>1. s \in Made /\ e \in Made /\ s.kind = "log"
    BY DEF Pend, Made
  <2>2. s.id \in Nat /\ e.id \in Nat
    BY <2>1, MadeFields
  <2>3. s = e \/ e.id < s.id
    BY <1>2, <2>1 DEF Pend, Before
  <2> QED
    BY <1>2, <2>2, <2>3
<1> QED
  BY <1>1, <1>2 DEF Lossy!Oldest, Lossy!Older, Pend

LEMMA NewRecord ==
  ASSUME IInv, NEW g \in 1..2, NEW m, Posting(g, m), m.kind = "log"
  PROVE  Lossy!New(m) /\ m \in LogRecord /\ m \notin InQueues
<1>1. m \in Message /\ m.id \in Nat
  BY MessageFields DEF Posting
<1>2. ASSUME NEW s \in Made
      PROVE  s.id # m.id /\ ~Lossy!Older(m, s)
  <2>1. s.id \in Nat /\ s.kind = "log" /\ s.id # m.id /\ Before(s, m)
    BY MadeFields DEF Posting
  <2> QED
    BY <1>1, <2>1 DEF Before, Lossy!Older
<1>3. \A s \in Pend \cup Lost : s \in Made
  BY DEF Pend, Lost, Made
<1>4. \A l \in Loggers : \A i \in DOMAIN written[l] : written[l][i] \in Made
  BY SinkPlaces
<1>5. Lossy!New(m)
  BY <1>2, <1>3, <1>4 DEF Lossy!New, Lossy!Newer, Pend, Lost
<1>6. m \notin InQueues
  BY <1>2 DEF Made
<1> QED
  BY <1>1, <1>5, <1>6 DEF LogRecord

\* What a post does to the records: m is pending, and at most one message, the
\* oldest of its queue, is lost to an overrun.
LEMMA PostEffect ==
  ASSUME IInv, NEW g \in 1..2, NEW m, Posting(g, m)
  PROVE  \/ Lost' = Lost /\ Pend' = Pend \cup AsRecord(m)
         \/ /\ m.from = Default
            /\ \E e \in Pend : /\ Lossy!Oldest(e)
                               /\ Lost' = Lost \cup {e}
                               /\ Pend' = (Pend \ {e}) \cup AsRecord(m)
<1>1. /\ m \in Message /\ tp[m.from] = g /\ name[m.from] # NoName
      /\ PostBlock(g, m) \/ (PostOverrun(g, m) /\ m.from = Default)
      /\ \A r \in Made : Before(r, m) /\ (m.kind = "log" => r.id # m.id)
      /\ UNCHANGED <<tp, name>>
  BY DEF Posting
<1>2. /\ InQueues' \subseteq InQueues \cup {m} /\ m \in InQueues'
      /\ InQueues \subseteq InQueues' \cup evicted'
      /\ \A e \in evicted', q \in InQueues' : e \in evicted \/ q = m \/ Before(e, q)
  BY <1>1, PostQueue
<1>3. PICK k \in 0..1 :
        LET q == queue[g]
            r == queue'[g]
        IN  /\ k <= Len(q) /\ Len(q) - k < QueueSize
            /\ queue' \in [0..2 -> Seq(Message)]
            /\ \A h \in 0..2 : h # g => queue'[h] = queue[h]
            /\ r \in Seq(Message) /\ Len(r) = Len(q) - k + 1
            /\ r[Len(r)] = m /\ Last(r) = m
            /\ \A i \in 1..(Len(r) - 1) : r[i] = q[i + k] /\ i + k \in 1..Len(q)
            /\ evicted' = IF k = 1 THEN evicted \cup {q[1]} ELSE evicted
            /\ posted' = [posted EXCEPT ![m.from] = Ids(m.from, m)]
  BY <1>1, PostShift, ZenonT(30)
<1>4. \A x \in Pend : x \notin evicted
  BY NotEvictedYet DEF Pend
<1>5. Pend' \subseteq Pend \cup AsRecord(m) /\ AsRecord(m) \subseteq Pend'
  BY <1>2 DEF Pend, AsRecord
<1>6. CASE k = 0
  <2>1. evicted' = evicted
    BY <1>3, <1>6
  <2>2. Pend \subseteq Pend'
    BY <1>2, <1>4, <2>1 DEF Pend
  <2> QED
    BY <1>5, <2>1, <2>2 DEF Lost
<1>7. CASE k = 1
  <2> DEFINE e == queue[g][1]
  <2>1. evicted' = evicted \cup {e} /\ queue[g] # << >> /\ Len(queue'[g]) = Len(queue[g])
    <3>1. queue[g] \in Seq(Message) /\ Len(queue[g]) \in Nat /\ Len(queue[g]) >= 1
      BY <1>3, <1>7, QueueTypes
    <3>2. Len(queue'[g]) = Len(queue[g])
      BY <1>3, <1>7, <3>1
    <3> QED
      BY <1>3, <1>7, <3>1, <3>2
  <2>2. m.from = Default
    <3>1. ASSUME PostBlock(g, m)
          PROVE  FALSE
      <4>1. queue[g] \in Seq(Message) /\ Len(queue[g]) \in Nat /\ g \in DOMAIN queue
        BY QueueTypes DEF IInv, Shapes
      <4>2. queue'[g] = Append(queue[g], m)
        BY <3>1, <4>1 DEF PostBlock
      <4>3. Len(queue'[g]) = Len(queue[g]) + 1
        BY <1>1, <4>1, <4>2, AppendPlaces
      <4> QED
        BY <2>1, <4>1, <4>3
    <3> QED
      BY <1>1, <3>1
  <2>3. e \in InQueues /\ \A s \in InQueues : s = e \/ Before(e, s)
    BY <2>1, FirstIsOldest
  <2> HIDE DEF e
  <2>4. \A x \in Pend : x = e \/ x \in Pend'
    BY <1>2, <1>4, <2>1 DEF Pend
  <2>5. CASE e.kind = "log"
    <3>1. e \notin Pend'
      <4> SUFFICES ASSUME e \in InQueues'
                   PROVE  FALSE
        BY DEF Pend
      <4>1. e \in Made
        BY <2>3, <2>5 DEF Made
      <4>2. e.id \in Nat /\ e \notin evicted
        BY <2>3, <2>5, <4>1, MadeFields, NotEvictedYet
      <4>3. e = m \/ Before(e, e)
        BY <1>2, <2>1, <4>2
      <4> QED
        BY <1>1, <2>5, <4>1, <4>2, <4>3 DEF Before
    <3>2. Lossy!Oldest(e) /\ e \in Pend
      BY <2>3, <2>5, OldestRecord
    <3>3. Lost' = Lost \cup {e}
      BY <2>1, <2>5 DEF Lost
    <3>4. Pend' = (Pend \ {e}) \cup AsRecord(m)
      BY <1>5, <2>4, <3>1
    <3> QED
      BY <2>2, <3>2, <3>3, <3>4
  <2>6. CASE e.kind # "log"
    <3>1. e \notin Pend
      BY <2>6 DEF Pend
    <3>2. Lost' = Lost
      BY <2>1, <2>6 DEF Lost
    <3> QED
      BY <1>5, <2>4, <3>1, <3>2
  <2> QED
    BY <2>5, <2>6
<1> QED
  BY <1>6, <1>7

\* A message that is posted: a record, a record that another one makes room
\* for, a flush that a record makes room for, or a flush.
LEMMA LossyPosting ==
  ASSUME IInv, NEW g \in 1..2, NEW m, Posting(g, m)
  PROVE  [Lossy!Next]_(Lossy!vars)
<1>1. written' = written /\ disk' = disk
  BY DEF Posting
<1>2. m.kind = "log" => /\ Lossy!New(m) /\ m \in LogRecord /\ AsRecord(m) = {m}
  BY NewRecord DEF AsRecord
<1>3. m.kind # "log" => AsRecord(m) = {}
  BY DEF AsRecord
<1>4. CASE Lost' = Lost /\ Pend' = Pend \cup AsRecord(m)
  <2>1. CASE m.kind = "log"
    <3>1. Lossy!Post(m) /\ m \in LogRecord \cap Pend'
      BY <1>1, <1>2, <1>4, <2>1 DEF Lossy!Post, Pend, Lost
    <3> QED
      BY <3>1 DEF Lossy!Next, Pend
  <2>2. CASE m.kind # "log"
    BY <1>1, <1>3, <1>4, <2>2 DEF Lossy!vars, Pend, Lost
  <2> QED
    BY <2>1, <2>2
<1>5. ASSUME m.from = Default, NEW e \in Pend, Lossy!Oldest(e), Lost' = Lost \cup {e},
             Pend' = (Pend \ {e}) \cup AsRecord(m)
      PROVE  Lossy!Next
  <2>1. CASE m.kind = "log"
    <3>1. Lossy!PostLosing(m, e) /\ m \in LogRecord \cap Pend'
      BY <1>1, <1>2, <1>5, <2>1 DEF Lossy!PostLosing, Pend, Lost
    <3> QED
      BY <3>1 DEF Lossy!Next, Pend
  <2>2. CASE m.kind # "log"
    <3>1. Lossy!Lose(e)
      BY <1>1, <1>3, <1>5, <2>2 DEF Lossy!Lose, Pend, Lost
    <3> QED
      BY <3>1 DEF Lossy!Next, Pend
  <2> QED
    BY <2>1, <2>2
<1> QED
  BY <1>4, <1>5, PostEffect

\* A worker writes a record, or what was written becomes durable.
LEMMA LossyWorker ==
  ASSUME IInv, NEW g \in 1..2, WorkerStep(g)
  PROVE  Lossy!Next
<1> DEFINE m == queue[g][1]
<1>1. /\ queue[g] # << >> /\ queue' = [queue EXCEPT ![g] = Tail(queue[g])]
      /\ m \in Message /\ m \in InQueues /\ m.from \in Loggers /\ m.kind \in {"log", "flush"}
      /\ written' = IF m.kind = "log"
                    THEN [written EXCEPT ![m.from] = Append(written[m.from], m)] ELSE written
      /\ \/ disk' = disk /\ m.kind = "log"
         \/ disk' = [disk EXCEPT ![m.from] = Len(written'[m.from])]
      /\ UNCHANGED <<tp, name, evicted>>
  BY WorkerEffect, SMTT(30)
<1>2. /\ InQueues' \subseteq InQueues /\ InQueues \subseteq InQueues' \cup {m}
      /\ \A q \in InQueues' : Before(m, q)
  BY <1>1, WorkerQueue
<1>3. \A s \in InQueues : s = m \/ Before(m, s)
  BY <1>1, FirstIsOldest
<1> HIDE DEF m
<1>4. Lost' = Lost
  BY <1>1 DEF Lost
<1>5. CASE m.kind = "log"
  <2>1. m \in Pend
    BY <1>1, <1>5 DEF Pend
  <2>2. m \notin InQueues'
    <3>1. m \in Made
      BY <1>1, <1>5 DEF Made
    <3>2. m.id \in Nat
      BY <3>1, MadeFields
    <3> QED
      BY <1>2, <1>5, <3>2 DEF Before
  <2>3. Pend' = Pend \ {m}
    BY <1>2, <2>2 DEF Pend
  <2>4. PICK e \in Pend : e = m
    BY <2>1
  <2>5. Lossy!Oldest(e)
    BY <1>3, <1>5, <2>4, OldestRecord DEF Pend
  <2>6. Lossy!Write(e)
    BY <1>1, <1>4, <1>5, <2>3, <2>4, <2>5 DEF Lossy!Write, Pend, Lost
  <2> QED
    BY <2>6 DEF Lossy!Next, Pend
<1>6. CASE m.kind = "flush"
  <2>1. Pend' = Pend
    BY <1>2, <1>6 DEF Pend
  <2>2. written' = written /\ disk' = [disk EXCEPT ![m.from] = Len(written[m.from])]
    BY <1>1, <1>6
  <2>3. Lossy!Sync(m.from)
    BY <1>4, <2>1, <2>2 DEF Lossy!Sync, Pend, Lost
  <2> QED
    BY <1>1, <2>3 DEF Lossy!Next
<1> QED
  BY <1>1, <1>5, <1>6

\* To its callers the asynchronous logging is one log: whatever thread pools
\* and queues there are, every record is written once or lost once, each
\* caller's in order, and only a post of the DefaultLogger loses any.
THEOREM RefinesLossyLog == Spec => ImplementsLossyLog
<1>1. Init => Lossy!Init
  <2> SUFFICES ASSUME Init
               PROVE  Lossy!Init
    OBVIOUS
  <2>1. InQueues = {}
    BY InQueuesPlace DEF Init
  <2>2. Pend = {} /\ Lost = {}
    BY <2>1 DEF Init, Pend, Lost
  <2> QED
    BY <2>2 DEF Init, Lossy!Init, Pend, Lost
<1>2. IInv /\ [Next]_vars => [Lossy!Next]_(Lossy!vars)
  <2> SUFFICES ASSUME IInv, [Next]_vars
               PROVE  [Lossy!Next]_(Lossy!vars)
    OBVIOUS
  <2>1. CASE Quiet
    BY <2>1 DEF Quiet, Lossy!vars, InQueues
  <2> QED
    BY <2>1, StepEffects, LossyPosting, LossyWorker
<1> QED
  BY <1>1, <1>2, Invariance, PTL DEF Spec, ImplementsLossyLog, Lossy!Spec
=============================================================================
