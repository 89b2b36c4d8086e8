------------------------------ MODULE AsyncLog ------------------------------
(***************************************************************************)
(* The asynchronous loggers of xmSigma: DefaultLogger behind the XLOG_*    *)
(* macros, and the data loggers (SpecializedLogger with CsvLogger,         *)
(* GlobalCsvLogger and EventLogger), all on spdlog's process-wide thread   *)
(* pool.                                                                   *)
(*                                                                         *)
(* spdlog is modelled from its use: a pool is a bounded queue with         *)
(* kAsyncWorkerThreads workers; loggers hold it weakly, so one that        *)
(* replaces it leaves the loggers of the old one without a pool once its   *)
(* queue has been emptied; a registry maps names to loggers and refuses a  *)
(* second logger of a name; a full queue makes a poster wait (block) or    *)
(* loses its oldest message (overrun_oldest).                              *)
(*                                                                         *)
(* Threads are the callers of XLOG_*; each data logger is driven by one    *)
(* thread and stands for it too.  A record carries the number of the call  *)
(* that made it.                                                           *)
(***************************************************************************)
EXTENDS Settings, FiniteSets, SequencesExt

CONSTANTS
  Threads,        \* threads that use XLOG_*
  Data,           \* data loggers, each with its thread
  Prefix,         \* logfile_prefix_ of each data logger
  Default,        \* the DefaultLogger
  Environments,   \* the environments the process may start in
  XlogLevels,     \* levels of the XLOG_* sites and of XLOG_LEVEL()
  ActiveLevel,    \* XMSIGMA_ACTIVE_LEVEL of a build with ENABLE_LOGGING
  QueueSize,      \* kAsyncQueueSize and spdlog's own default: 8192
  MaxCalls,       \* bound: calls and ticks of the clock
  MaxTime         \* bound: seconds

ASSUME AsyncAssumption ==
  /\ Default \notin Data /\ Threads \cap Data = {}
  /\ Prefix \in [Data -> STRING]
  /\ QueueSize \in Nat \ {0} /\ MaxCalls \in Nat /\ MaxTime \in Nat

Loggers == Data \cup {Default}
Callers == Threads \cup Data
NoName  == << >>

VARIABLES
  env, now,        \* the environment; wall clock, which may be set back
  init,            \* how far GetInstance()'s static initializer is
  level,           \* spdlog level of the DefaultLogger
  pool,            \* number of the current thread pool, 0 if there is none
  queue,           \* queue of each pool (0: posts of a logger without one)
  tp, name,        \* the pool and the registered name of each logger
  pc, held, msg,   \* callers: place, pool it posts to, message it posts
  due,             \* loggers the periodic flush has still to reach
  written, disk,   \* records in each logger's sinks; how many are flushed
  calls,           \* history: calls so far; numbers the records
  posted,          \* history: records put into a queue, by logger
  evicted,         \* history: messages lost to overrun_oldest
  rejected,        \* history: data loggers that found their pool gone
  mark,            \* history: records posted when Flush() was last posted
  raced,           \* history: data loggers created while Initialize() was
                   \* between its look at the pool and its own pool
  overtaken        \* history: threads in Log() that spdlog's check let pass
                   \* before the level was set again

callers == <<pc, held, msg>>
setup   == <<env, init, pool, tp, name>>
history == <<posted, evicted, rejected, mark, raced, overtaken>>
output  == <<written, disk>>
vars == <<setup, now, level, queue, callers, due, output, calls, history>>

Init ==
  /\ env \in Environments /\ now = 0
  /\ init = "none" /\ level = "info"
  /\ pool = 0 /\ queue = [g \in 0..2 |-> << >>]
  /\ tp = [l \in Loggers |-> 0] /\ name = [l \in Loggers |-> NoName]
  /\ pc = [c \in Callers |-> "idle"] /\ held = [c \in Callers |-> 0]
  /\ msg = [c \in Callers |-> << >>]
  /\ due = {}
  /\ written = [l \in Loggers |-> << >>] /\ disk = [l \in Loggers |-> 0]
  /\ calls = 0
  /\ posted = [l \in Loggers |-> {}] /\ evicted = {} /\ rejected = {}
  /\ mark = [l \in Loggers |-> {}] /\ raced = {} /\ overtaken = {}

-----------------------------------------------------------------------------
(* Messages and the thread pool.                                           *)

\* A record of logger l made by the caller c; a message that asks for a flush.
Record(l, c, id, lv) ==
  [kind |-> "log", from |-> l, by |-> c, id |-> id, level |-> lv]
FlushOf(l) == [kind |-> "flush", from |-> l, by |-> l, id |-> 0, level |-> "off"]

\* Faulty form of kAsyncWorkerThreads.
TwoWorkers == 2

kAsyncWorkerThreads == 1

\* A caller is posting to pool g and keeps it alive meanwhile.
Held(g) == \E c \in Callers : held[c] = g

\* A logger's weak pointer to pool g can be locked: the registry has it, or
\* somebody who is posting to it.
PoolAlive(g) == g # 0 /\ (g = pool \/ Held(g))

\* A worker ends when the queue of its pool, which nobody can post to any
\* more, is empty.
Joinable(g) == queue[g] = << >>

\* Faulty form of Full: one message too many.
FullLate(g) == Len(queue[g]) > QueueSize

Full(g) == Len(queue[g]) >= QueueSize

Ids(l, m) == IF m.kind = "log" THEN posted[l] \cup {m.id} ELSE posted[l]

\* Faulty form of PostOverrun: the newest message makes room.
PostOverrunNewest(g, m) ==
  /\ queue' = [queue EXCEPT ![g] = Append(IF Full(g) THEN Front(@) ELSE @, m)]
  /\ evicted' = IF Full(g) THEN evicted \cup {Last(queue[g])} ELSE evicted
  /\ posted' = [posted EXCEPT ![m.from] = Ids(m.from, m)]

\* enqueue_nowait(): a full queue loses its oldest message.
PostOverrun(g, m) ==
  /\ queue' = [queue EXCEPT ![g] = Append(IF Full(g) THEN Tail(@) ELSE @, m)]
  /\ evicted' = IF Full(g) THEN evicted \cup {Head(queue[g])} ELSE evicted
  /\ posted' = [posted EXCEPT ![m.from] = Ids(m.from, m)]

\* enqueue(): wait until there is room.
PostBlock(g, m) ==
  /\ ~Full(g)
  /\ queue' = [queue EXCEPT ![g] = Append(@, m)]
  /\ posted' = [posted EXCEPT ![m.from] = Ids(m.from, m)]
  /\ UNCHANGED evicted

\* The DefaultLogger is created with async_overflow_policy::overrun_oldest.
XlogPost(m) == PostOverrun(tp[Default], m)

\* Faulty form of Syncs: no flush_on(err), errors wait for the next flush.
SyncsOnFlushOnly(m) == m.kind = "flush"

\* The sinks are flushed after message m: it asks for it, or it is a record of
\* the DefaultLogger, which has flush_on(err).
Syncs(m) ==
  \/ m.kind = "flush"
  \/ m.from = Default /\ AtLeast(m.level, "err")

\* Faulty form of HasWorker: a pool that is replaced leaves its queue behind.
HasWorkerCurrent(g) == g = pool

\* A pool that is replaced empties its queue before its worker ends.
HasWorker(g) == g <= pool

\* A worker takes one of the first kAsyncWorkerThreads messages (n workers
\* finish the first n in any order) and hands it to the sinks.
WorkerStep(g) ==
  /\ HasWorker(g)
  /\ \E k \in 1..kAsyncWorkerThreads :
       /\ k <= Len(queue[g])
       /\ LET m == queue[g][k]
              w == IF m.kind = "log" THEN Append(written[m.from], m)
                                     ELSE written[m.from]
          IN  /\ written' = [written EXCEPT ![m.from] = w]
              /\ disk' = IF Syncs(m) THEN [disk EXCEPT ![m.from] = Len(w)] ELSE disk
       /\ queue' = [queue EXCEPT ![g] = RemoveAt(@, k)]
  /\ UNCHANGED <<setup, now, level, callers, due, calls, history>>

-----------------------------------------------------------------------------
(* DefaultLogger::GetInstance(): Initialize() runs inside the guard of a   *)
(* static, in the thread that came first; the others wait for it.          *)

Ready == init = "ready"

\* Faulty form of GetInstance: no guard, as in the design before this one.
GetInstanceUnguarded == init # "none"

GetInstance == Ready

\* Faulty form of InitializeCheck: a pool of its own in any case.
InitializeCheckNot ==
  /\ init = "none" /\ init' = "create"
  /\ UNCHANGED <<env, pool, tp, name, now, level, queue, callers, due, output,
                 calls, history>>

\* The look at spdlog::thread_pool() ...
InitializeCheck ==
  /\ init = "none"
  /\ init' = IF pool = 0 THEN "create" ELSE "logger"
  /\ UNCHANGED <<env, pool, tp, name, now, level, queue, callers, due, output,
                 calls, history>>

\* ... and init_thread_pool(), which replaces whatever pool there is by now,
\* and destroys it unless a caller still posts to it.
InitializePool ==
  /\ init = "create"
  /\ pool' = pool + 1
  /\ init' = IF pool = 0 \/ Held(pool) THEN "logger" ELSE "join"
  /\ UNCHANGED <<env, tp, name, now, level, queue, callers, due, output, calls,
                 history>>

\* Under the mutex of the pool: its destructor joins the worker.
InitializeJoin ==
  /\ init = "join" /\ Joinable(pool - 1)
  /\ init' = "logger"
  /\ UNCHANGED <<env, pool, tp, name, now, level, queue, callers, due, output,
                 calls, history>>

InitializeLogger ==
  /\ init = "logger"
  /\ tp' = [tp EXCEPT ![Default] = pool]
  /\ name' = [name EXCEPT ![Default] = <<"process">>]
  /\ level' = ToSpdlogLevel(FromSpdlogLevel(
                ToSpdlogLevel(ResolveLogLevelFromEnv(env, default_log_level))))
  /\ init' = "ready"
  /\ UNCHANGED <<env, pool, now, queue, callers, due, output, calls, history>>

-----------------------------------------------------------------------------
(* XLOG_*.                                                                 *)

SetLoggerLevel(lv) ==
  /\ GetInstance /\ calls < MaxCalls
  /\ calls' = calls + 1
  /\ level' = ToSpdlogLevel(lv)
  /\ overtaken' = {t \in Threads : pc[t] = "log"}
  /\ UNCHANGED <<setup, now, queue, callers, due, output, posted, evicted,
                 rejected, mark, raced>>

\* A macro of level lv that is compiled in.
Site(lv) ==
  \E n \in 1..6 : XLOG_Sites[n].level = lv /\ XLOG_Site(TRUE, ActiveLevel, n)

\* The gate of the stream macros; the message is built after it.
StreamGate(t, lv) ==
  /\ GetInstance /\ pc[t] = "idle" /\ calls < MaxCalls
  /\ Site(lv) /\ ShouldLog(level, lv)
  /\ calls' = calls + 1
  /\ pc' = [pc EXCEPT ![t] = "stream"]
  /\ msg' = [msg EXCEPT ![t] = Record(Default, t, calls + 1, ToSpdlogLevel(lv))]
  /\ UNCHANGED <<setup, now, level, queue, held, due, output, history>>

\* Faulty form of StreamLog: the level is not looked at again.
StreamLogUnchecked(t) ==
  /\ pc[t] = "stream"
  /\ pc' = [pc EXCEPT ![t] = "log"]
  /\ UNCHANGED <<setup, now, level, queue, held, msg, due, output, calls, history>>

\* Log() after the gate: spdlog looks at the level, which may have changed.
StreamLog(t) ==
  /\ pc[t] = "stream"
  /\ IF AtLeast(msg[t].level, level)
     THEN pc' = [pc EXCEPT ![t] = "log"] /\ UNCHANGED msg
     ELSE pc' = [pc EXCEPT ![t] = "idle"] /\ msg' = [msg EXCEPT ![t] = << >>]
  /\ UNCHANGED <<setup, now, level, queue, held, due, output, calls, history>>

\* XLOG_INFO(...) and the like: spdlog looks at the level; a call below it has
\* no effect.
Xlog(t, lv) ==
  /\ GetInstance /\ pc[t] = "idle" /\ calls < MaxCalls
  /\ Site(lv) /\ LogCase(lv) /\ ShouldLog(level, lv)
  /\ calls' = calls + 1
  /\ pc' = [pc EXCEPT ![t] = "log"]
  /\ msg' = [msg EXCEPT ![t] = Record(Default, t, calls + 1, ToSpdlogLevel(lv))]
  /\ UNCHANGED <<setup, now, level, queue, held, due, output, history>>

\* Past the check the text is formatted and posted, whatever the level is now.
LogPost(t) ==
  /\ pc[t] = "log"
  /\ XlogPost(msg[t])
  /\ pc' = [pc EXCEPT ![t] = "idle"] /\ msg' = [msg EXCEPT ![t] = << >>]
  /\ overtaken' = overtaken \ {t}
  /\ UNCHANGED <<setup, now, level, held, due, output, calls, rejected, mark, raced>>

\* logger_->flush(): a flush message under the logger's own policy.
Terminate(t) ==
  /\ GetInstance /\ pc[t] = "idle" /\ calls < MaxCalls
  /\ calls' = calls + 1
  /\ XlogPost(FlushOf(Default))
  /\ mark' = [mark EXCEPT ![Default] = posted[Default]]
  /\ UNCHANGED <<setup, now, level, callers, due, output, rejected, raced, overtaken>>

-----------------------------------------------------------------------------
(* The data loggers.                                                       *)

FileName(d) == CreateLogFileName(Prefix[d], <<"path">>, now)

\* The constructor.  async_factory creates the pool if there is none; a name
\* that is taken makes it throw.  It waits for the mutex of the pool, and for
\* that of the registry, which the periodic flush holds until it has reached
\* every logger.
Construct(d) ==
  /\ name[d] = NoName /\ init # "join" /\ due = {}
  /\ \A l \in Loggers : name[l] # FileName(d)
  /\ name' = [name EXCEPT ![d] = FileName(d)]
  /\ pool' = IF pool = 0 THEN 1 ELSE pool
  /\ tp' = [tp EXCEPT ![d] = pool']
  /\ raced' = IF init = "create" THEN raced \cup {d} ELSE raced
  /\ UNCHANGED <<env, init, now, level, queue, callers, due, output, calls,
                 posted, evicted, rejected, mark, overtaken>>

\* A constructor whose file cannot be opened throws when the pool is created
\* already; one that is not the first to need a pool changes nothing.
ConstructThrows(d) ==
  /\ name[d] = NoName /\ init # "join" /\ pool = 0
  /\ pool' = 1
  /\ UNCHANGED <<env, init, tp, name, now, level, queue, callers, due, output,
                 calls, history>>

\* A call of d that posts m: it needs the pool.  Without one a row is reported
\* to stderr and a flush, in spdlog 1.9.2, throws.
Call(d, m) ==
  /\ name[d] # NoName /\ pc[d] = "idle" /\ calls < MaxCalls
  /\ calls' = calls + 1
  /\ IF PoolAlive(tp[d])
     THEN /\ pc' = [pc EXCEPT ![d] = "post"]
          /\ held' = [held EXCEPT ![d] = tp[d]]
          /\ msg' = [msg EXCEPT ![d] = m]
          /\ UNCHANGED rejected
     ELSE rejected' = rejected \cup {d} /\ UNCHANGED callers
  /\ UNCHANGED <<setup, now, level, queue, due, output, posted, evicted, mark,
                 raced, overtaken>>

\* CsvLogger::LogData(): no fields, no row.
LogData(d, fields) == fields > 0 /\ Call(d, Record(d, d, calls + 1, "info"))

\* EventLogger: LogEvent() is like LogData(); LogInfo(), LogWarn() and
\* LogFatal() log any text, at levels that nothing here tells apart.
LogEvent(d, fields) == fields > 0 /\ Call(d, Record(d, d, calls + 1, "info"))
LogText(d) == Call(d, Record(d, d, calls + 1, "info"))

Flush(d) == Call(d, FlushOf(d))

\* Nobody else keeps the pool that d posts to.
LastHolder(d) == held[d] # pool /\ \A c \in Callers \ {d} : held[c] # held[d]

\* The message is posted with the block policy of async_factory.
Post(d) ==
  /\ pc[d] = "post"
  /\ PostBlock(held[d], msg[d])
  /\ mark' = IF msg[d].kind = "flush" THEN [mark EXCEPT ![d] = posted[d]] ELSE mark
  /\ pc' = [pc EXCEPT ![d] = IF LastHolder(d) THEN "join" ELSE "idle"]
  /\ held' = [held EXCEPT ![d] = 0]
  /\ msg' = [msg EXCEPT ![d] = << >>]
  /\ UNCHANGED <<setup, now, level, due, output, calls, rejected, raced, overtaken>>

\* Who lets a replaced pool go last joins its worker.
Join(d) ==
  /\ pc[d] = "join" /\ Joinable(tp[d])
  /\ pc' = [pc EXCEPT ![d] = "idle"]
  /\ UNCHANGED <<setup, now, level, queue, held, msg, due, output, calls, history>>

-----------------------------------------------------------------------------
(* flush_every(1s): a thread of the registry flushes every registered      *)
(* logger, one after the other, under the logger's own policy.             *)

Tick ==
  /\ calls < MaxCalls
  /\ calls' = calls + 1
  /\ now' \in 0..MaxTime /\ now' # now
  /\ due' = IF Ready /\ due = {} THEN {l \in Loggers : name[l] # NoName} ELSE due
  /\ UNCHANGED <<setup, level, queue, callers, output, history>>

PeriodicFlush(l) ==
  /\ l \in due
  /\ due' = due \ {l}
  /\ IF ~PoolAlive(tp[l]) THEN UNCHANGED <<queue, posted, evicted>>
     ELSE IF l = Default THEN PostOverrun(tp[l], FlushOf(l))
     ELSE PostBlock(tp[l], FlushOf(l))
  /\ UNCHANGED <<setup, now, level, callers, output, calls, rejected, mark, raced,
                 overtaken>>

-----------------------------------------------------------------------------
InitStep == InitializeCheck \/ InitializePool \/ InitializeJoin \/ InitializeLogger

XlogCall(t) == \/ \E lv \in XlogLevels : Xlog(t, lv) \/ StreamGate(t, lv)
               \/ Terminate(t)

DataCall(d) == \/ Construct(d) \/ ConstructThrows(d) \/ Flush(d) \/ LogText(d)
               \/ \E fields \in 0..1 : LogData(d, fields) \/ LogEvent(d, fields)

\* All calls are made and all messages handled.
Idle == calls = MaxCalls /\ UNCHANGED vars

Next ==
  \/ InitStep
  \/ \E lv \in XlogLevels : SetLoggerLevel(lv)
  \/ \E t \in Threads : XlogCall(t) \/ StreamLog(t) \/ LogPost(t)
  \/ \E d \in Data : DataCall(d) \/ Post(d) \/ Join(d)
  \/ Tick \/ \E l \in Loggers : PeriodicFlush(l)
  \/ \E g \in 1..2 : WorkerStep(g)
  \/ Idle

(* A thread inside an XLOG_* call runs on; nothing else is promised to it. *)
Spec == /\ Init /\ [][Next]_vars
        /\ WF_vars(InitStep)
        /\ \A t \in Threads : WF_vars(StreamLog(t) \/ LogPost(t))

(* Each pool's worker, the callers and the flush thread are scheduled.     *)
Scheduled == /\ \A g \in 1..2 : WF_vars(WorkerStep(g))
             /\ \A d \in Data : WF_vars(Post(d) \/ Join(d))
             /\ \A l \in Loggers : WF_vars(PeriodicFlush(l))

-----------------------------------------------------------------------------
(* Properties.                                                             *)

InQueues == UNION {ToSet(queue[g]) : g \in 1..2}

\* The records of logger l in a set of messages, and their numbers.
Records(S, l) == {m \in S : m.kind = "log" /\ m.from = l}
IdsOf(S, l)  == {m.id : m \in Records(S, l)}
Queued(l)    == IdsOf(InQueues, l)
Written(l)   == IdsOf(ToSet(written[l]), l)
Evicted(l)   == IdsOf(evicted, l)
OnDisk(l)    == IdsOf(ToSet(SubSeq(written[l], 1, disk[l])), l)
Overrun(l)   == \E m \in evicted : m.from = l

Message == [kind : {"log", "flush"}, from : Loggers, by : Callers \cup {Default},
            id : 0..MaxCalls, level : ToSet(SpdlogLevels)]

\* Types; no queue exceeds its size, and a caller holds a pool while it posts.
TypeOK ==
  /\ init \in {"none", "create", "join", "logger", "ready"} /\ now \in 0..MaxTime
  /\ level \in ToSet(SpdlogLevels) /\ pool \in 0..2
  /\ \A g \in 0..2 : queue[g] \in Seq(Message) /\ Len(queue[g]) <= QueueSize
  /\ tp \in [Loggers -> 0..2] /\ due \subseteq Loggers
  /\ pc \in [Callers -> {"idle", "stream", "log", "post", "join"}]
  /\ \A c \in Callers : (pc[c] = "post") <=> (held[c] # 0)
  /\ \A l \in Loggers : written[l] \in Seq(Message) /\ disk[l] \in 0..Len(written[l])
  /\ calls \in 0..MaxCalls /\ overtaken \subseteq Threads

\* "One worker thread keeps log ordering deterministic": the records of one
\* thread reach the sinks in the order of its calls, and what an overrun loses
\* or the sinks have is older than what is still queued.
LoggerOrder ==
  \A l \in Loggers :
    /\ \A i, j \in DOMAIN written[l] :
         i < j /\ written[l][i].by = written[l][j].by
           => written[l][i].id < written[l][j].id
    /\ \A w \in Records(ToSet(written[l]) \cup evicted, l),
          q \in Records(InQueues, l) :
         w.by = q.by => w.id < q.id

\* No record vanishes: each one posted is queued, in the sinks, or was the
\* oldest of a queue that an XLOG_* call or a flush of the DefaultLogger
\* overran, and only one of these.  In particular none is posted through a
\* DefaultLogger whose logger_ is not assigned yet.
EveryRecordAccounted ==
  \A l \in Loggers :
    /\ posted[l] = Queued(l) \cup Written(l) \cup Evicted(l)
    /\ Written(l) \cap Evicted(l) = {}

\* A data logger loses its pool only if it was constructed while Initialize()
\* of the DefaultLogger was between its look at the pool and the creation of
\* one: otherwise the pool is shared.
OrphanedOnlyByRace == rejected \subseteq raced

\* A record of a level that is off now enters the queue only if its Log() was
\* past spdlog's check, between the check and the queue, when the level was
\* set: not if a stream message was being built then, and not after one such
\* record of the thread.  None enters below the compile-time floor.
LevelHonoured ==
  [][posted'[Default] # posted[Default] =>
       LET m == Last(queue'[tp[Default]])
       IN  /\ AtLeast(m.level, level) \/ m.by \in overtaken
           /\ FromSpdlogLevel(m.level) >= ActiveLevel]_vars

\* "a slow disk or console never stalls a hot loop": once the DefaultLogger is
\* initialized, XLOG_* returns although the worker may never run again.  What
\* waits for a worker gets on if it runs: the initialization, which may join
\* the worker of a pool it replaces, and a data logger that needs room or joins
\* that worker.
PostsReturn ==
  /\ \A t \in Threads : (pc[t] # "idle") ~> (pc[t] = "idle")
  /\ Scheduled => /\ (init # "none") ~> Ready
                  /\ \A d \in Data : (pc[d] # "idle") ~> (pc[d] = "idle")

\* A flush comes after what was posted before it and is lost only to an
\* overrun: once no flush of a logger is queued any more and none was evicted,
\* each record posted before its last Flush() or Terminate() is on disk or was
\* evicted itself.
FlushHonoured ==
  \A l \in Loggers :
    \/ mark[l] \subseteq OnDisk(l) \cup Evicted(l)
    \/ \E m \in InQueues \cup evicted : m.kind = "flush" /\ m.from = l

\* For the callers all pools, policies and threads are one log: records wait,
\* each poster's in order, until they are written once or lost once, and only
\* a post of the DefaultLogger loses any.
LogRecord == {m \in Message : m.kind = "log"}
Lossy == INSTANCE LossyLog WITH
           Overrunning <- {Default}, Entries <- LogRecord,
           pending <- {m \in InQueues : m.kind = "log"}, sunk <- written,
           durable <- disk, lost <- {m \in evicted : m.kind = "log"}
ImplementsLossyLog == Lossy!Spec

ErrorQueued(k) ==
  \E m \in ToSet(queue[tp[Default]]) :
    m.from = Default /\ m.id = k /\ AtLeast(m.level, "err")

\* What was posted before a Flush() or Terminate() reaches the disk, unless
\* an overrun lost a message of that logger; an error of the DefaultLogger
\* reaches it without either ("Flush errors promptly"), unless it was evicted.
FlushReachesDisk ==
  Scheduled =>
    /\ \A l \in Loggers : (mark[l] # {}) ~> (mark[l] \subseteq OnDisk(l) \/ Overrun(l))
    /\ \A k \in 1..MaxCalls :
         ErrorQueued(k) ~> (k \in OnDisk(Default) \cup Evicted(Default))

(* A statement of the sources that the code does not keep.                *)

\* "Flush() posts a sink flush so the worker writes out what's queued": when
\* no message of a data logger with a living pool is left in the queue, the
\* rows posted before its last Flush() are on disk.
FlushWritesOut ==
  \A d \in Data :
    /\ tp[d] = pool
    /\ \A g \in 1..2 : \A m \in ToSet(queue[g]) : m.from # d
    => mark[d] \subseteq OnDisk(d)
=============================================================================
