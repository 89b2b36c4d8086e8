# A TLA+ verification of xmSigma

xmSigma is the foundation library of the xMotion family: logging (with a hard
real-time path), a general-purpose ring buffer, serialization helpers and value
types. This directory holds TLA+ models of the parts that keep state and of the
pure functions, the TLC configurations that check them and TLAPS proofs about
every component that keeps state.

## 1. Inventory

| Component | State | Operations | Hard behaviour |
|---|---|---|---|
| `RtLogger` (`rt_logger.hpp`, `rt_logger.cpp`) | `head_`, `tail_`, `ring_`, `dropped_`, `min_level_`, `running_`, a drain thread, a sink | `Log`, `SetLevel`, `Flush`, `DrainLoop`, destructor | one lock-free producer against the drain thread and the owner; plain slot fields protected by index comparisons only; full ring; shutdown |
| `MpscRtLogger` (`rt_logger_mpsc.*`) | `enqueue_pos_`, `dequeue_pos_`, a sequence number per cell, the rest as above | the same, from any number of producers | compare-and-swap races, stale positions, claims published out of order, spurious failures, capacity 1 |
| `RingBuffer<T, N>` (`ring_buffer.hpp`) | `buffer_`, free-running `write_index_` / `read_index_`, a mutex | single and burst `Read` / `Write`, `Peek`, `PeekAt`, `Reset`, size queries | overwriting while full, wrap of the indices, bursts against other threads |
| `CtrlLogger` (`ctrl_logger.*`) | the column maps, the current row, `head_added_` | add a name, add data by name or id, pass header, pass row | orders of calls: names added after a header, repeated headers |
| `DefaultLogger` / `LoggerVendorSpdlog` | level, async logger, the process-wide thread pool | `GetInstance`, `Log`, `ShouldLog`, level control, `Initialize`, `Terminate` | first use from several threads, one bounded queue shared with the data loggers, `overrun_oldest`, the level changing under a call, periodic and prompt flushes |
| `SpecializedLogger`, `CsvLogger`, `GlobalCsvLogger`, `EventLogger` | an async file logger each | log a row, `Flush` | rows and flushes queued to that pool under the `block` policy; creation of the pool; second-resolution file names |
| `logging_utils.hpp`, `logger_interface.hpp` | none | level from `XLOG_LEVEL`, paths | invalid input |
| `xlogger.hpp`, macros of `rt_logger.hpp` | none | one site per level, compile-time floor | copies that must agree |
| `serialization/` | none | byte order, checksums | widths |
| `types/` | none | none | none |

How they interact: the `XLOG_*` macros call `DefaultLogger`, which queues to
spdlog's thread pool; the data loggers (`CsvLogger`, `EventLogger`,
`CtrlLogger`) queue to the same pool; `RtLogger` and `MpscRtLogger` own their
ring, thread and synchronous sink and share only the level names, the level
environment variable and `FormatInto` with the rest. `RingBuffer` stands alone.

What makes each part correct:

* the hard real-time loggers: no data race on a slot; every accepted record
  reaches the sink once, whole and in order; a drop happens only when the ring
  is full and is counted; the producer never waits; `Flush()` means what it says
  and returns; shutdown loses nothing that was flushed;
* `RingBuffer`: a queue of `N - 1` elements, whose calls are atomic, whatever
  the indices have wrapped to;
* `CtrlLogger`: every row fits the header above it and no access is out of range;
* the asynchronous loggers: no record disappears without an overrun, each
  logger's records keep their order, once the `DefaultLogger` is initialized a
  caller of `XLOG_*` never waits for a worker, flushes reach the disk, nobody uses
  a half-initialized logger;
* the pure functions: they compute what they are named after, at every boundary
  of their widths, and the logging paths agree on what a level means.

The hazards behind these statements are listed, line by line, in `PROJECT.json`.

## 2. Modules

| Module | Models | Notes |
|---|---|---|
| `RtCommon` | capacity rounding, masking, levels, the shape of a record | shared by both rings |
| `RtLogger` | `RtLogger` | three threads: producer, drain, owner |
| `MpscRtLogger` | `MpscRtLogger` | any set of producers |
| `LogChannel` | abstract: a bounded FIFO channel that drops only when full | both loggers implement it |
| `RingBuffer` | `RingBuffer<T, N>` | the mutex, the loops, the wrap |
| `BoundedBuffer` | abstract: a bounded queue with atomic bursts | `RingBuffer` implements it |
| `CtrlLogger` | `CtrlLogger` | sequential |
| `AsyncLog` | `DefaultLogger`, the data loggers and the thread pool they share | composes the macros, the levels and the loggers |
| `LossyLog` | abstract: one log that writes each record once or loses it once | `AsyncLog` implements it |
| `Settings` | levels, `XLOG_LEVEL`, macros, file names | pure operators, used by `AsyncLog` |
| `RtWords` | rounding, masking and `FormatInto` lengths in fixed-width words | pure operators |
| `ByteOrder`, `Checksum` | `serialization/` | pure operators; `Checksum` also has the reference: division of polynomials |
| `ModLemmas`, `RingLemmas` | quotients, remainders and slots of a ring | lemmas, section 5 |
| `RtLoggerProofs`, `MpscRtLoggerProofs`, `RingBufferProofs`, `CtrlLoggerProofs`, `AsyncLogProofs`, `ByteOrderProofs` | theorems about the module each is named after | section 5 |
| `MCRtLogger`, `MCMpscRtLogger`, `MCMpscRetries`, `MCRingBuffer`, `MCCtrlLogger`, `MCAsyncLog` | values of the constants for TLC | `MCMpscRetries` adds a count of lost races |
| `MCAlgorithms` | the inputs of the pure operators and their properties | a state is an input |

Definitions marked "Faulty form of ..." are plausible bugs. They are not part of
any specification; each shows that a property fails once the definition after it
is replaced by it.

### RtLogger and MpscRtLogger

The variables carry the names of the members without the trailing underscore.
`pc`/`phead` (`pos` in the MPSC model) are the producer's place in `Log()` and
its local index, `dpc`/`dmeta` the drain thread's, `opc`/`seen` those of the
owner, who calls `Flush()` and at last the destructor. `sink` is what the sink
logger received, `synced` how much of it a sink flush covered. `calls`,
`filtered`, `accepted`, `mark` are history: they never guard a step except for
the bound on the number of calls.

Every load, store or exchange of an atomic member is a step of its own, with
exceptions that no other thread can tell apart: a load of an index by the only
thread that writes it is joined to the step before or after it, so is the level
filter, whose result concerns the calling thread only, and a drop is counted in
`dropped_`, which no code path reads, in the step that finds the ring full. The plain
fields of a slot are written and read in two steps (time and level; length and
text), which is enough to see a record torn between two calls. A record is the
identity of the `Log()` call that wrote it. `FormatInto` returns in any case,
with the text or with its diagnostic; either is one write here, and how long it
may be is a question for `RtWords`.

The steps interleave with sequential consistency. The code publishes and frees
slots with release stores that acquire loads read, so for the slot contents this
is what the C++ memory model gives. The relaxed accesses are to an index by its
only writer, to `min_level_` and `dropped_`, and, in the MPSC ring, to
`enqueue_pos_`, where a stale value is the same as a load that happened earlier
and the loop handles both, and to `dequeue_pos_`, whose store precedes nothing
but the sink's own mutex in what `Flush()` does next. `Flush()` compares two
loads whose order is unspecified; both orders are modelled.

`seq - pos` and `head - tail` are differences of 64-bit counters that would need
2^64 records to wrap; the model uses natural numbers. The class contracts are
part of the models: one producer for `RtLogger`, and no call in progress or to
come when the destructor starts.

### RingBuffer

`lock` is the holder of `buffer_mutex_`. A call takes it, copies element by
element and releases it at its return. `IndexMod` stands for 2^64, so the
indices really wrap. Single-element reads and writes are bursts of one.
`asked`, `before` and `result` are history: the number of elements a call asked
for, the queue when it took the mutex, and, of the last call, the number asked for
and the elements given or stored. `BoundedBuffer` is implemented with the queue
shown to the outside being `before` while the mutex is held: every call takes
effect at its return. Since `result` carries the number asked for, a burst that
stops too early, say a write that ends at a full buffer although it may overwrite,
is no step of `BoundedBuffer`.

### CtrlLogger

One action per member function; the early returns, which only write to
`std::cerr`, are `Ignored`. An access out of range sets `undefined`, after which
the model says nothing. `latest` is history: the last value set for each name.

### AsyncLog

The threads are those that use `XLOG_*`, one for each data logger, the worker of
each pool and the thread behind `flush_every`. `init` says how far the
initializer of `GetInstance()` has come; the look at `spdlog::thread_pool()`, the
creation of a pool and the rest of `Initialize()` are steps of their own, because
data loggers may be constructed in between. `level` is the spdlog level of the
`DefaultLogger`. `Log()` is two steps: spdlog's check of the level (`Xlog`, or
`StreamLog` after the gate of a stream macro, `StreamGate`), and, once the text is
formatted, the post (`LogPost`), which does not look at the level again. Another
thread may set the level between any two of them; `overtaken` holds the threads
to which that happened between check and post. A data logger's
call first takes hold of the pool, then posts, and waits in between while the
queue is full. A record is the number of the call that made it; `written` is
what the worker handed to a logger's sinks, `disk` how much of it was flushed.

spdlog is a library and is modelled from how it is used: a pool is a bounded
queue; posting to a full one waits (`block`) or drops its head
(`overrun_oldest`); a flush is a message like any other; loggers refer to the
pool weakly, so that a pool that is replaced lives on only while somebody posts
to it; who lets it go last destroys it and joins its worker, which ends when it
has emptied the queue (`InitializeJoin` when `init_thread_pool` is that one,
`Join` when a data logger is); the registry refuses a name that is in use and
its mutex is held during a periodic flush. Taking a message from the queue and
writing it are one step: the order of the messages is the same, but a message in
the worker's hands is not shown, so that "no flush is queued" means that none is
being carried out either. Left abstract: which
sinks a logger has, patterns, the contents of rows. A data logger's constructor
whose file cannot be opened throws after `async_factory` has created the pool
(`ConstructThrows`); one that is refused its name, or that throws when there is a
pool already, changes nothing and has no step, and neither has a call below the
level. `calls`, `posted`, `evicted`, `rejected`, `mark`, `raced` and `overtaken`
are history.

What a logger does that has lost its pool depends on the version of spdlog. A row
is reported on stderr. A `Flush()` throws to its caller in 1.9.2, the version the
documentation names, and is reported in others; `Call` has `rejected` for both, and
the caller is taken to carry on. In the thread behind `flush_every` the same
exception would leave the thread; `PeriodicFlush` skips such a logger. No property
depends on either.

### Pure functions

`Settings`, `RtWords`, `ByteOrder` and `Checksum` have operators named after the
functions. Environment variables are a function from names to texts, `strtol` is
tabulated on the texts in use. The twelve `#if` copies of the macros are twelve
entries of two tables (`XLOG_Sites`, `XLOG_RT_Sites`), each with the floor its
`#if` compares and the level it passes on, so that a slip in one copy is a wrong
entry; a stream macro stands under the `#if` of its formatted form and shares its
entry. A buffer is a sequence of bytes, a store returns
the bytes it writes. `ByteOrder` takes the number of values of a byte as a
constant, since TLC's integers have 32 bits: with 8 of them every 32-bit word has
12 bits and all can be tried. `RoundUp` and the masks take the width of `size_t`.

## 3. Runs

| Run | Shows |
|---|---|
| `rt` | no slot race, delivery whole and in order, every call accounted for, `Flush()` complete, flush-then-destroy loses nothing, `RtLogger` implements `LogChannel`; `Log()` returns although the drain thread may never run again; if that thread is scheduled, published records reach the sink and `Flush()` and the destructor return |
| `mpsc_safety` | the same safety as `rt` for two producers, with exclusive claims and order per producer; a producer goes round its claim loop only because another one claimed the position it was after |
| `mpsc_liveness` | delivery, `Flush()`, the destructor and every `Log()` call come to an end |
| `buffer` | in both modes the size queries agree, bursts are atomic, `RingBuffer` implements `BoundedBuffer`, and every burst ends |
| `ctrl_table` | rows fit their header, columns never move |
| `async` | no record disappears without an overrun or by way of a `DefaultLogger` that is not initialized yet, and the records of each thread keep their order; a data logger loses its pool only in one race; a record whose level is off when it enters the queue is one whose `Log()` was past spdlog's check, but had not posted yet, when the level was set (`LevelHonoured`); a flush covers what was posted before it, whatever an overrun lost beside it (`FlushHonoured`); pools, queues and policies together implement `LossyLog`; once the `DefaultLogger` is initialized `XLOG_*` returns without the worker; with it, the initialization ends although it may have to join the worker of a pool it replaces, and a waiting data logger gets on; a flush reaches the disk unless an overrun lost a message of its logger, and an error without any flush |
| `algorithms` | CRCs are the remainders they are named after, frames with their check test clean; loads undo stores; rounding, masking and distances are right in wrapping words; a formatted record fits its slot; `XLOG_*` and `XLOG_RT_*` let the same levels through in every build and environment; levels survive the way to spdlog and back |

Five runs show statements of the sources that the code does not keep:

| Run | Statement | What happens |
|---|---|---|
| `rt_stop` | the break in `DrainLoop()` means "stopped + drained" | a record published between the look at the ring and the look at `running_` stays behind |
| `mpsc_cap1` | a full ring drops the record | with one cell, a published record looks like a free cell and is overwritten |
| `mpsc_retries` | a claim retries at most once per competing producer | one competitor can win any number of times |
| `async_flush` | `Flush()` makes the worker write out what is queued | an `XLOG_*` call overruns the shared queue and evicts the row (or the flush), although data loggers post with `block` |
| `ctrl_range` | the out-of-range guard of `CtrlLogger` | data given by name skips it for a name added after the header |

`MpscRtLogger` reads its cell and `running_` in the same order as `RtLogger`, so
what `rt_stop` shows holds for it too. Two comments are out of date without
consequence: `sink_logger_` is "used ONLY by the drain thread"
(`rt_logger.hpp:156`), but `Flush()` uses it too, and it is the `_mt` sink's
mutex that makes this safe; "validity of id is not checked"
(`ctrl_logger.cpp:52`) stands above a function that does check it.

Met on the way, without a run of their own: a data logger constructed while
`Initialize()` is between its look at the pool and its own pool is left without
one: its later rows are lost with a message on stderr, and its flushes fail
(`OrphanedOnlyByRace` says that this is the only way); `RtLogger` has sinks of
its own, where `docs/design/logging.md:72` speaks of the same sinks as the async
logger; `XLOG_LEVEL=4junk` counts as 4, since what follows the number is not
looked at; a `ring_capacity` above half the range of `size_t` keeps the
constructor in its rounding loop for ever (`RingArithmetic` states both sides of
that boundary).

### Bounds

`RingCapacity = 2` is the smallest ring that wraps, fills and holds a record
behind another. Four calls (`MaxCalls`) are two laps, or a full ring with a drop
and a record after it, for the SPSC ring; four calls between two producers fill the MPSC ring and wrap it with
another claim pending. `mpsc_liveness` uses fewer calls, still enough to fill
the ring. Two levels let the filter refuse and pass; where the filter does not
matter there is one. `RingBuffer` needs no bound on the number of calls: with
`N = 4` and indices modulo 8 its state space is finite, and `MaxBurst = 4` is
one more than the buffer can hold. `CtrlLogger` has two names, so that one can
come after a header, and four lines: two headers with a row under each.
`AsyncLog` has two data loggers with one prefix, whose names collide while the
clock (two seconds, which may be set back) stands still, and a queue of two
messages: three calls (`MaxCalls`) fill it and overrun it, or leave a data
logger waiting for it, also on a pool that is replaced meanwhile. One thread
uses `XLOG_*`, and the initializer, the clock and whoever sets the level are
steps of others, so that the level changes while it builds a stream message or
formats its text, and it waits for an initializer that another thread runs. Two
such threads meet only in the queue, where a data logger's messages meet theirs
as well; the theorems hold for any number of them. `XLOG_LEVEL` is not set in
this run: what a text in it means is a question for `algorithms`, and
`SetLoggerLevel` reaches every level in use. In `algorithms` frames have up to
four bytes (`MaxFrame`) from `FrameBytes`: no bit, every bit, one bit at either
end, a mixture; a CRC is linear, so that more frames would show little.
The nine bytes of the catalogued check values are tried as well. `WordBits` is 6,
so that every capacity and every index fits in a state.
Symmetry is used for the producers in `mpsc_safety`, a run without liveness.

### Fairness

`RtLogger`'s liveness properties are checked under `StarvedSpec`, which
schedules the producer only: that is what a hard real-time thread above the
drain thread's priority can count on, and `Log()` needs no more. The others
assume `Scheduled`: the operating system also runs the drain thread and the
owner whenever they can run (weak fairness of each thread). Nothing is assumed
about who calls what. `FairSpec` of the other modules says the same of all
threads. In the MPSC
model an exchange that could succeed again and again succeeds at last (strong
fairness of `LogClaim`): `compare_exchange_weak` may fail spuriously but not for
ever. Since calls are bounded, producers cannot outrun `Flush()` or each other
for ever: `Flush()` and the MPSC `Log()` terminate once the others stop, as the
documentation asks.

`AsyncLog`'s `Spec` schedules only a thread that is inside an `XLOG_*` call: in
`Log()`, or in the initializer that its first call runs (`InitStep`). The first
part of `PostsReturn` is about calls made once the initializer has finished, and
holds against a worker that never runs again. The initializer itself may join the
worker of a pool it replaces and then waits for that worker's sinks; that it ends,
and whatever else depends on a worker, on a waiting data logger or on the flush
thread, assumes `Scheduled`, weak fairness of each. Nobody is obliged to make a
call.

## 4. What a run cannot show

A run shows its properties on the small instance of its `.cfg` file. The
theorems of section 5 show the safety properties, the action properties and the
four refinements for every value of the constants. Model-checked only are:

* the liveness properties (`PublishedDelivered`, `CallsReturn`,
  `ClaimedDelivered`, `BurstsEnd`, `PostsReturn`, `FlushReachesDisk`): TLAPS
  does not reason about `ENABLED`, hence not about fairness;
* the `Checksums` part of `SerializationExact`: a checksum is an induction over
  its input, and its register an exclusive or of words (`Bitwise`), neither of
  which the provers handle;
* `RingArithmetic` and `FormatFits`, for the same two reasons (the rounding loop
  is a recursion and 2^k an induction; masking is a bitwise and);
* the `ByteOrders` part of `SerializationExact`, and `PathsAgree`, as they stand:
  they are about the inputs that `MCAlgorithms` enumerates. What the first says of the operators is proved in
  `ByteOrderProofs`, what the second says of the macros, the levels and
  `XLOG_LEVEL` in `LevelPathsAgree`, for any floor and any environment.

The five runs that expect a violation show states that the code can reach, and
there is nothing to prove about them; the theorems about the MPSC ring exclude
the one-cell ring of `mpsc_cap1` by their hypothesis.

## 5. Proofs

None of the properties is inductive by itself. For each component `IInv`, at the
start of the module of its proofs, is the conjunction of the type invariant and of
the named parts that make it inductive; the proofs show `Init => IInv` and one
lemma per action that `IInv` is kept, and read the properties off it. Each `IInv`
was also checked by TLC on the instance of the component's run.

| Module | Theorems |
|---|---|
| `RtLoggerProofs` | `TypeCorrect` (`TypeOK`), `NoSlotRace` (`SlotExclusion`), `DeliveryInOrder` (`DeliveredInOrder`), `EveryCallCounted` (`Accounting`), `FlushIsComplete` (`FlushDrains`), `ShutdownAfterFlush` (`FlushedShutdown`), `RefinesChannel` (`ImplementsChannel`) |
| `MpscRtLoggerProofs` | `TypeCorrect` (`TypeOK`), `NoCellRace` (`CellExclusion`), `DeliveryPerProducer` (`PerProducerFifo`), `EveryCallCounted` (`Accounting`), `FlushIsComplete` (`FlushDrains`), `ShutdownAfterFlush` (`FlushedShutdown`), `RetriesAreProgress` (`LostRaceIsProgress`), `RefinesChannel` (`ImplementsChannel`) |
| `RingBufferProofs` | `TypeCorrect` (`TypeOK`), `SizeQueriesAgree` (`QueriesAgree`), `BurstsAreAtomic` (`BurstAtomic`), `RefinesBuffer` (`ImplementsBuffer`) |
| `CtrlLoggerProofs` | `TypeCorrect` (`TypeOK`), `ColumnsNeverMove` (`HeadersExtend`), `RowsUnderTheirHeader` (`RowMatchesHeader`) |
| `AsyncLogProofs` | `TypeCorrect` (`TypeOK`), `RecordsInOrder` (`LoggerOrder`), `NoRecordVanishes` (`EveryRecordAccounted`), `OrphansRaced` (`OrphanedOnlyByRace`), `LevelsHonoured` (`LevelHonoured`), `FlushesHonoured` (`FlushHonoured`), `RefinesLossyLog` (`ImplementsLossyLog`), `LevelPathsAgree` |
| `ByteOrderProofs` | `StoreLoad16`, `LoadStore16`, `StoreLoad32`, `LoadStore32`, `SignedLoads` |

Each of the first five has `Invariance` as well: `Spec => []IInv`.

**RtLogger.** Any capacity, levels and bound on the calls. The assumptions are
those of the modules: the rounded capacity is a positive natural number
(`RingAssumption`), the levels are log levels, the bound is a natural number.
That the rounding yields a power of two is not needed, since masking is used only
as the remainder. `IInv` adds how far the indices and the lengths of the histories
may be apart (`Indices`), that published slots hold what was accepted and that the
slot being written is filled half by half (`Contents`), that the sink is a prefix
of what was accepted and numbers grow (`History`), a balance of the counters
(`Counted`), and what `Flush()` has learnt at each of its steps
(`FlushProgress`). The key fact is `SlotsDiffer` in `RingLemmas`: positions less
than `Capacity` apart never share a slot, so the producer, who has seen room,
never writes a slot between `tail` and `head`.

**MpscRtLogger.** Any set of producers, and any capacity of at least two cells:
each theorem assumes `Capacity > 1`, because with one cell the claim protocol is
broken, which is what `mpsc_cap1` shows. `Laps` says what a cell's sequence tells
about the position that selects it: `i` while position `i` may claim or fills it,
`i + 1` once it is published. `Owners` gives every claimed, unpublished position
to the producer that claimed it. The part that the other proofs do not have is
`Candidates`, about values that may be stale: a position that a producer still
holds is never ahead of `enqueue_pos`, its cell is behind it only when the ring is
full, and if the exchange can still succeed, then the cell that was found free a
while ago still is, because nobody else can claim that position without moving
`enqueue_pos`. The refinement maps the claim to the moment of acceptance.

`RetriesAreProgress` is what is true of the claim loop where `RetriesBounded`
fails. It rests on `IInv` (`enqueue_pos` is the number of accepted records) and
on `StalePositions`: whatever a producer claimed in earlier calls lies before
the position it looks at now, and a position it found taken is behind
`enqueue_pos`. So whenever the exchange fails against a newer value, or the cell turns out to
be ahead, the record at that position belongs to another producer, and the
producer goes on with a later position: each lost race is charged to a different
accepted record of a competitor, which is lock-freedom without a bound on the
retries. Spurious failures are the only rounds left out; they end by fairness.

**RingBuffer.** Any buffer size, width of the indices, number of threads and
length of bursts. `NAssumption` states beside `N` being a power of two, which the
static assertion of the code demands, that `N` is a positive natural number: this
follows by an induction on the exponent that the provers do not do. `IInv` says
that the write index is never a lap ahead of the read index, across the wrap
(`Distance`), that the mutex is held by the one thread inside a call (`Mutex`), and
that a call keeps within what it found when it took the mutex and only a peek is
cut down to it beforehand (`Clamped`). In the
refinement a call's return maps to the whole operation of `BoundedBuffer`, which
is where `BurstAtomic` is needed: element by element the buffer went from
`before` to what the operation returns or leaves. That it went far enough follows
from the guards of the returns: a read ends short only when the queue is empty, and
a write only when overwriting is disabled and `before` with its elements is exactly
full.

**CtrlLogger.** Any names, values and number of lines. `Columns` says that the two
maps are inverses of each other, `RowData` that the row holds the latest value of
each name, and `HeaderLines` that headers show the names in the order of their
columns and that the last one is as wide as the row. `RowMatchesHeader` is an
action property: it follows from `IInv` at the step that passes a row.

**AsyncLog.** Any number of threads and data loggers, any queue size, number of
calls and seconds, and any environment. `Pools` says how `Initialize()` and the
constructors of data loggers can interfere: at most one pool is replaced, and only
the loggers created since the look at the pool are left behind. `Home` places every
message of a logger in the queue of its pool, which is why nothing can be ordered
wrongly across two queues, `QueueOrder` orders the records of one caller in a
queue and before the one it is about to post, and `Numbered` says that the number
of a call belongs to one record, which makes the account exact. The order is that
of each caller's records: between two threads there is none, because a stream
message is built between its call and its post. `RecordsInOrder` uses
`kAsyncWorkerThreads = 1`. `LevelsHonoured` needs two more parts: `PassedCheck`, that a record
between check and post is of a level that is on, unless its thread is in
`overtaken`, and `AboveFloor`, that it has passed the compile-time floor. Both
hold of any level a caller asks for, because a macro passes on one of the six
levels of the table and `Log()` ignores every other.

The last two results start from `StepEffects`: every step leaves the messages
alone, posts one (`Posting`), or is a worker's. `FlushHonoured` is not inductive
either: it says nothing of where the flush is while it is queued. `FlushPlace`
says that as long as the promise is not kept and no flush of the logger was
lost, one stands in a queue with no record of the mark behind it. A post keeps
this because its number is new, an overrun because it takes the first message or
the flush itself, and the worker that takes the flush redeems it: by `Home` the
records of the logger that are still queued are in that queue and behind the
flush, hence not of the mark, and by `EveryRecordAccounted` the others were
written, now to the disk, or evicted. `RefinesLossyLog` maps the queues to the
set of records in them: a post that overruns a record is `PostLosing`, a flush
that overruns one is `Lose`, a worker's step is `Write` or `Sync`, and a flush
that is posted or lost is a stutter. That what is lost or written is the oldest
record of its caller is `FirstIsOldest`, from `QueueOrder` within a queue and
`Home` across them. `LossyLog` restricts losses to posts of the `DefaultLogger`,
so it shows as well that no data logger ever evicts anything.

**ByteOrder.** Any even, positive number of values of a byte, 256 in the code,
where TLC can try full 32-bit words only of narrower bytes. The lemmas are about
quotients and remainders: a shift by two bytes is a shift by one, twice
(`NestedDiv`), and a number has one quotient and remainder (`DivUnique`).

## 6. Not modelled

Left out: the value types (`types/`: aliases and wrappers of floating-point
vectors), the helpers that build the log folder, the name of the text log file
and the process name (text without a decision that anything depends on), the
choice of sinks, and spdlog beyond what section 2 says of it. Builds without
`ENABLE_LOGGING` appear only in the macros' sites; there the loggers do nothing.
Weak memory effects beyond the argument in section 2 are not modelled. A crash
of the process loses what is queued or buffered by design; nothing is recovered
at a restart.

Not done: a bound on the retries of one MPSC `Log()` call in terms of the
competitors' records while the ring does not fill (`RetriesAreProgress` charges
each retry to a different record; counting them is an induction over the history),
and the safety of the prompt flush of errors, which `FlushReachesDisk` checks
together with its liveness.
