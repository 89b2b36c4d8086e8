----------------------------- MODULE RingBuffer -----------------------------
(***************************************************************************)
(* xmotion::RingBuffer<T, N>: the general-purpose circular buffer.         *)
(*                                                                         *)
(* Every member function holds buffer_mutex_ from its first line to its    *)
(* return.  The mutex is modelled, and a burst is a loop of steps under    *)
(* it, one per element, so that what the mutex is there for can be stated. *)
(* A single-element Read or Write is the burst of one: the same test, the  *)
(* same copy, the same count.                                              *)
(*                                                                         *)
(* The indices are std::size_t and run freely: they wrap at IndexMod (2^64 *)
(* in the code, a small power of two here, so that the wrap happens).      *)
(***************************************************************************)
EXTENDS Integers, Sequences

CONSTANTS N,               \* the template argument: a power of two
          IndexMod,        \* 2^(bits of std::size_t)
          Values,          \* the elements
          MaxBurst,        \* bound on the elements asked for in one call
          Threads,
          NoThread, Unset  \* the free mutex; an element never written

ASSUME NAssumption ==
  /\ N \in {2^k : k \in 0..IndexMod} /\ N \in Nat \ {0}
  /\ IndexMod \in Nat /\ IndexMod % N = 0 /\ IndexMod > N
ASSUME BufferAssumption ==
  /\ MaxBurst \in Nat
  /\ NoThread \notin Threads /\ Unset \notin Values

VARIABLES
  write_index, read_index,  \* write_index_, read_index_
  enable_overwrite,         \* enable_overwrite_, never assigned again
  buffer,                   \* buffer_, uninitialised by the constructor
  lock,                     \* holder of buffer_mutex_
  pc,                       \* the call each thread is in
  asked,                    \* history: the number of elements it asked for
  count,                    \* that number, clamped as the code does
  data,                     \* the elements it has copied so far
  before,                   \* history: the queue when it took the mutex
  result                    \* history: the number the last call asked for, and
                            \* the elements it was given or stored

members == <<write_index, read_index, enable_overwrite, buffer>>
callers == <<lock, pc, asked, count, data, before>>
vars    == <<members, callers, result>>

Returned(n, s) == [asked |-> n, given |-> s]
NoResult       == Returned(0, << >>)

Init ==
  /\ write_index = 0 /\ read_index = 0
  /\ enable_overwrite \in BOOLEAN
  /\ buffer = [s \in 0..(N - 1) |-> Unset]
  /\ lock = NoThread
  /\ pc = [t \in Threads |-> "idle"]
  /\ asked = [t \in Threads |-> 0] /\ count = [t \in Threads |-> 0]
  /\ data = [t \in Threads |-> << >>]
  /\ before = [t \in Threads |-> << >>]
  /\ result = NoResult

-----------------------------------------------------------------------------
(* Index arithmetic.                                                       *)

\* index & size_mask_
Mask(i) == i % N

\* Faulty form of Inc: the index is masked when it is advanced.
IncMasked(i) == Mask(i + 1)

\* ++index
Inc(i) == (i + 1) % IndexMod

IsEmpty == read_index = write_index

\* Faulty form of IsFull: one element too early.
IsFullEarly == Mask(Inc(Inc(write_index))) = Mask(read_index)

IsFull == Mask(Inc(write_index)) = Mask(read_index)

GetOccupiedSize == Mask((write_index - read_index) % IndexMod)

GetFreeSize == N - 1 - GetOccupiedSize

\* What the buffer holds, oldest first, by the indices alone.
Queue == [k \in 1..GetOccupiedSize |->
            buffer[Mask((read_index + k - 1) % IndexMod)]]

-----------------------------------------------------------------------------
(* The mutex and the bursts.                                               *)

\* Faulty form of Acquire: the call does not take the mutex.
AcquireUnlocked(t, call, n, clamped) ==
  /\ pc[t] = "idle"
  /\ pc' = [pc EXCEPT ![t] = call]
  /\ asked' = [asked EXCEPT ![t] = n]
  /\ count' = [count EXCEPT ![t] = clamped]
  /\ before' = [before EXCEPT ![t] = Queue]
  /\ result' = NoResult
  /\ UNCHANGED <<members, lock, data>>

\* A thread takes the mutex for a call on n elements, clamped.
Acquire(t, call, n, clamped) ==
  /\ pc[t] = "idle"
  /\ lock = NoThread
  /\ lock' = t
  /\ pc' = [pc EXCEPT ![t] = call]
  /\ asked' = [asked EXCEPT ![t] = n]
  /\ count' = [count EXCEPT ![t] = clamped]
  /\ before' = [before EXCEPT ![t] = Queue]
  /\ result' = NoResult
  /\ UNCHANGED <<members, data>>

\* Return: the lock guard releases the mutex.
Return(t) ==
  /\ lock' = NoThread
  /\ pc' = [pc EXCEPT ![t] = "idle"]
  /\ asked' = [asked EXCEPT ![t] = 0]
  /\ count' = [count EXCEPT ![t] = 0]
  /\ data' = [data EXCEPT ![t] = << >>]
  /\ before' = [before EXCEPT ![t] = << >>]
  /\ result' = Returned(asked[t], data[t])
  /\ UNCHANGED members

Copy(t, v) == data' = [data EXCEPT ![t] = Append(@, v)]

\* Faulty form of Done: one element past the caller's vector.
DoneLate(t) == Len(data[t]) > count[t]

Done(t) == Len(data[t]) = count[t]

\* Read(data, btr), n being btr clamped to data.size(); Read(T&) has n = 1.
Read(t, n) == Acquire(t, "read", n, n)

ReadStep(t) ==
  /\ pc[t] = "read"
  /\ ~Done(t) /\ ~IsEmpty
  /\ Copy(t, buffer[Mask(read_index)])
  /\ read_index' = Inc(read_index)
  /\ UNCHANGED <<write_index, enable_overwrite, buffer, lock, pc, asked,
                 count, before, result>>

ReadReturn(t) ==
  /\ pc[t] = "read"
  /\ Done(t) \/ IsEmpty
  /\ Return(t)

\* Peek(data, btp), n being min(btp, data.size()).
Peek(t, n) ==
  Acquire(t, "peek", n, IF n < GetOccupiedSize THEN n ELSE GetOccupiedSize)

PeekStep(t) ==
  /\ pc[t] = "peek"
  /\ ~Done(t)
  /\ Copy(t, buffer[Mask((read_index + Len(data[t])) % IndexMod)])
  /\ UNCHANGED <<members, lock, pc, asked, count, before, result>>

PeekReturn(t) ==
  /\ pc[t] = "peek"
  /\ Done(t)
  /\ Return(t)

\* Write(new_data, btw), n being btw clamped to new_data.size(); Write(T) has
\* n = 1.
Write(t, n) == Acquire(t, "write", n, n)

\* One round of the loop; a full buffer gives up its oldest element.
WriteStep(t, v) ==
  /\ pc[t] = "write"
  /\ ~Done(t)
  /\ IsFull => enable_overwrite
  /\ read_index' = IF IsFull THEN Inc(read_index) ELSE read_index
  /\ buffer' = [buffer EXCEPT ![Mask(write_index)] = v]
  /\ write_index' = Inc(write_index)
  /\ Copy(t, v)
  /\ UNCHANGED <<enable_overwrite, lock, pc, asked, count, before, result>>

\* Faulty form of WriteReturn: a refused write waits for room.
WriteReturnWaits(t) ==
  /\ pc[t] = "write"
  /\ \/ Done(t) /\ Return(t)
     \/ ~Done(t) /\ IsFull /\ ~enable_overwrite /\ UNCHANGED vars

\* Faulty form of WriteReturn: a full buffer ends the loop in either mode.
WriteReturnFull(t) ==
  /\ pc[t] = "write"
  /\ Done(t) \/ IsFull
  /\ Return(t)

WriteReturn(t) ==
  /\ pc[t] = "write"
  /\ Done(t) \/ (IsFull /\ ~enable_overwrite)
  /\ Return(t)

\* PeekAt(data, n) and Reset() do all they do in one locked step.
PeekAt(n) ==
  /\ lock = NoThread
  /\ result' = Returned(1, IF n < GetOccupiedSize
                             THEN <<buffer[Mask((read_index + n) % IndexMod)]>>
                             ELSE << >>)
  /\ UNCHANGED <<members, callers>>

Reset ==
  /\ lock = NoThread
  /\ write_index' = 0 /\ read_index' = 0
  /\ result' = NoResult
  /\ UNCHANGED <<enable_overwrite, buffer, callers>>

-----------------------------------------------------------------------------
CallStep(t) == \/ ReadStep(t) \/ ReadReturn(t)
               \/ PeekStep(t) \/ PeekReturn(t)
               \/ \E v \in Values : WriteStep(t, v)
               \/ WriteReturn(t)

Next ==
  \/ \E t \in Threads, n \in 0..MaxBurst : Read(t, n) \/ Peek(t, n) \/ Write(t, n)
  \/ \E t \in Threads : CallStep(t)
  \/ \E n \in 0..MaxBurst : PeekAt(n)
  \/ Reset

Spec == Init /\ [][Next]_vars

\* A thread inside a call keeps running.
FairSpec == Spec /\ \A t \in Threads : WF_vars(CallStep(t))

-----------------------------------------------------------------------------
(* Properties.                                                             *)

\* Types of the members and locals; no call copies more elements than the
\* caller's vector was clamped to.
TypeOK ==
  /\ write_index \in 0..(IndexMod - 1) /\ read_index \in 0..(IndexMod - 1)
  /\ enable_overwrite \in BOOLEAN
  /\ buffer \in [0..(N - 1) -> Values \cup {Unset}]
  /\ lock \in Threads \cup {NoThread}
  /\ pc \in [Threads -> {"idle", "read", "peek", "write"}]
  /\ asked \in [Threads -> 0..MaxBurst] /\ count \in [Threads -> 0..MaxBurst]
  /\ \A t \in Threads : Len(data[t]) <= count[t]

\* The four size queries tell the same story, after any number of overwrites
\* and across the wrap of the indices, although IsEmpty compares whole indices
\* and the others masked ones: the distance of the indices never leaves 0..N-1.
QueriesAgree ==
  /\ IsEmpty <=> GetOccupiedSize = 0
  /\ IsFull <=> GetFreeSize = 0
  /\ (write_index - read_index) % IndexMod = GetOccupiedSize

Suffix(s, k) == IF Len(s) <= k THEN s ELSE SubSeq(s, Len(s) - k + 1, Len(s))

\* A burst is not torn by another thread: what it has copied so far and what
\* the buffer holds now account for exactly what the buffer held when the call
\* took the mutex.
BurstAtomic ==
  \A t \in Threads :
    /\ pc[t] = "read" => data[t] \o Queue = before[t]
    /\ pc[t] = "peek" => Queue = before[t]
                         /\ data[t] = SubSeq(Queue, 1, Len(data[t]))
    /\ pc[t] = "write" => Queue = Suffix(before[t] \o data[t], N - 1)

\* RingBuffer is a bounded queue whose calls take effect at once, at their
\* return, and give or store as many elements as were asked for: fewer only if
\* the buffer runs empty, or full with overwriting disabled.
Buffer == INSTANCE BoundedBuffer WITH
            Limit <- N - 1, mode <- enable_overwrite,
            queue <- IF lock = NoThread THEN Queue ELSE before[lock],
            result <- result
ImplementsBuffer == Buffer!Spec

\* Every burst ends, full or empty buffer or not, and lets the others go on.
BurstsEnd == \A t \in Threads : (lock = t) ~> (lock = NoThread)
=============================================================================
