------------------------ MODULE SyslogConsumerProofs ------------------------
(***************************************************************************)
(* The safety properties of the syslog consumer hold for batches of any    *)
(* length, any chunk size and any number of workers, through failed        *)
(* connections and sends, Shutdown at any step, crashes and restarts.      *)
(***************************************************************************)
EXTENDS SyslogConsumer, FiniteSetTheorems, TLAPS

InChunk == pc \in {"dial", "add", "submit", "wait", "waiting", "advance"}

\* Where the handler stands: a chunk starts at a multiple of the chunk size.
Progress ==
  /\ pc = "down" => events = <<>> /\ startIndex = 0
  /\ startIndex <= Len(events)
  /\ pc = "idle" => startIndex = Len(events)
  /\ startIndex < Len(events) => startIndex % ChunkSize = 0
  /\ InChunk => startIndex < Len(events) /\ timestamp < events[ChunkEnd]
  /\ pc \in {"add", "submit"} => next \in Chunk

\* Record i of the batch has not been submitted yet.
ToSubmit(i) ==
  \/ pc \in {"head", "dial"} /\ i > startIndex
  \/ pc \in {"add", "submit"} /\ i >= next
  \/ pc \in {"wait", "waiting", "advance"} /\ i > ChunkEnd

\* What of the chunk has been submitted.
Submitted ==
  /\ \A i \in 1..MaxLen : ToSubmit(i) => task[i] = "none"
  /\ pc \in {"add", "submit"} =>
       \A i \in (startIndex + 1)..(next - 1) : task[i] # "none"
  /\ pc \in {"wait", "waiting"} => \A i \in Chunk : task[i] # "none"

Begun  == {i \in 1..MaxLen : task[i] # "none"}
Adding == IF pc = "submit" THEN 1 ELSE 0

\* The wait group counts every busy worker, and before Shutdown nothing else
\* that has not begun.
Counting ==
  /\ Cardinality(Busy) + Adding <= wg
  /\ stopping # "released" => wg <= Cardinality(Begun) + Adding
  /\ pc \in {"head", "dial", "advance"} /\ stopping # "released" => wg = 0

\* The position is where the last chunk ended, and no restart finds a later one.
Position ==
  /\ startIndex = 0 => timestamp = base
  /\ startIndex # 0 => timestamp = events[startIndex]
  /\ Alive => \A p \in points \ {NoEntry} : p <= timestamp

\* The records of finished chunks and those whose worker is done are settled.
Coverage ==
  stopping # "released" =>
    \A i \in DOMAIN events :
      /\ base < events[i]
      /\ i <= startIndex \/ task[i] = "done" \/ (pc = "advance" /\ i <= ChunkEnd)
      => i \in Settled \/ AtBoundary(i)

IInv == TypeOK /\ Progress /\ Submitted /\ Counting /\ Position /\ Coverage

LEMMA Sizes ==
  /\ MaxTime \in Nat /\ MaxLen \in Nat
  /\ ChunkSize \in Nat /\ ChunkSize > 0
  /\ NoEntry \notin Int
BY SizesAssumption

USE Sizes

-----------------------------------------------------------------------------
(* Batches, chunks and counts *)

LEMMA BatchFacts ==
  ASSUME NEW b \in Batches
  PROVE  /\ b \in Seq(1..MaxTime) /\ Len(b) \in 0..MaxLen
         /\ DOMAIN b = 1..Len(b)
         /\ \A i \in 1..Len(b) : b[i] \in 1..MaxTime
         /\ \A i, j \in 1..Len(b) : i <= j => b[i] <= b[j]
<1>1. PICK n \in 0..MaxLen : b \in [1..n -> 1..MaxTime]
  BY DEF Batches
<1>2. b \in Seq(1..MaxTime) /\ Len(b) = n /\ DOMAIN b = 1..n
  BY <1>1
<1>3. \A i, j \in DOMAIN b : i < j => b[i] <= b[j]
  BY DEF Batches
<1> QED
  BY <1>1, <1>2, <1>3

LEMMA EmptyIsBatch == <<>> \in Batches
<1>1. <<>> \in [1..0 -> 1..MaxTime]
  OBVIOUS
<1>2. 0 \in 0..MaxLen
  OBVIOUS
<1> QED
  BY <1>1, <1>2 DEF Batches

LEMMA ChunkFacts ==
  ASSUME TypeOK, startIndex < Len(events)
  PROVE  /\ ChunkEnd \in (startIndex + 1)..Len(events)
         /\ ChunkEnd < Len(events) => ChunkEnd = startIndex + ChunkSize
<1>1. Len(events) \in 0..MaxLen /\ startIndex \in 0..MaxLen
  BY BatchFacts DEF TypeOK
<1> QED
  BY <1>1 DEF ChunkEnd

LEMMA NextMultiple ==
  ASSUME NEW n \in Nat, n % ChunkSize = 0
  PROVE  (n + ChunkSize) % ChunkSize = 0
OBVIOUS

LEMMA CountFacts ==
  /\ IsFiniteSet(Busy) /\ IsFiniteSet(Begun)
  /\ Cardinality(Busy) \in Nat /\ Cardinality(Begun) \in Nat
  /\ Cardinality(Begun) <= MaxLen
  /\ \A n \in 1..MaxLen : n \notin Begun => Cardinality(Begun) < MaxLen
<1>1. IsFiniteSet(1..MaxLen) /\ Cardinality(1..MaxLen) = MaxLen
  BY FS_Interval
<1>2. Busy \in SUBSET (1..MaxLen) /\ Begun \in SUBSET (1..MaxLen)
  BY DEF Busy, Begun
<1>3. IsFiniteSet(Busy) /\ IsFiniteSet(Begun)
  BY <1>1, <1>2, FS_Subset
<1>4. Cardinality(Busy) \in Nat /\ Cardinality(Begun) \in Nat
  BY <1>3, FS_CardinalityType
<1>5. /\ Cardinality(Begun) <= MaxLen
      /\ Cardinality(1..MaxLen) = Cardinality(Begun) => 1..MaxLen = Begun
  BY <1>1, <1>2, FS_Subset
<1> QED
  BY <1>1, <1>3, <1>4, <1>5

\* A worker takes up its record.
LEMMA BusyJoins ==
  ASSUME TypeOK, NEW n \in 1..MaxLen, task[n] = "none",
         task' = [task EXCEPT ![n] = "running"]
  PROVE  /\ Cardinality(Busy') = Cardinality(Busy) + 1
         /\ Cardinality(Begun') = Cardinality(Begun) + 1
<1>1. Busy' = Busy \cup {n} /\ n \notin Busy
  BY DEF TypeOK, Busy
<1>2. Begun' = Begun \cup {n} /\ n \notin Begun
  BY DEF TypeOK, Begun
<1> QED
  BY <1>1, <1>2, CountFacts, FS_AddElement

\* A worker is done with its record.
LEMMA BusyLeaves ==
  ASSUME TypeOK, NEW n \in 1..MaxLen, n \in Busy,
         task' = [task EXCEPT ![n] = "done"]
  PROVE  /\ Cardinality(Busy') = Cardinality(Busy) - 1
         /\ Begun' = Begun
<1>1. Busy' = Busy \ {n}
  BY DEF TypeOK, Busy
<1>2. Begun' = Begun
  BY DEF TypeOK, Busy, Begun
<1> QED
  BY <1>1, <1>2, CountFacts, FS_RemoveElement

LEMMA InitEstablishes == Init => IInv
<1> SUFFICES ASSUME Init PROVE IInv
  OBVIOUS
<1> USE DEF Init
<1>1. Busy = {} /\ Begun = {} /\ Cardinality(Busy) = 0 /\ Cardinality(Begun) = 0
  BY FS_EmptySet DEF Busy, Begun, NoTasks
<1>2. TypeOK
  <2>1. task \in [1..MaxLen -> {"none", "running", "sending", "leaking", "done"}]
    BY DEF NoTasks
  <2>2. timestamp \in Times /\ base \in Times /\ wg \in 0..MaxLen
        /\ startIndex \in 0..MaxLen /\ next \in 1..(MaxLen + 1)
    BY DEF Times
  <2> QED
    BY <2>1, <2>2, EmptyIsBatch DEF TypeOK
<1>3. Progress /\ Submitted
  BY DEF Progress, Submitted, ToSubmit, InChunk, NoTasks
<1>4. Counting
  BY <1>1 DEF Counting, Adding
<1>5. Position /\ Coverage
  BY DEF Position, Alive, Coverage
<1> QED
  BY <1>2, <1>3, <1>4, <1>5 DEF IInv

-----------------------------------------------------------------------------
(* The process *)

LEMMA DieKeeps ==
  ASSUME IInv, Die
  PROVE  IInv'
<1> USE DEF Die
<1>1. Cardinality(Busy') = 0 /\ Cardinality(Begun') = 0
  <2>1. Busy' = {} /\ Begun' = {}
    BY DEF Busy, Begun, NoTasks
  <2> QED
    BY <2>1, FS_EmptySet
<1>2. TypeOK'
  <2>1. task' \in [1..MaxLen -> {"none", "running", "sending", "leaking", "done"}]
    BY DEF NoTasks
  <2>2. timestamp' \in Times /\ base' \in Times /\ wg' \in 0..MaxLen
        /\ startIndex' \in 0..MaxLen /\ next' \in 1..(MaxLen + 1)
    BY DEF Times
  <2>3. points' \subseteq Times \cup {NoEntry}
    BY DEF IInv, TypeOK
  <2> QED
    BY <2>1, <2>2, <2>3, EmptyIsBatch DEF TypeOK
<1>3. Progress' /\ Submitted'
  BY DEF Progress, Submitted, ToSubmit, InChunk, NoTasks
<1>4. Counting'
  BY <1>1 DEF Counting, Adding
<1>5. Position' /\ Coverage'
  BY DEF Position, Alive, Coverage
<1> QED
  BY <1>2, <1>3, <1>4, <1>5 DEF IInv

\* A step that changes no more than how far Shutdown has come.
LEMMA ShutdownKeeps ==
  ASSUME IInv, stopping' \in {stopping, "wg", "released"},
         stopping = "released" => stopping' = "released",
         UNCHANGED <<handler, workers, timestamp, points>>
  PROVE  IInv'
<1> USE DEF handler, workers
<1>1. TypeOK'
  BY DEF IInv, TypeOK
<1>2. Progress' /\ Submitted'
  BY DEF IInv, Progress, Submitted, ToSubmit, InChunk, ChunkEnd, Chunk
<1>3. Counting'
  BY DEF IInv, Counting, Adding, Busy, Begun
<1>4. Position' /\ Coverage'
  BY DEF IInv, Position, Alive, Coverage, Settled, AtBoundary, ChunkEnd
<1> QED
  BY <1>1, <1>2, <1>3, <1>4 DEF IInv

LEMMA StartKeeps ==
  ASSUME IInv, Start
  PROVE  IInv'
<1> USE DEF Start, workers
<1>1. TypeOK'
  BY DEF IInv, TypeOK, Times
<1>2. Progress' /\ Submitted'
  BY DEF IInv, Progress, Submitted, ToSubmit, InChunk
<1>3. Counting'
  BY DEF IInv, Counting, Adding, Busy, Begun
<1>4. Position'
  <2>1. \A p \in points' \ {NoEntry} : p = timestamp'
    OBVIOUS
  <2>2. timestamp' \in Int
    BY <1>1 DEF TypeOK, Times
  <2> QED
    BY <2>1, <2>2 DEF IInv, Progress, Position
<1>5. Coverage'
  BY DEF IInv, Progress, Coverage
<1> QED
  BY <1>1, <1>2, <1>3, <1>4, <1>5 DEF IInv

-----------------------------------------------------------------------------
(* HandleEvents and batchSend *)

LEMMA HandleEventsKeeps ==
  ASSUME IInv, HandleEvents
  PROVE  IInv'
<1> USE DEF HandleEvents
<1>0. Len(events') \in 1..MaxLen /\ DOMAIN events' = 1..Len(events')
  BY BatchFacts
<1>1. Cardinality(Busy') = 0 /\ Cardinality(Begun') = 0
  <2>1. Busy' = {} /\ Begun' = {}
    BY DEF Busy, Begun, NoTasks
  <2> QED
    BY <2>1, FS_EmptySet
<1>2. TypeOK'
  BY DEF IInv, TypeOK, NoTasks
<1>3. Progress' /\ Submitted'
  BY <1>0 DEF Progress, Submitted, ToSubmit, InChunk, NoTasks
<1>4. Counting'
  BY <1>1 DEF Counting, Adding
<1>5. Position'
  BY DEF IInv, Position, Alive
<1>6. Coverage'
  BY <1>0 DEF Coverage, NoTasks
<1> QED
  BY <1>2, <1>3, <1>4, <1>5, <1>6 DEF IInv

\* Steps of the handler that only move pc, within the loop or out of it.
LEMMA LoopKeeps ==
  ASSUME IInv, NextChunk \/ Return \/ Wait
  PROVE  IInv'
<1> USE DEF NextChunk, Return, Wait, workers
<1>0. Len(events) \in 0..MaxLen
  BY BatchFacts DEF IInv, TypeOK
<1>1. TypeOK'
  BY DEF IInv, TypeOK
<1>2. Progress'
  BY <1>0 DEF IInv, TypeOK, Progress, InChunk, ChunkEnd, Chunk
<1>3. Submitted'
  BY DEF IInv, Submitted, ToSubmit, ChunkEnd, Chunk
<1>4. Counting'
  BY DEF IInv, Counting, Adding, Busy, Begun
<1>5. Position' /\ Coverage'
  BY DEF IInv, Position, Alive, Coverage, Settled, AtBoundary, ChunkEnd
<1> QED
  BY <1>1, <1>2, <1>3, <1>4, <1>5 DEF IInv

LEMMA DialKeeps ==
  ASSUME IInv, Dial
  PROVE  IInv'
<1> USE DEF Dial
<1>0. /\ startIndex < Len(events) /\ startIndex \in Nat
      /\ Len(events) \in 0..MaxLen /\ DOMAIN events = 1..Len(events)
      /\ ChunkEnd \in (startIndex + 1)..Len(events)
  BY BatchFacts, ChunkFacts DEF IInv, TypeOK, Progress, InChunk
<1>1. TypeOK'
  <2>1. failed' \subseteq 1..MaxLen /\ next' \in 1..(MaxLen + 1)
    <3>1. Chunk \subseteq 1..MaxLen /\ startIndex + 1 \in 1..(MaxLen + 1)
      BY <1>0 DEF Chunk
    <3> QED
      BY <3>1 DEF IInv, TypeOK
  <2>2. connected' \in BOOLEAN
    BY DEF IInv, TypeOK
  <2> QED
    BY <2>1, <2>2 DEF IInv, TypeOK
<1>2. Progress'
  <2>1. ChunkEnd' = ChunkEnd
    BY DEF ChunkEnd
  <2>2. pc' = "add" => next' \in Chunk'
    BY <1>0, <2>1 DEF Chunk, IInv, Progress
  <2>3. pc' \in {"add", "advance"} /\ InChunk /\ Progress
    BY DEF IInv, InChunk
  <2> QED
    BY <1>0, <2>1, <2>2, <2>3 DEF Progress
<1>3. Submitted'
  BY <1>0 DEF IInv, TypeOK, Submitted, ToSubmit, ChunkEnd, Chunk
<1>4. Counting'
  BY DEF IInv, Counting, Adding, Busy, Begun
<1>5. Position'
  BY DEF IInv, Position, Alive
<1>6. Coverage'
  BY <1>0 DEF IInv, TypeOK, Coverage, Settled, AtBoundary, ChunkEnd, Chunk
<1> QED
  BY <1>1, <1>2, <1>3, <1>4, <1>5, <1>6 DEF IInv

LEMMA AddKeeps ==
  ASSUME IInv, Add
  PROVE  IInv'
<1> USE DEF Add
<1>0. wg + 1 \in 1..MaxLen
  <2>1. next \in 1..MaxLen /\ next \notin Begun
    <3>1. startIndex < Len(events) /\ next \in Chunk
      BY DEF IInv, Progress, InChunk
    <3>2. next \in 1..MaxLen
      BY <3>1, ChunkFacts, BatchFacts DEF IInv, TypeOK, Chunk
    <3> QED
      BY <3>2 DEF IInv, Submitted, ToSubmit, Begun
  <2> QED
    BY <2>1, CountFacts DEF IInv, TypeOK, Counting, Adding
<1>1. TypeOK'
  BY <1>0 DEF IInv, TypeOK
<1>2. Progress' /\ Submitted'
  BY DEF IInv, Progress, Submitted, ToSubmit, InChunk, ChunkEnd, Chunk
<1>3. Counting'
  BY <1>0, CountFacts DEF IInv, TypeOK, Counting, Adding, Busy, Begun
<1>4. Position' /\ Coverage'
  BY DEF IInv, Position, Alive, Coverage, Settled, AtBoundary, ChunkEnd
<1> QED
  BY <1>1, <1>2, <1>3, <1>4 DEF IInv

LEMMA SubmitKeeps ==
  ASSUME IInv, Submit
  PROVE  IInv'
<1> USE DEF Submit
<1>0. /\ startIndex < Len(events) /\ startIndex \in Nat
      /\ Len(events) \in 0..MaxLen /\ DOMAIN events = 1..Len(events)
      /\ ChunkEnd \in (startIndex + 1)..Len(events)
      /\ next \in (startIndex + 1)..ChunkEnd
      /\ task[next] = "none" /\ next \in 1..MaxLen
  <2>1. /\ startIndex < Len(events) /\ startIndex \in Nat
        /\ Len(events) \in 0..MaxLen /\ DOMAIN events = 1..Len(events)
        /\ ChunkEnd \in (startIndex + 1)..Len(events)
        /\ next \in (startIndex + 1)..ChunkEnd
    BY BatchFacts, ChunkFacts DEF IInv, TypeOK, Progress, InChunk, Chunk
  <2> QED
    BY <2>1 DEF IInv, Submitted, ToSubmit
<1>c. ChunkEnd' = ChunkEnd
  BY DEF ChunkEnd
<1>1. TypeOK'
  BY <1>0 DEF IInv, TypeOK
<1>2. Progress'
  <2>1. pc' \in {"add", "wait"} /\ InChunk /\ Progress
    BY DEF IInv, InChunk
  <2>2. pc' = "add" => next' \in Chunk'
    BY <1>0, <1>c DEF Chunk
  <2> QED
    BY <1>0, <1>c, <2>1, <2>2 DEF Progress
<1>3. Submitted'
  BY <1>0, <1>c DEF IInv, TypeOK, Submitted, ToSubmit, Chunk
<1>4. Counting'
  <2>1. Cardinality(Busy') = Cardinality(Busy) + 1
        /\ Cardinality(Begun') = Cardinality(Begun) + 1
    BY <1>0, BusyJoins DEF IInv
  <2>2. pc' \in {"add", "wait"}
    OBVIOUS
  <2> QED
    BY <2>1, <2>2, CountFacts DEF IInv, TypeOK, Counting, Adding
<1>5. Position'
  BY DEF IInv, Position, Alive
<1>6. Coverage'
  BY <1>0, <1>c DEF IInv, TypeOK, Coverage, Settled, AtBoundary
<1> QED
  BY <1>1, <1>2, <1>3, <1>4, <1>5, <1>6 DEF IInv

LEMMA SubmitFailsKeeps ==
  ASSUME IInv, SubmitFails
  PROVE  IInv'
<1> USE DEF SubmitFails
<1>0. /\ startIndex < Len(events) /\ startIndex \in Nat
      /\ Len(events) \in 0..MaxLen
      /\ ChunkEnd \in (startIndex + 1)..Len(events)
      /\ next \in (startIndex + 1)..ChunkEnd
  BY BatchFacts, ChunkFacts DEF IInv, TypeOK, Progress, InChunk, Chunk
<1>c. ChunkEnd' = ChunkEnd
  BY DEF ChunkEnd
<1>1. TypeOK'
  <2>1. failed' \subseteq 1..MaxLen
    BY <1>0 DEF IInv, TypeOK
  <2> QED
    BY <2>1 DEF IInv, TypeOK
<1>2. Progress' /\ Submitted'
  BY <1>0, <1>c DEF IInv, Progress, Submitted, ToSubmit, InChunk
<1>3. Counting'
  BY CountFacts DEF IInv, TypeOK, Counting, Adding, Busy, Begun
<1>4. Position' /\ Coverage'
  BY DEF IInv, Position, Alive, Coverage
<1> QED
  BY <1>1, <1>2, <1>3, <1>4 DEF IInv

\* The wait returns when no worker is left: the records of the chunk are done.
LEMMA WaitReturnsKeeps ==
  ASSUME IInv, WaitReturns
  PROVE  IInv'
<1> USE DEF WaitReturns, workers
<1>0. /\ startIndex < Len(events) /\ startIndex \in Nat
      /\ Len(events) \in 0..MaxLen /\ DOMAIN events = 1..Len(events)
      /\ ChunkEnd \in (startIndex + 1)..Len(events)
  BY BatchFacts, ChunkFacts DEF IInv, TypeOK, Progress, InChunk
<1>c. ChunkEnd' = ChunkEnd
  BY DEF ChunkEnd
<1>b. Busy = {}
  BY CountFacts, FS_EmptySet DEF IInv, Counting, Adding
<1>d. \A i \in Chunk : task[i] = "done"
  BY <1>0, <1>b DEF IInv, TypeOK, Submitted, Busy, Chunk
<1>1. TypeOK'
  BY DEF IInv, TypeOK
<1>2. Progress' /\ Submitted'
  BY <1>c DEF IInv, Progress, Submitted, ToSubmit, InChunk, Chunk
<1>3. Counting'
  BY CountFacts DEF IInv, TypeOK, Counting, Adding, Busy, Begun
<1>4. Position'
  BY DEF IInv, Position, Alive
<1>5. Coverage'
  BY <1>0, <1>c, <1>d DEF IInv, Coverage, Settled, AtBoundary, Chunk
<1> QED
  BY <1>1, <1>2, <1>3, <1>4, <1>5 DEF IInv

LEMMA AdvanceKeeps ==
  ASSUME IInv, Advance
  PROVE  IInv'
<1> USE DEF Advance, workers
<1>0. /\ startIndex < Len(events) /\ startIndex \in Nat
      /\ startIndex % ChunkSize = 0
      /\ Len(events) \in 0..MaxLen /\ DOMAIN events = 1..Len(events)
      /\ ChunkEnd \in (startIndex + 1)..Len(events)
      /\ ChunkEnd < Len(events) => ChunkEnd = startIndex + ChunkSize
      /\ events[ChunkEnd] \in 1..MaxTime /\ timestamp < events[ChunkEnd]
  BY BatchFacts, ChunkFacts DEF IInv, TypeOK, Progress, InChunk
<1>1. TypeOK'
  <2>1. timestamp' \in Times /\ startIndex' \in 0..MaxLen
    BY <1>0 DEF Times
  <2>2. points' \subseteq Times \cup {NoEntry}
    BY <2>1 DEF IInv, TypeOK
  <2> QED
    BY <2>1, <2>2 DEF IInv, TypeOK
<1>2. Progress'
  <2>1. startIndex' < Len(events) => startIndex' % ChunkSize = 0
    BY <1>0, NextMultiple
  <2> QED
    BY <1>0, <2>1 DEF Progress, InChunk
<1>3. Submitted'
  BY <1>0 DEF IInv, Submitted, ToSubmit
<1>4. Counting'
  BY DEF IInv, Counting, Adding, Busy, Begun
<1>5. Position'
  <2>1. \A p \in points' \ {NoEntry} : p <= timestamp'
    BY <1>0 DEF IInv, TypeOK, Times, Position, Alive
  <2> QED
    BY <1>0, <2>1 DEF Position
<1>6. Coverage'
  BY <1>0 DEF IInv, TypeOK, Coverage, Settled, AtBoundary
<1> QED
  BY <1>1, <1>2, <1>3, <1>4, <1>5, <1>6 DEF IInv

-----------------------------------------------------------------------------
(* The workers *)

\* A record the worker passes over has the timestamp of the last record of the
\* chunk before.
LEMMA PassedOver ==
  ASSUME IInv, NEW i \in DOMAIN events, stopping # "released",
         base < events[i], timestamp >= events[i]
  PROVE  i \in Settled \/ AtBoundary(i)
<1>0. /\ startIndex \in Nat /\ Len(events) \in Nat /\ base \in Nat
      /\ startIndex <= Len(events) /\ DOMAIN events = 1..Len(events)
      /\ \A k \in 1..Len(events) : events[k] \in Nat
      /\ \A j, k \in 1..Len(events) : j <= k => events[j] <= events[k]
  BY BatchFacts DEF IInv, TypeOK, Times, Progress
<1>1. CASE i <= startIndex
  BY <1>1 DEF IInv, Coverage
<1>2. CASE i > startIndex
  <2>1. startIndex # 0 /\ timestamp = events[startIndex]
    BY <1>0 DEF IInv, Position
  <2>2. events[startIndex] = events[i] /\ startIndex \in 1..(i - 1)
    BY <1>0, <1>2, <2>1
  <2>3. startIndex % ChunkSize = 0
    <3>1. startIndex < Len(events)
      BY <1>0, <1>2
    <3> QED
      BY <3>1 DEF IInv, Progress
  <2> QED
    BY <2>2, <2>3 DEF AtBoundary
<1> QED
  BY <1>0, <1>1, <1>2

\* What a step of a worker leaves alone.
LEMMA WorkerFrame ==
  ASSUME IInv, NEW i \in 1..MaxLen, i \in Busy,
         NEW t \in {"sending", "leaking", "done"},
         task' = [task EXCEPT ![i] = t],
         UNCHANGED <<handler, timestamp, stopping, points>>
  PROVE  Progress' /\ Submitted' /\ Position'
<1> USE DEF handler
<1>1. Progress'
  BY DEF IInv, Progress, InChunk, ChunkEnd, Chunk
<1>2. Submitted'
  BY DEF IInv, TypeOK, Submitted, ToSubmit, Busy, ChunkEnd, Chunk
<1>3. Position'
  BY DEF IInv, Position, Alive
<1> QED
  BY <1>1, <1>2, <1>3

LEMMA TaskStartKeeps ==
  ASSUME IInv, NEW i \in 1..MaxLen, TaskStart(i)
  PROVE  IInv'
<1>b. i \in Busy /\ Cardinality(Busy) >= 1
  <2>1. i \in Busy
    BY DEF TaskStart, Busy
  <2> QED
    BY <2>1, CountFacts, FS_EmptySet
<1>f. /\ pc' = pc /\ stopping' = stopping /\ events' = events /\ base' = base
      /\ startIndex' = startIndex
      /\ delivered' = delivered /\ failed' = failed /\ ChunkEnd' = ChunkEnd
  BY DEF TaskStart, handler, ChunkEnd
<1>1. CASE timestamp >= events[i]
  <2>1. /\ task' = [task EXCEPT ![i] = "done"]
        /\ wg' = IF stopping = "no" THEN wg - 1 ELSE wg
    BY <1>1 DEF TaskStart
  <2>2. TypeOK'
    <3>1. wg' \in 0..MaxLen
      BY <1>b, <2>1, CountFacts DEF IInv, TypeOK, Counting, Adding
    <3> QED
      BY <2>1, <3>1 DEF IInv, TypeOK, TaskStart, handler
  <2>3. Progress' /\ Submitted' /\ Position'
    BY <1>b, <2>1, WorkerFrame DEF TaskStart
  <2>4. Counting'
    <3>1. Cardinality(Busy') = Cardinality(Busy) - 1 /\ Begun' = Begun
      BY <1>b, <2>1, BusyLeaves DEF IInv
    <3> QED
      BY <1>b, <1>f, <2>1, <3>1, CountFacts DEF IInv, TypeOK, Counting, Adding
  <2>5. Coverage'
    BY <1>1, <1>f, <2>1, PassedOver
       DEF IInv, TypeOK, Coverage, Settled, AtBoundary
  <2> QED
    BY <2>2, <2>3, <2>4, <2>5 DEF IInv
<1>2. CASE ~(timestamp >= events[i])
  <2>1. PICK t \in {"sending", "leaking"} : task' = [task EXCEPT ![i] = t]
    BY <1>2 DEF TaskStart
  <2>2. TypeOK'
    BY <1>2, <2>1 DEF IInv, TypeOK, TaskStart, handler
  <2>3. Progress' /\ Submitted' /\ Position'
    BY <1>b, <2>1, WorkerFrame DEF TaskStart
  <2>4. Counting'
    <3>1. Busy' = Busy /\ Begun' = Begun
      BY <1>b, <2>1 DEF IInv, TypeOK, Busy, Begun
    <3> QED
      BY <1>2, <1>f, <3>1 DEF IInv, Counting, Adding, TaskStart
  <2>5. Coverage'
    BY <1>f, <2>1 DEF IInv, TypeOK, Coverage, Settled, AtBoundary
  <2> QED
    BY <2>2, <2>3, <2>4, <2>5 DEF IInv
<1> QED
  BY <1>1, <1>2

\* A send that returns, and one that times out.
LEMMA SendKeeps ==
  ASSUME IInv, NEW i \in 1..MaxLen, SendReturns(i) \/ SendTimeout(i)
  PROVE  IInv'
<1>1. /\ task' = [task EXCEPT ![i] = "done"]
      /\ wg' = IF task[i] = "leaking" THEN wg ELSE wg - 1
      /\ UNCHANGED <<handler, timestamp, stopping, points>>
      /\ late' \in {late, TRUE}
      /\ \/ delivered' = delivered \cup {i} /\ failed' = failed
         \/ delivered' = delivered /\ failed' = failed \cup {i}
  BY DEF SendReturns, SendTimeout, Done
<1>b. i \in Busy /\ Cardinality(Busy) >= 1
  <2>1. i \in Busy
    BY DEF SendReturns, SendTimeout, Busy
  <2> QED
    BY <2>1, CountFacts, FS_EmptySet
<1>f. /\ pc' = pc /\ stopping' = stopping /\ events' = events /\ base' = base
      /\ startIndex' = startIndex /\ ChunkEnd' = ChunkEnd
      /\ Settled' = Settled \cup {i}
  BY <1>1 DEF handler, ChunkEnd, Settled
<1>2. TypeOK'
  <2>1. wg' \in 0..MaxLen
    BY <1>1, <1>b, CountFacts DEF IInv, TypeOK, Counting, Adding
  <2>2. delivered' \subseteq 1..MaxLen /\ failed' \subseteq 1..MaxLen
    BY <1>1 DEF IInv, TypeOK
  <2> QED
    BY <1>1, <2>1, <2>2 DEF IInv, TypeOK, handler
<1>3. Progress' /\ Submitted' /\ Position'
  BY <1>1, <1>b, WorkerFrame
<1>4. Counting'
  <2>1. Cardinality(Busy') = Cardinality(Busy) - 1 /\ Begun' = Begun
    BY <1>1, <1>b, BusyLeaves DEF IInv
  <2> QED
    BY <1>1, <1>b, <1>f, <2>1, CountFacts DEF IInv, TypeOK, Counting, Adding
<1>5. Coverage'
  BY <1>1, <1>f DEF IInv, TypeOK, Coverage, AtBoundary
<1> QED
  BY <1>2, <1>3, <1>4, <1>5 DEF IInv

-----------------------------------------------------------------------------

LEMMA StepPreserves == IInv /\ [Next]_vars => IInv'
<1> SUFFICES ASSUME IInv, [Next]_vars PROVE IInv'
  OBVIOUS
<1>1. CASE Start
  BY <1>1, StartKeeps
<1>2. CASE Crash \/ LatePanic \/ NilPanic
  BY <1>2, DieKeeps DEF Crash, LatePanic, NilPanic
<1>3. CASE ShutdownWaitGroup \/ ShutdownRelease
  BY <1>3, ShutdownKeeps DEF ShutdownWaitGroup, ShutdownRelease
<1>4. CASE HandleEvents
  BY <1>4, HandleEventsKeeps
<1>5. CASE Handle
  BY <1>2, <1>5, LoopKeeps, DialKeeps, AddKeeps, SubmitKeeps, SubmitFailsKeeps,
     WaitReturnsKeeps, AdvanceKeeps DEF Handle
<1>6. CASE \E i \in 1..MaxLen : Task(i)
  BY <1>6, TaskStartKeeps, SendKeeps DEF Task
<1>7. CASE UNCHANGED vars
  BY <1>7, ShutdownKeeps DEF vars
<1> QED
  BY <1>1, <1>2, <1>3, <1>4, <1>5, <1>6, <1>7 DEF Next

LEMMA Invariance == Spec => []IInv
BY InitEstablishes, StepPreserves, PTL DEF Spec

\* Every variable keeps its type: the wait group's counter, above all, never
\* falls below zero, which would panic.
THEOREM TypeCorrect == Spec => []TypeOK
<1>1. IInv => TypeOK
  BY DEF IInv
<1> QED
  BY <1>1, Invariance, PTL

\* The position and its checkpoint stay behind what has been sent or has failed.
THEOREM PositionCoversCorrect == Spec => []PositionCovers
<1>1. IInv => PositionCovers
  <2> SUFFICES ASSUME IInv, stopping # "released",
                      NEW i \in DOMAIN events, NEW p \in points \ {NoEntry},
                      base < events[i], events[i] < p
               PROVE  i \in Settled \/ AtBoundary(i)
    BY DEF PositionCovers
  <2>1. Alive /\ p <= timestamp
    BY DEF IInv, Progress, Position, Alive
  <2>2. timestamp >= events[i]
    BY <2>1, BatchFacts DEF IInv, TypeOK, Times
  <2> QED
    BY <2>2, PassedOver
<1> QED
  BY <1>1, Invariance, PTL

\* A batch that has been handled leaves out no new record but those at a chunk
\* boundary.
THEOREM LeftOutCorrect == Spec => []LeftOutAtBoundary
<1>1. IInv => LeftOutAtBoundary
  BY BatchFacts DEF IInv, TypeOK, Progress, Coverage, LeftOutAtBoundary
<1> QED
  BY <1>1, Invariance, PTL

\* No worker reads the position while HandleEvents writes it.
THEOREM PositionNotRacedCorrect == Spec => []PositionNotRaced
<1>1. IInv => PositionNotRaced
  BY CountFacts, FS_EmptySet DEF IInv, Counting, Adding, PositionNotRaced
<1> QED
  BY <1>1, Invariance, PTL

\* Within a process the position never moves back.
THEOREM PositionForwardCorrect == Spec => PositionForward
<1>1. IInv /\ [Next]_vars =>
        [pc # "down" /\ pc' # "down" => timestamp' >= timestamp]_vars
  <2> SUFFICES ASSUME IInv, Next, pc # "down", pc' # "down"
               PROVE  timestamp' >= timestamp
    OBVIOUS
  <2>0. timestamp \in Int
    BY DEF IInv, TypeOK, Times
  <2>1. CASE Advance
    BY <2>1, BatchFacts, ChunkFacts DEF Advance, IInv, TypeOK, Times, Progress, InChunk
  <2>2. CASE ~Advance
    BY <2>0, <2>2 DEF Next, Start, Crash, LatePanic, NilPanic, Die, ShutdownWaitGroup,
         ShutdownRelease, HandleEvents, Handle, NextChunk, Return, Dial, Add, Submit,
         SubmitFails, Wait, WaitReturns, Task, TaskStart, SendReturns, SendTimeout
  <2> QED
    BY <2>1, <2>2
<1> QED
  BY <1>1, Invariance, PTL DEF Spec, PositionForward
=============================================================================
