--------------------------- MODULE SyslogConsumer ---------------------------
(***************************************************************************)
(* The syslog consumer (consumer/consumer_syslog.go): HandleEvents walks   *)
(* through a batch of records in chunks, sends the records of a chunk      *)
(* concurrently on one connection, and moves its position (a timestamp) to *)
(* the last record of the chunk.  Connections and sends may fail or time   *)
(* out, Shutdown may come at any moment, and the process may end and       *)
(* restart from a position it has checkpointed.                            *)
(*                                                                         *)
(* A record is its timestamp and its index in the batch.  The checkpoint   *)
(* keeps one of the positions it was given, not older than the last one it *)
(* has returned (module DurableLog).                                       *)
(***************************************************************************)
EXTENDS Integers, Sequences, FiniteSets

CONSTANTS
  MaxTime,    (* bound: timestamps are 1..MaxTime, 0 is before all of them  *)
  MaxLen,     (* bound: records in a batch                                  *)
  ChunkSize,  (* records in a chunk (100 in the code)                       *)
  PoolSize,   (* workers in the pool (100 in the code)                      *)
  NoEntry     (* the checkpoint has no position of this consumer            *)

ASSUME SizesAssumption ==
  /\ MaxTime \in Nat
  /\ MaxLen \in Nat
  /\ ChunkSize \in Nat \ {0}
  /\ PoolSize \in Nat \ {0}
  /\ NoEntry \notin Int

VARIABLES
  pc,         (* where HandleEvents stands                                  *)
  events,     (* timestamps of the batch                                    *)
  startIndex, (* records of the batch in finished chunks                    *)
  next,       (* the record of the chunk to submit next                     *)
  timestamp,  (* s.state.Timestamp                                          *)
  connected,  (* the client of the chunk is open                            *)
  task,       (* what the pool's worker for a record is doing               *)
  wg,         (* counter of the wait group                                  *)
  late,       (* a send outlived its timeout and is still in SendRaw        *)
  stopping,   (* how far Shutdown has come                                  *)
  points,     (* positions a restart may find in the checkpoint             *)
  \* History: no guard reads these.
  base,       (* the position when the batch arrived                        *)
  delivered,  (* records of the batch the server has got                    *)
  failed      (* records of the batch whose send failed or timed out        *)

handler == <<pc, events, startIndex, next, connected, base>>
workers == <<task, wg, late, delivered, failed>>
vars    == <<handler, workers, timestamp, stopping, points>>

Times == 0..MaxTime

\* The records of a batch are in the order of the log they come from.
Batches == {b \in UNION {[1..n -> 1..MaxTime] : n \in 0..MaxLen} :
              \A i, j \in DOMAIN b : i < j => b[i] <= b[j]}

\* readChunk: where the chunk that starts at startIndex ends.
ChunkEnd ==
  IF startIndex + ChunkSize > Len(events) THEN Len(events)
                                          ELSE startIndex + ChunkSize

Chunk == (startIndex + 1)..ChunkEnd

\* "running": the worker has the record.  "sending": in send.  "leaking": in
\* send too, but the wait group was nil when it started.
Busy == {i \in 1..MaxLen : task[i] \in {"running", "sending", "leaking"}}

Alive == pc # "down"

TypeOK ==
  /\ pc \in {"down", "idle", "head", "dial", "add", "submit", "wait", "waiting",
             "advance"}
  /\ events \in Batches
  /\ startIndex \in 0..MaxLen
  /\ next \in 1..(MaxLen + 1)
  /\ timestamp \in Times
  /\ connected \in BOOLEAN
  /\ task \in [1..MaxLen -> {"none", "running", "sending", "leaking", "done"}]
  /\ wg \in 0..MaxLen
  /\ late \in BOOLEAN
  /\ stopping \in {"no", "wg", "released"}
  /\ points \subseteq Times \cup {NoEntry}
  /\ base \in Times
  /\ delivered \subseteq 1..MaxLen
  /\ failed \subseteq 1..MaxLen

NoTasks == [i \in 1..MaxLen |-> "none"]

Init ==
  /\ pc = "down"
  /\ events = <<>>
  /\ startIndex = 0
  /\ next = 1
  /\ timestamp = 0
  /\ connected = FALSE
  /\ task = NoTasks
  /\ wg = 0
  /\ late = FALSE
  /\ stopping = "no"
  /\ points = {NoEntry}
  /\ base = 0
  /\ delivered = {}
  /\ failed = {}

-----------------------------------------------------------------------------
(* The process *)

\* hookConsumer: the position the checkpoint returns, or the present time,
\* which it then persists.
Start ==
  /\ pc = "down"
  /\ pc' = "idle"
  /\ \E p \in points :
       IF p = NoEntry
         THEN /\ timestamp' \in Times
              /\ points' = {NoEntry, timestamp'}
         ELSE /\ timestamp' = p
              /\ points' = {p}
  /\ base' = timestamp'
  /\ UNCHANGED <<events, startIndex, next, connected, workers, stopping>>

\* The process ends: by itself, stopped by the service manager, or by a panic
\* of a goroutine that is not a worker of the pool.
Die ==
  /\ Alive
  /\ pc' = "down"
  /\ events' = <<>>
  /\ startIndex' = 0
  /\ next' = 1
  /\ timestamp' = 0
  /\ connected' = FALSE
  /\ task' = NoTasks
  /\ wg' = 0
  /\ late' = FALSE
  /\ stopping' = "no"
  /\ base' = 0
  /\ delivered' = {}
  /\ failed' = {}
  /\ UNCHANGED points

Crash == Die

\* send has returned at its timeout and closed done; its goroutine then sends
\* on the closed channel.
LatePanic == late /\ Die

\* s.wg.Add and s.wg.Wait with a nil wait group.
NilPanic ==
  /\ pc \in {"add", "wait"}
  /\ stopping # "no"
  /\ Die

ShutdownWaitGroup ==
  /\ Alive
  /\ stopping = "no"
  /\ stopping' = "wg"
  /\ UNCHANGED <<handler, workers, timestamp, points>>

ShutdownRelease ==
  /\ stopping = "wg"
  /\ stopping' = "released"
  /\ UNCHANGED <<handler, workers, timestamp, points>>

-----------------------------------------------------------------------------
(* HandleEvents and batchSend *)

\* A batch arrives.  (An empty one returns at once: nothing changes.)  Workers
\* that a failed Submit left behind belong to a process that is stopping.
HandleEvents ==
  /\ pc = "idle"
  /\ pc' = "head"
  /\ events' \in Batches \ {<<>>}
  /\ startIndex' = 0
  /\ base' = timestamp
  /\ task' = NoTasks
  /\ wg' = 0
  /\ delivered' = {}
  /\ failed' = {}
  /\ UNCHANGED <<next, connected, late, timestamp, stopping, points>>

\* Mutant: chunks that are not newer are not passed over.
NextChunkAny ==
  /\ pc = "head"
  /\ startIndex < Len(events)
  /\ pc' = "dial"
  /\ UNCHANGED <<events, startIndex, next, connected, base, workers, timestamp,
                 stopping, points>>

\* The loop turns to the next chunk if that ends after the position.  If it
\* does not, "continue" leads back here with nothing changed.
NextChunk ==
  /\ pc = "head"
  /\ startIndex < Len(events)
  /\ timestamp < events[ChunkEnd]
  /\ pc' = "dial"
  /\ UNCHANGED <<events, startIndex, next, connected, base, workers, timestamp,
                 stopping, points>>

Return ==
  /\ pc = "head"
  /\ startIndex >= Len(events)
  /\ pc' = "idle"
  /\ UNCHANGED <<events, startIndex, next, connected, base, workers, timestamp,
                 stopping, points>>

\* Mutant: the position is checkpointed before the chunk is sent.
DialPersisting ==
  /\ pc = "dial"
  /\ points' = points \cup {events[ChunkEnd]}
  /\ \/ /\ connected' = TRUE
        /\ next' = startIndex + 1
        /\ pc' = "add"
        /\ UNCHANGED failed
     \/ /\ failed' = failed \cup Chunk
        /\ pc' = "advance"
        /\ UNCHANGED <<next, connected>>
  /\ UNCHANGED <<events, startIndex, base, task, wg, late, delivered, timestamp,
                 stopping>>

\* syslog.NewClient
Dial ==
  /\ pc = "dial"
  /\ \/ /\ connected' = TRUE
        /\ next' = startIndex + 1
        /\ pc' = "add"
        /\ UNCHANGED failed
     \/ /\ failed' = failed \cup Chunk
        /\ pc' = "advance"
        /\ UNCHANGED <<next, connected>>
  /\ UNCHANGED <<events, startIndex, base, task, wg, late, delivered, timestamp,
                 stopping, points>>

Add ==
  /\ pc = "add"
  /\ stopping = "no"
  /\ wg' = wg + 1
  /\ pc' = "submit"
  /\ UNCHANGED <<events, startIndex, next, connected, base, task, late,
                 delivered, failed, timestamp, stopping, points>>

\* Mutant: batchSend does not wait for the workers.
SubmitUnawaited ==
  /\ pc = "submit"
  /\ stopping # "released"
  /\ Cardinality(Busy) < PoolSize
  /\ task' = [task EXCEPT ![next] = "running"]
  /\ IF next = ChunkEnd THEN pc' = "advance" /\ UNCHANGED next
                        ELSE pc' = "add" /\ next' = next + 1
  /\ UNCHANGED <<events, startIndex, connected, base, wg, late, delivered,
                 failed, timestamp, stopping, points>>

\* pool.Submit waits for a free worker.
Submit ==
  /\ pc = "submit"
  /\ stopping # "released"
  /\ Cardinality(Busy) < PoolSize
  /\ task' = [task EXCEPT ![next] = "running"]
  /\ IF next = ChunkEnd THEN pc' = "wait" /\ UNCHANGED next
                        ELSE pc' = "add" /\ next' = next + 1
  /\ UNCHANGED <<events, startIndex, connected, base, wg, late, delivered,
                 failed, timestamp, stopping, points>>

\* The pool is closed: batchSend returns and closes its client under the
\* workers it has started.
SubmitFails ==
  /\ pc = "submit"
  /\ stopping = "released"
  /\ failed' = failed \cup (next..ChunkEnd)
  /\ connected' = FALSE
  /\ pc' = "advance"
  /\ UNCHANGED <<events, startIndex, next, base, task, wg, late, delivered,
                 timestamp, stopping, points>>

\* The call of s.wg.Wait, and its return.
Wait ==
  /\ pc = "wait"
  /\ stopping = "no"
  /\ pc' = "waiting"
  /\ UNCHANGED <<events, startIndex, next, connected, base, workers, timestamp,
                 stopping, points>>

WaitReturns ==
  /\ pc = "waiting"
  /\ wg = 0
  /\ connected' = FALSE
  /\ pc' = "advance"
  /\ UNCHANGED <<events, startIndex, next, base, workers, timestamp, stopping,
                 points>>

\* Mutant: the next chunk starts one record late.
AdvanceSkipping ==
  /\ pc = "advance"
  /\ timestamp' = events[ChunkEnd]
  /\ points' = points \cup {timestamp'}
  /\ startIndex' = IF ChunkEnd < Len(events) THEN ChunkEnd + 1 ELSE ChunkEnd
  /\ pc' = "head"
  /\ UNCHANGED <<events, next, connected, base, workers, stopping>>

\* The position moves to the last record of the chunk, whatever became of it,
\* and is checkpointed; the loop moves to the next chunk.
Advance ==
  /\ pc = "advance"
  /\ timestamp' = events[ChunkEnd]
  /\ points' = points \cup {timestamp'}
  /\ startIndex' = ChunkEnd
  /\ pc' = "head"
  /\ UNCHANGED <<events, next, connected, base, workers, stopping>>

-----------------------------------------------------------------------------
(* The workers of the pool, one for each record of the chunk *)

\* The deferred s.wg.Done reads s.wg here.  If that is nil, the call panics
\* at the end, the pool recovers it, and the count stays as it is.
Done(i) == wg' = IF task[i] = "leaking" THEN wg ELSE wg - 1

\* The worker passes over a record that is not newer than the position.
TaskStart(i) ==
  /\ task[i] = "running"
  /\ IF timestamp >= events[i]
       THEN /\ task' = [task EXCEPT ![i] = "done"]
            /\ wg' = IF stopping = "no" THEN wg - 1 ELSE wg
       ELSE /\ task' = [task EXCEPT ![i] = IF stopping = "no" THEN "sending"
                                                              ELSE "leaking"]
            /\ UNCHANGED wg
  /\ UNCHANGED <<handler, late, delivered, failed, timestamp, stopping, points>>

\* Mutant: Done is called twice.
SendReturnsTwice(i) ==
  /\ task[i] \in {"sending", "leaking"}
  /\ task' = [task EXCEPT ![i] = "done"]
  /\ wg' = wg - 2
  /\ \/ connected /\ delivered' = delivered \cup {i} /\ UNCHANGED failed
     \/ failed' = failed \cup {i} /\ UNCHANGED delivered
  /\ UNCHANGED <<handler, late, timestamp, stopping, points>>

\* SendRaw returns in time, with or without an error.
SendReturns(i) ==
  /\ task[i] \in {"sending", "leaking"}
  /\ task' = [task EXCEPT ![i] = "done"]
  /\ Done(i)
  /\ \/ connected /\ delivered' = delivered \cup {i} /\ UNCHANGED failed
     \/ failed' = failed \cup {i} /\ UNCHANGED delivered
  /\ UNCHANGED <<handler, late, timestamp, stopping, points>>

\* Mutant: a send that timed out does not count as done.
SendTimeoutHeld(i) ==
  /\ task[i] \in {"sending", "leaking"}
  /\ task' = [task EXCEPT ![i] = "done"]
  /\ failed' = failed \cup {i}
  /\ UNCHANGED <<handler, wg, late, delivered, timestamp, stopping, points>>

\* The timer of send fires first.
SendTimeout(i) ==
  /\ task[i] \in {"sending", "leaking"}
  /\ task' = [task EXCEPT ![i] = "done"]
  /\ Done(i)
  /\ failed' = failed \cup {i}
  /\ late' = TRUE
  /\ UNCHANGED <<handler, delivered, timestamp, stopping, points>>

Task(i) == TaskStart(i) \/ SendReturns(i) \/ SendTimeout(i)

Handle ==
  \/ NextChunk \/ Return \/ Dial \/ Add \/ Submit \/ SubmitFails
  \/ Wait \/ WaitReturns \/ Advance \/ NilPanic

Next ==
  \/ Start
  \/ Crash
  \/ LatePanic
  \/ ShutdownWaitGroup
  \/ ShutdownRelease
  \/ HandleEvents
  \/ Handle
  \/ \E i \in 1..MaxLen : Task(i)

Spec == Init /\ [][Next]_vars

\* HandleEvents and the workers are goroutines that run when they can; every
\* send returns or times out.  Nothing obliges a batch to arrive.
Fairness ==
  /\ WF_vars(Handle)
  /\ \A i \in 1..MaxLen : WF_vars(Task(i))

FairSpec == Spec /\ Fairness

-----------------------------------------------------------------------------
(* Properties *)

Settled == delivered \cup failed

\* A record with the timestamp of the last record of an earlier chunk: the
\* position has moved there before the workers look at it.
AtBoundary(i) ==
  \E j \in 1..(i - 1) : j % ChunkSize = 0 /\ events[j] = events[i]

\* A restart skips nothing that was under way: whatever position it finds, all
\* records of the batch before it have been sent, or their send has failed, or
\* they were not newer than the position when the batch arrived, or they are
\* at a chunk boundary.  (A pool closed in the middle of a chunk is the
\* exception: SubmitFails.)
PositionCovers ==
  stopping # "released" =>
    \A i \in DOMAIN events, p \in points \ {NoEntry} :
      base < events[i] /\ events[i] < p => i \in Settled \/ AtBoundary(i)

\* A batch that has been handled leaves out no new record but those at a chunk
\* boundary.
LeftOutAtBoundary ==
  pc = "idle" /\ stopping # "released" =>
    \A i \in DOMAIN events :
      base < events[i] => i \in Settled \/ AtBoundary(i)

\* The workers read s.state.Timestamp without a lock: HandleEvents writes it
\* only when no worker is left.
PositionNotRaced == pc = "advance" /\ stopping # "released" => Busy = {}

\* Within a process the position never moves back, whatever order the batches
\* arrive in.
PositionForward == [][pc # "down" /\ pc' # "down" => timestamp' >= timestamp]_vars

\* The loop has met a chunk that is not newer than the position.
Spinning ==
  /\ pc = "head"
  /\ startIndex < Len(events)
  /\ timestamp >= events[ChunkEnd]

\* Every batch is handled in the end, unless the loop spins or the consumer is
\* shut down meanwhile.
BatchEnds == pc = "head" ~> (pc \in {"idle", "down"} \/ Spinning \/ stopping # "no")

\* The comment in the loop says it updates the start index: every batch ends.
BatchAlwaysEnds == pc = "head" ~> (pc \in {"idle", "down"} \/ stopping # "no")
=============================================================================
