----------------------------- MODULE Checkpoint -----------------------------
(***************************************************************************)
(* Package checkpoint (checkpoint/checkpoint.go): the worker goroutine     *)
(* that collects the positions of the event logs from a channel and        *)
(* writes them to a file, the goroutines that call PersistState, Shutdown, *)
(* and the end and restart of the process at any moment.                   *)
(*                                                                         *)
(* The file is written in three steps (create the temporary file, write    *)
(* it, rename it over the old one), each of which may fail.                *)
(***************************************************************************)
EXTENDS EventLogState

CONSTANTS
  MaxUpdates, (* NewCheckpoint's parameter maxUpdates                       *)
  SaveCap,    (* capacity of the channel save (1 in the code)               *)
  NoFile,     (* no such file                                               *)
  Torn,       (* a file that was created but not completely written         *)
  MaxLog,     (* bound: updates remembered at a time                        *)
  MaxFaults   (* bound: flushes that fail                                   *)

ASSUME BoundsAssumption ==
  /\ MaxUpdates \in Int
  /\ SaveCap \in Nat \ {0}
  /\ MaxLog \in Nat
  /\ MaxFaults \in Nat

ASSUME FileAssumption ==
  /\ NoFile \notin States
  /\ Torn \notin States
  /\ NoFile # Torn

VARIABLES
  file,       (* contents of the state file                                 *)
  temp,       (* contents of the temporary file next to it                  *)
  worker,     (* where NewCheckpoint and then the goroutine run stand       *)
  step,       (* the step of flush the worker is about to take              *)
  states,     (* the states map in memory                                   *)
  numUpdates, (* updates received since the file was last written           *)
  save,       (* calls of PersistState whose update the worker has not      *)
              (* received, in order: the first SaveCap are in the channel's *)
              (* buffer, the callers of the others are blocked              *)
  closed,     (* the channel done is closed                                 *)
  faults,     (* flushes that failed so far                                 *)
  \* History: no guard reads these.
  log,        (* every update sent and not forgotten by a restart           *)
  applied,    (* how many of them the worker has received                   *)
  durable,    (* how many of them are in the file                           *)
  promised    (* how many calls had returned when Shutdown was called       *)

memory  == <<states, numUpdates, save, closed>>
history == <<log, applied, durable, promised>>
vars    == <<file, temp, worker, step, memory, faults, history>>

Batch == IF MaxUpdates < 1 THEN 1 ELSE MaxUpdates

\* "down": no process.  "init": NewCheckpoint verifies it can write the file.
\* "loop": in the select.  "persist": writing the file, then back to the
\* select.  "final": the deferred persist of a worker that is stopping.
\* "gone": run has returned.
WorkerStates == {"down", "init", "loop", "persist", "final", "gone"}

Flushing == worker \in {"init", "persist", "final"}
Running  == worker \in {"loop", "persist", "final", "gone"}

TypeOK ==
  /\ file \in States \cup {NoFile}
  /\ temp \in States \cup {NoFile, Torn}
  /\ worker \in WorkerStates
  /\ step \in {"create", "write", "rename"}
  /\ states \in States
  /\ numUpdates \in Nat
  /\ save \in Seq(Update)
  /\ closed \in BOOLEAN
  /\ faults \in 0..MaxFaults
  /\ log \in Seq(Update)
  /\ applied \in Nat
  /\ durable \in Nat
  /\ promised \in Nat

Init ==
  /\ file = NoFile
  /\ temp = NoFile
  /\ worker = "down"
  /\ step = "create"
  /\ states = EmptyStates
  /\ numUpdates = 0
  /\ save = <<>>
  /\ closed = FALSE
  /\ faults = 0
  /\ log = <<>>
  /\ applied = 0
  /\ durable = 0
  /\ promised = 0

-----------------------------------------------------------------------------
(* Callers *)

\* Goroutine c waits in "c.save <- st".
Blocked(c) == \E i \in (SaveCap + 1)..Len(save) : save[i].caller = c

\* Calls of PersistState that have returned in this process, those of earlier
\* processes that reached the file included.
Returned == applied + (IF Len(save) < SaveCap THEN Len(save) ELSE SaveCap)

PersistState(c) ==
  /\ Running
  /\ ~Blocked(c)
  /\ Len(log) < MaxLog
  /\ \E m \in Names, p \in Positions :
       LET u == [caller |-> c, name |-> m, pos |-> p]
       IN  /\ save' = Append(save, u)
           /\ log' = Append(log, u)
  /\ UNCHANGED <<file, temp, worker, step, states, numUpdates, closed, faults,
                 applied, durable, promised>>

\* The first caller closes done; it and every other caller then wait for the
\* worker to be gone.
Shutdown ==
  /\ Running
  /\ ~closed
  /\ closed' = TRUE
  /\ promised' = Returned
  /\ UNCHANGED <<file, temp, worker, step, states, numUpdates, save, faults,
                 log, applied, durable>>

-----------------------------------------------------------------------------
(* The process *)

Loaded(f) == IF f = NoFile THEN EmptyStates ELSE f

\* Mutant: flush before the file is read.
NewCheckpointUnread ==
  /\ worker = "down"
  /\ worker' = "init"
  /\ step' = "create"
  /\ states' = EmptyStates
  /\ numUpdates' = 0
  /\ save' = <<>>
  /\ closed' = FALSE
  /\ UNCHANGED <<file, temp, faults, history>>

\* The process starts: read the file into an empty map, then flush.
NewCheckpoint ==
  /\ worker = "down"
  /\ worker' = "init"
  /\ step' = "create"
  /\ states' = Loaded(file)
  /\ numUpdates' = 0
  /\ save' = <<>>
  /\ closed' = FALSE
  /\ UNCHANGED <<file, temp, faults, history>>

\* The memory of the process is gone.
Discard ==
  /\ worker' = "down"
  /\ step' = "create"
  /\ states' = EmptyStates
  /\ numUpdates' = 0
  /\ save' = <<>>
  /\ closed' = FALSE
  /\ log' = SubSeq(log, 1, durable)
  /\ applied' = durable
  /\ promised' = 0
  /\ UNCHANGED durable

\* The process ends without warning, in the middle of any step.
Crash ==
  /\ worker # "down"
  /\ Discard
  /\ UNCHANGED <<file, temp, faults>>

-----------------------------------------------------------------------------
(* The select of the worker loop *)

\* Mutant: run has no deferred persist.
ReceiveDoneUnflushed ==
  /\ worker = "loop"
  /\ closed
  /\ worker' = "gone"
  /\ UNCHANGED <<file, temp, step, memory, faults, history>>

\* Mutant: break without its label leaves the select, not the loop.
ReceiveDoneUnlabelled ==
  /\ worker = "loop"
  /\ closed
  /\ worker' = IF numUpdates = 0 THEN "loop" ELSE "persist"
  /\ UNCHANGED <<file, temp, step, memory, faults, history>>

ReceiveDone ==
  /\ worker = "loop"
  /\ closed
  /\ worker' = IF numUpdates = 0 THEN "gone" ELSE "final"
  /\ UNCHANGED <<file, temp, step, memory, faults, history>>

\* Mutant: one update too many before the batch is written.
ReceiveSaveLate ==
  /\ worker = "loop"
  /\ save # <<>>
  /\ states' = [states EXCEPT ![Head(save).name] = Head(save).pos]
  /\ save' = Tail(save)
  /\ numUpdates' = numUpdates + 1
  /\ worker' = IF numUpdates + 1 <= Batch THEN "loop" ELSE "persist"
  /\ applied' = applied + 1
  /\ UNCHANGED <<file, temp, step, closed, faults, log, durable, promised>>

ReceiveSave ==
  /\ worker = "loop"
  /\ save # <<>>
  /\ states' = [states EXCEPT ![Head(save).name] = Head(save).pos]
  /\ save' = Tail(save)
  /\ numUpdates' = numUpdates + 1
  /\ worker' = IF numUpdates + 1 < Batch THEN "loop" ELSE "persist"
  /\ applied' = applied + 1
  /\ UNCHANGED <<file, temp, step, closed, faults, log, durable, promised>>

\* Mutant: the timer writes full batches only.
FlushTimerFull ==
  /\ worker = "loop"
  /\ numUpdates >= Batch
  /\ worker' = "persist"
  /\ UNCHANGED <<file, temp, step, memory, faults, history>>

\* The flush timer is armed whenever the worker is in its loop; when it
\* fires and nothing is dirty, persist returns at once.
FlushTimer ==
  /\ worker = "loop"
  /\ numUpdates > 0
  /\ worker' = "persist"
  /\ UNCHANGED <<file, temp, step, memory, faults, history>>

-----------------------------------------------------------------------------
(* flush *)

\* Mutant: no temporary file, the state file itself is truncated.
FlushCreateInPlace ==
  /\ Flushing /\ step = "create"
  /\ file' = Torn
  /\ temp' = Torn
  /\ step' = "write"
  /\ UNCHANGED <<worker, memory, faults, history>>

FlushCreate ==
  /\ Flushing /\ step = "create"
  /\ temp' = Torn
  /\ step' = "write"
  /\ UNCHANGED <<file, worker, memory, faults, history>>

\* Mutant: the error of the write is ignored.
FlushWriteUnchecked ==
  /\ Flushing /\ step = "write"
  /\ temp' \in {states, Torn}
  /\ step' = "rename"
  /\ UNCHANGED <<file, worker, memory, faults, history>>

FlushWrite ==
  /\ Flushing /\ step = "write"
  /\ temp' = states
  /\ step' = "rename"
  /\ UNCHANGED <<file, worker, memory, faults, history>>

\* Mutant: run returns after a flush.
AfterFlushReturn == CASE worker = "init"    -> "loop"
                      [] worker = "persist" -> "gone"
                      [] worker = "final"   -> "gone"

\* What follows a flush: persist forgets the count of updates if it succeeded.
AfterFlush == CASE worker = "init"    -> "loop"
                [] worker = "persist" -> "loop"
                [] worker = "final"   -> "gone"

FlushRename ==
  /\ Flushing /\ step = "rename"
  /\ file' = temp
  /\ temp' = NoFile
  /\ step' = "create"
  /\ worker' = AfterFlush
  /\ numUpdates' = 0
  /\ durable' = applied
  /\ UNCHANGED <<states, save, closed, faults, log, applied, promised>>

\* Mutant: a failed flush clears the count of updates.
FlushFailsClean ==
  /\ Flushing
  /\ faults < MaxFaults
  /\ faults' = faults + 1
  /\ UNCHANGED <<file, temp>>
  /\ \/ /\ worker = "init"
        /\ Discard
     \/ /\ worker # "init"
        /\ worker' = AfterFlush
        /\ step' = "create"
        /\ numUpdates' = 0
        /\ UNCHANGED <<states, save, closed, history>>

\* Any of the three steps fails.  A failed create leaves the temporary file
\* as it was, a failed write leaves a torn one, a failed rename leaves both
\* files.  NewCheckpoint gives up and with it the process; the worker goes on.
FlushFails ==
  /\ Flushing
  /\ faults < MaxFaults
  /\ faults' = faults + 1
  /\ UNCHANGED <<file, temp>>
  /\ \/ /\ worker = "init"
        /\ Discard
     \/ /\ worker # "init"
        /\ worker' = AfterFlush
        /\ step' = "create"
        /\ UNCHANGED <<memory, history>>

Flush == FlushCreate \/ FlushWrite \/ FlushRename \/ FlushFails
Work  == ReceiveDone \/ ReceiveSave \/ FlushTimer \/ Flush

Next ==
  \/ \E c \in Callers : PersistState(c)
  \/ Shutdown
  \/ NewCheckpoint
  \/ Crash
  \/ Work

Spec == Init /\ [][Next]_vars

-----------------------------------------------------------------------------
(* Fairness: the Go scheduler runs the worker whenever it can take a step,  *)
(* the flush timer fires, and a select with several ready cases chooses     *)
(* among them at random, so a closed done is not overlooked for ever.       *)
(* Callers, Shutdown, the start and the end of the process owe nothing.     *)

Fairness ==
  /\ WF_vars(ReceiveSave)
  /\ SF_vars(ReceiveDone)
  /\ WF_vars(FlushTimer)
  /\ WF_vars(Flush)

FairSpec == Spec /\ Fairness

-----------------------------------------------------------------------------
(* Properties *)

\* The file is never torn, stale in one entry or ahead in another: at every
\* moment, in the middle of a flush and after any crash, it holds the result
\* of some prefix of the updates (flush writes a temporary file and renames).
FileIsPrefix ==
  /\ durable <= applied /\ applied <= Len(log)
  /\ file # NoFile => file = View(log, durable)
  /\ file = NoFile => durable = 0

\* What States() returns to the readers and consumers is the result of a
\* prefix of all updates ever sent, those of earlier processes included: a
\* restart resumes from the file and loses no entry of any event log.
MemoryIsPrefix == worker # "down" => states = View(log, applied)

\* numUpdates is exactly the number of updates missing from the file, across
\* failed flushes too, so the early return of persist (numUpdates == 0) never
\* leaves a dirty map behind.
DirtyCount == worker # "down" => numUpdates = applied - durable

\* While no flush has failed, a crash at any moment forgets at most Batch
\* updates the worker had received and those in the channel's buffer, of all
\* the updates whose PersistState had returned.
LossWindow ==
  faults = 0 /\ worker # "down" => Returned - durable <= Batch + SaveCap

\* When the worker has stopped and no flush failed, all it received is in the
\* file (the deferred persist of run).
FinalFlush == worker = "gone" /\ faults = 0 => durable = applied

\* The comment on NewCheckpoint says that Shutdown guarantees that "any
\* in-memory state information is flushed to disk": every update whose
\* PersistState returned before Shutdown was called is then in the file.
\* The select of run may take done while an update is in the channel.
ShutdownFlushesAll == worker = "gone" /\ faults = 0 => durable >= promised

\* Every update sent reaches the file unless the process ends or is shut down.
EventuallyDurable ==
  \A n \in 1..MaxLog :
    (Running /\ Len(log) >= n) ~> (durable >= n \/ worker = "down" \/ closed)

\* Shutdown returns: the worker notices done however many updates compete.
ShutdownReturns == closed ~> worker \in {"gone", "down"}

\* A caller waits for the channel only for a while, unless the checkpoint is
\* shut down.
CallsReturn == \A c \in Callers : Blocked(c) ~> (~Blocked(c) \/ closed)

Store == INSTANCE DurableLog WITH log <- log, durable <- durable, file <- file

\* The worker, its channel and its three-step flush implement the durable log.
ImplementsDurableLog == Store!Spec
=============================================================================
