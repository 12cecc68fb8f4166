-------------------------- MODULE CheckpointProofs --------------------------
(***************************************************************************)
(* The safety properties of Checkpoint, and that it implements DurableLog, *)
(* for any names, positions, callers, batch size and channel capacity.     *)
(*                                                                         *)
(* The properties are not inductive by themselves: what the file holds     *)
(* after a rename depends on what was written to the temporary file, and   *)
(* what the map holds after a receive on the order of the channel.  IInv   *)
(* adds both.                                                              *)
(***************************************************************************)
EXTENDS Checkpoint, EventLogStateProofs, SequenceTheorems

\* The updates not yet received are the end of the log, in order.
QueueIsSuffix ==
  /\ Len(log) = applied + Len(save)
  /\ \A i \in 1..Len(save) : save[i] = log[applied + i]

\* A temporary file about to be renamed holds the states map.
TempIsMemory == Flushing /\ step = "rename" => temp = states

\* A worker that is not in flush is not half way through it.
StepIsIdle == ~Flushing => step = "create"

\* A process that has not reached its loop has received nothing.
StartIsClean ==
  worker \in {"down", "init"} => save = <<>> /\ applied = durable

\* The worker returns to its select before the batch is full, unless a flush
\* failed; a worker that is gone has nothing left to write.
BatchBound ==
  faults = 0 =>
    /\ numUpdates <= Batch
    /\ worker = "loop" => numUpdates < Batch
    /\ worker = "gone" => numUpdates = 0

IInv ==
  /\ TypeOK
  /\ FileIsPrefix
  /\ MemoryIsPrefix
  /\ numUpdates = applied - durable
  /\ QueueIsSuffix
  /\ TempIsMemory
  /\ StepIsIdle
  /\ StartIsClean
  /\ BatchBound

-----------------------------------------------------------------------------

LEMMA BatchType == Batch \in Nat \ {0}
  BY BoundsAssumption DEF Batch

LEMMA InitInvariant == Init => IInv
<1> SUFFICES ASSUME Init PROVE IInv
  OBVIOUS
<1>1. EmptyStates \in States
  BY DEF EmptyStates, States, Entry
<1>2. TypeOK
  <2>1. save \in Seq(Update) /\ log \in Seq(Update)
    BY DEF Init
  <2>2. faults \in 0..MaxFaults
    BY BoundsAssumption DEF Init
  <2> QED
    BY <1>1, <2>1, <2>2 DEF Init, TypeOK, WorkerStates
<1>3. FileIsPrefix /\ MemoryIsPrefix
  BY DEF Init, FileIsPrefix, MemoryIsPrefix
<1>4. QueueIsSuffix /\ TempIsMemory /\ StepIsIdle /\ StartIsClean
  BY DEF Init, QueueIsSuffix, TempIsMemory, StepIsIdle, StartIsClean, Flushing
<1>5. BatchBound /\ numUpdates = applied - durable
  BY BatchType DEF Init, BatchBound
<1> QED
  BY <1>2, <1>3, <1>4, <1>5 DEF IInv

\* A call appends one update to the channel and to the log.
LEMMA PersistStateInvariant ==
  ASSUME IInv, NEW c \in Callers, PersistState(c)
  PROVE  IInv'
<1> USE DEF IInv
<1>1. PICK u \in Update : save' = Append(save, u) /\ log' = Append(log, u)
  BY DEF PersistState, Update
<1>2. UNCHANGED <<file, temp, worker, step, states, numUpdates, closed, faults,
                  applied, durable, promised>>
  BY DEF PersistState
<1>3. TypeOK'
  BY <1>1, <1>2 DEF TypeOK
<1>4. \A n \in 0..Len(log) : View(log', n) = View(log, n)
  <2> SUFFICES ASSUME NEW n \in 0..Len(log) PROVE View(log', n) = View(log, n)
    OBVIOUS
  <2>1. \A i \in 1..n : log'[i] = log[i]
    BY <1>1 DEF TypeOK
  <2> QED
    BY <2>1, ViewOfPrefix
<1>5. Len(log') = Len(log) + 1 /\ applied \in 0..Len(log) /\ durable \in 0..Len(log)
  BY <1>1 DEF TypeOK, FileIsPrefix
<1>6. FileIsPrefix' /\ MemoryIsPrefix'
  BY <1>2, <1>4, <1>5 DEF FileIsPrefix, MemoryIsPrefix
<1>7. QueueIsSuffix'
  <2>1. Len(log') = applied' + Len(save')
    BY <1>1, <1>2 DEF QueueIsSuffix, TypeOK
  <2>2. ASSUME NEW i \in 1..Len(save')
        PROVE  save'[i] = log'[applied' + i]
    <3>1. CASE i <= Len(save)
      BY <1>1, <1>2, <3>1 DEF QueueIsSuffix, TypeOK
    <3>2. CASE i = Len(save) + 1
      <4>1. save'[i] = u
        BY <1>1, <3>2 DEF TypeOK
      <4>2. log'[Len(log) + 1] = u
        BY <1>1 DEF TypeOK
      <4>3. applied' + i = Len(log) + 1
        BY <1>2, <3>2 DEF QueueIsSuffix, TypeOK
      <4> QED
        BY <4>1, <4>2, <4>3
    <3>3. Len(save') = Len(save) + 1 /\ Len(save) \in Nat
      BY <1>1 DEF TypeOK
    <3> QED
      BY <3>1, <3>2, <3>3
  <2> QED
    BY <2>1, <2>2 DEF QueueIsSuffix
<1>8. TempIsMemory' /\ StepIsIdle'
  BY <1>2 DEF TempIsMemory, StepIsIdle, Flushing
<1>9. StartIsClean' /\ BatchBound' /\ (numUpdates = applied - durable)'
  BY <1>2 DEF PersistState, StartIsClean, BatchBound, Running
<1> QED
  BY <1>3, <1>6, <1>7, <1>8, <1>9

\* The end of a process cuts the log back to what is in the file.
LEMMA DiscardInvariant ==
  ASSUME IInv, Discard, UNCHANGED <<file, temp>>, faults' \in 0..MaxFaults
  PROVE  IInv'
<1> USE DEF IInv
<1>1. EmptyStates \in States
  BY DEF EmptyStates, States, Entry
<1>2. durable \in 0..Len(log) /\ log \in Seq(Update)
  BY DEF TypeOK, FileIsPrefix
<1>3. /\ log' \in Seq(Update)
      /\ Len(log') = durable
      /\ \A i \in 1..durable : log'[i] = log[i]
  BY <1>2 DEF Discard
<1>4. View(log', durable) = View(log, durable)
  BY <1>2, <1>3, ViewOfPrefix
<1>5. TypeOK'
  <2>1. <<>> \in Seq(Update)
    OBVIOUS
  <2> QED
    BY <1>1, <1>3, <2>1 DEF Discard, TypeOK, WorkerStates
<1>6. FileIsPrefix' /\ MemoryIsPrefix'
  BY <1>2, <1>3, <1>4 DEF Discard, FileIsPrefix, MemoryIsPrefix
<1>7. QueueIsSuffix' /\ TempIsMemory' /\ StepIsIdle' /\ StartIsClean'
  BY <1>2, <1>3
     DEF Discard, QueueIsSuffix, TempIsMemory, StepIsIdle, StartIsClean, Flushing
<1>8. BatchBound' /\ (numUpdates = applied - durable)'
  BY <1>2, BatchType DEF Discard, BatchBound
<1> QED
  BY <1>5, <1>6, <1>7, <1>8

\* The map read from the file is the result of the updates in it.
LEMMA NewCheckpointInvariant ==
  ASSUME IInv, NewCheckpoint
  PROVE  IInv'
<1> USE DEF IInv
<1>1. save = <<>> /\ applied = durable
  BY DEF NewCheckpoint, StartIsClean
<1>2. Loaded(file) = View(log, applied)
  BY <1>1, ViewOfNothing DEF Loaded, FileIsPrefix
<1>3. Loaded(file) \in States
  BY <1>2, ViewType DEF TypeOK, FileIsPrefix
<1>4. TypeOK'
  <2>1. <<>> \in Seq(Update)
    OBVIOUS
  <2> QED
    BY <1>3, <2>1 DEF NewCheckpoint, TypeOK, WorkerStates, history
<1>5. FileIsPrefix' /\ MemoryIsPrefix'
  BY <1>2 DEF NewCheckpoint, FileIsPrefix, MemoryIsPrefix, history
<1>6. QueueIsSuffix' /\ TempIsMemory' /\ StepIsIdle' /\ StartIsClean'
  BY <1>1
     DEF NewCheckpoint, QueueIsSuffix, TempIsMemory, StepIsIdle, StartIsClean,
         Flushing, history
<1>7. BatchBound' /\ (numUpdates = applied - durable)'
  BY <1>1, BatchType DEF NewCheckpoint, BatchBound, TypeOK, history
<1> QED
  BY <1>4, <1>5, <1>6, <1>7

\* The worker receives the update that follows those it has applied.
LEMMA ReceiveSaveInvariant ==
  ASSUME IInv, ReceiveSave
  PROVE  IInv'
<1> USE DEF IInv
<1> DEFINE u == Head(save)
<1>1. save \in Seq(Update) /\ save # <<>> /\ Len(save) \in Nat \ {0}
  BY DEF ReceiveSave, TypeOK
<1>2. u \in Update /\ u = save[1] /\ u = log[applied + 1]
  BY <1>1 DEF QueueIsSuffix
<1>3. UNCHANGED <<file, temp, step, closed, faults, log, durable, promised>>
  BY DEF ReceiveSave
<1>4. states' = [states EXCEPT ![u.name] = u.pos] /\ states' \in States
  BY <1>2 DEF ReceiveSave, TypeOK, States, Update, Entry
<1>5. applied + 1 <= Len(log) /\ applied \in Nat /\ log \in Seq(Update)
  BY <1>1 DEF QueueIsSuffix, TypeOK
<1>6. states' = View(log, applied + 1)
  <2>1. states = View(log, applied)
    BY DEF ReceiveSave, MemoryIsPrefix
  <2> QED
    BY <1>2, <1>4, <1>5, <2>1, ViewOfNext
<1>7. save' \in Seq(Update) /\ Len(save') = Len(save) - 1
  BY <1>1 DEF ReceiveSave
<1>8. TypeOK'
  BY <1>3, <1>4, <1>7 DEF ReceiveSave, TypeOK, WorkerStates
<1>9. FileIsPrefix' /\ MemoryIsPrefix'
  <2>1. applied' = applied + 1 /\ Len(log) \in Nat /\ durable \in Nat
    BY <1>5 DEF ReceiveSave, TypeOK
  <2>2. FileIsPrefix'
    BY <1>3, <1>5, <2>1 DEF FileIsPrefix
  <2>3. MemoryIsPrefix'
    BY <1>3, <1>6, <2>1 DEF MemoryIsPrefix
  <2> QED
    BY <2>2, <2>3
<1>10. QueueIsSuffix'
  <2>1. \A i \in 1..Len(save') : save'[i] = save[i + 1]
    BY <1>1 DEF ReceiveSave
  <2>2. \A i \in 1..Len(save') : save'[i] = log'[applied' + i]
    BY <1>1, <1>3, <1>5, <1>7, <2>1 DEF ReceiveSave, QueueIsSuffix
  <2>3. Len(log') = applied' + Len(save')
    BY <1>1, <1>3, <1>5, <1>7 DEF ReceiveSave, QueueIsSuffix
  <2> QED
    BY <2>2, <2>3 DEF QueueIsSuffix
<1>11. TempIsMemory' /\ StepIsIdle' /\ StartIsClean'
  BY <1>3
     DEF ReceiveSave, TempIsMemory, StepIsIdle, StartIsClean, Flushing
<1>12. BatchBound' /\ (numUpdates = applied - durable)'
  BY <1>3, BatchType DEF ReceiveSave, BatchBound, TypeOK
<1> QED
  BY <1>8, <1>9, <1>10, <1>11, <1>12

\* A worker that writes the file, whatever for, stays within its batch.
LEMMA SelectInvariant ==
  ASSUME IInv, ReceiveDone \/ FlushTimer \/ Shutdown
  PROVE  IInv'
<1> USE DEF IInv
<1>1. /\ UNCHANGED <<file, temp, step, states, numUpdates, save, faults, log,
                     applied, durable>>
      /\ closed' \in BOOLEAN
      /\ promised' \in Nat
  <2>1. Returned \in Nat
    BY BoundsAssumption DEF TypeOK, Returned
  <2>2. closed \in BOOLEAN /\ promised \in Nat
    BY DEF TypeOK
  <2>3. CASE ReceiveDone \/ FlushTimer
    BY <2>2, <2>3 DEF ReceiveDone, FlushTimer, memory, history
  <2>4. CASE Shutdown
    BY <2>1, <2>4 DEF Shutdown
  <2> QED
    BY <2>3, <2>4
<1>2. /\ worker \notin {"down", "init"} /\ worker' \notin {"down", "init"}
      /\ worker' \in WorkerStates
  BY DEF ReceiveDone, FlushTimer, Shutdown, TypeOK, Running, WorkerStates
<1>3. TypeOK' /\ FileIsPrefix' /\ MemoryIsPrefix' /\ StartIsClean'
  BY <1>1, <1>2 DEF TypeOK, FileIsPrefix, MemoryIsPrefix, StartIsClean
<1>4. QueueIsSuffix' /\ (numUpdates = applied - durable)'
  BY <1>1 DEF QueueIsSuffix
<1>5. TempIsMemory' /\ StepIsIdle'
  <2>1. Flushing \/ step = "create"
    BY DEF StepIsIdle
  <2>2. CASE ~Flushing
    BY <1>1, <2>1, <2>2 DEF TempIsMemory, StepIsIdle
  <2>3. CASE Flushing
    BY <1>1, <2>3
       DEF ReceiveDone, FlushTimer, Shutdown, TempIsMemory, StepIsIdle, Flushing
  <2> QED
    BY <2>2, <2>3
<1>6. BatchBound'
  BY <1>1, BatchType
     DEF ReceiveDone, FlushTimer, Shutdown, BatchBound, TypeOK
<1> QED
  BY <1>3, <1>4, <1>5, <1>6

\* The file is replaced only by a rename, and then by the states map.
LEMMA FlushInvariant ==
  ASSUME IInv, Flush
  PROVE  IInv'
<1> USE DEF IInv
<1>1. ASSUME FlushCreate \/ FlushWrite
      PROVE  IInv'
  <2>1. UNCHANGED <<file, worker, states, numUpdates, save, closed, faults, log,
                    applied, durable, promised>>
    BY <1>1 DEF FlushCreate, FlushWrite, memory, history
  <2>2. Flushing /\ temp' \in {states, Torn} /\ step' \in {"write", "rename"}
    BY <1>1 DEF FlushCreate, FlushWrite
  <2>3. TypeOK' /\ FileIsPrefix' /\ MemoryIsPrefix' /\ StartIsClean'
    BY <2>1, <2>2 DEF TypeOK, FileIsPrefix, MemoryIsPrefix, StartIsClean
  <2>4. QueueIsSuffix' /\ BatchBound' /\ (numUpdates = applied - durable)'
    BY <2>1 DEF QueueIsSuffix, BatchBound, Batch
  <2>5. TempIsMemory' /\ StepIsIdle'
    BY <1>1, <2>1, <2>2
       DEF FlushCreate, FlushWrite, TempIsMemory, StepIsIdle, Flushing
  <2> QED
    BY <2>3, <2>4, <2>5
<1>2. ASSUME FlushRename
      PROVE  IInv'
  <2>1. temp = states /\ states = View(log, applied) /\ states \in States
    BY <1>2 DEF FlushRename, TempIsMemory, MemoryIsPrefix, Flushing, TypeOK
  <2>2. UNCHANGED <<states, save, closed, faults, log, applied, promised>>
    BY <1>2 DEF FlushRename
  <2>3. /\ file' = states /\ temp' = NoFile /\ step' = "create"
        /\ numUpdates' = 0 /\ durable' = applied
    BY <1>2, <2>1 DEF FlushRename
  <2>4. worker' \in {"loop", "gone"} /\ worker # "down"
    BY <1>2 DEF FlushRename, AfterFlush, Flushing
  <2>5. TypeOK'
    BY <2>1, <2>2, <2>3, <2>4 DEF TypeOK, WorkerStates
  <2>6. FileIsPrefix' /\ MemoryIsPrefix'
    BY <2>1, <2>2, <2>3, FileAssumption DEF FileIsPrefix, MemoryIsPrefix, TypeOK
  <2>7. QueueIsSuffix' /\ (numUpdates = applied - durable)'
    <3>1. QueueIsSuffix'
      BY <2>2 DEF QueueIsSuffix
    <3>2. (numUpdates = applied - durable)'
      BY <2>2, <2>3 DEF TypeOK
    <3> QED
      BY <3>1, <3>2
  <2>8. TempIsMemory' /\ StepIsIdle' /\ StartIsClean' /\ BatchBound'
    BY <2>3, <2>4, BatchType
       DEF TempIsMemory, StepIsIdle, StartIsClean, BatchBound, Flushing
  <2> QED
    BY <2>5, <2>6, <2>7, <2>8
<1>3. ASSUME FlushFails
      PROVE  IInv'
  <2>1. faults' \in 1..MaxFaults /\ UNCHANGED <<file, temp>>
    BY <1>3, BoundsAssumption DEF FlushFails, TypeOK
  <2>2. CASE worker = "init"
    BY <1>3, <2>1, <2>2, DiscardInvariant DEF FlushFails
  <2>3. CASE worker # "init"
    <3>1. UNCHANGED <<states, numUpdates, save, closed, log, applied, durable,
                      promised>>
      BY <1>3, <2>3 DEF FlushFails, memory, history
    <3>2. step' = "create" /\ worker' \in {"loop", "gone"} /\ worker # "down"
      BY <1>3, <2>3 DEF FlushFails, AfterFlush, Flushing
    <3>3. TypeOK' /\ FileIsPrefix' /\ MemoryIsPrefix' /\ StartIsClean'
      BY <2>1, <3>1, <3>2
         DEF TypeOK, FileIsPrefix, MemoryIsPrefix, StartIsClean, WorkerStates
    <3>4. QueueIsSuffix' /\ (numUpdates = applied - durable)'
      BY <3>1 DEF QueueIsSuffix
    <3>5. TempIsMemory' /\ StepIsIdle' /\ BatchBound'
      BY <2>1, <3>1, <3>2 DEF TempIsMemory, StepIsIdle, BatchBound, Flushing
    <3> QED
      BY <3>3, <3>4, <3>5
  <2> QED
    BY <2>2, <2>3
<1> QED
  BY <1>1, <1>2, <1>3 DEF Flush

LEMMA StutterInvariant ==
  ASSUME IInv, UNCHANGED vars
  PROVE  IInv'
  BY DEF IInv, vars, memory, history, TypeOK, FileIsPrefix, MemoryIsPrefix,
         QueueIsSuffix, TempIsMemory, StepIsIdle, StartIsClean, BatchBound,
         Flushing, Batch

LEMMA NextInvariant == IInv /\ [Next]_vars => IInv'
<1> SUFFICES ASSUME IInv, [Next]_vars PROVE IInv'
  OBVIOUS
<1>1. ASSUME NEW c \in Callers, PersistState(c) PROVE IInv'
  BY <1>1, PersistStateInvariant
<1>2. CASE Shutdown
  BY <1>2, SelectInvariant
<1>3. CASE NewCheckpoint
  BY <1>3, NewCheckpointInvariant
<1>4. CASE Crash
  <2>1. faults' \in 0..MaxFaults
    BY <1>4 DEF Crash, IInv, TypeOK
  <2> QED
    BY <1>4, <2>1, DiscardInvariant DEF Crash
<1>5. CASE Work
  BY <1>5, SelectInvariant, ReceiveSaveInvariant, FlushInvariant DEF Work
<1>6. CASE UNCHANGED vars
  BY <1>6, StutterInvariant
<1> QED
  BY <1>1, <1>2, <1>3, <1>4, <1>5, <1>6 DEF Next

\* The inductive invariant holds in every reachable state.
THEOREM Invariance == Spec => []IInv
  BY InitInvariant, NextInvariant, PTL DEF Spec

-----------------------------------------------------------------------------

\* Every variable of the checkpoint keeps its type; in particular the state
\* file is never torn (flush writes a temporary file and renames it).
THEOREM TypeCorrect == Spec => []TypeOK
<1>1. IInv => TypeOK
  BY DEF IInv
<1> QED
  BY <1>1, Invariance, PTL

\* Through crashes, restarts and failing flushes the state file is the result
\* of the first durable updates, all of them and in order.
THEOREM FileCorrect == Spec => []FileIsPrefix
<1>1. IInv => FileIsPrefix
  BY DEF IInv
<1> QED
  BY <1>1, Invariance, PTL

\* What States() returns is the result of the first applied updates: a restart
\* loses no entry of any event log.
THEOREM MemoryCorrect == Spec => []MemoryIsPrefix
<1>1. IInv => MemoryIsPrefix
  BY DEF IInv
<1> QED
  BY <1>1, Invariance, PTL

\* persist's test numUpdates == 0 is exact, failed flushes or not.
THEOREM DirtyCountCorrect == Spec => []DirtyCount
<1>1. IInv => DirtyCount
  BY DEF IInv, DirtyCount
<1> QED
  BY <1>1, Invariance, PTL

\* A crash forgets at most a batch and what is in the channel.
THEOREM LossIsBounded == Spec => []LossWindow
<1>1. IInv => LossWindow
  <2> SUFFICES ASSUME IInv, faults = 0, worker # "down"
               PROVE  Returned - durable <= Batch + SaveCap
    BY DEF LossWindow
  <2>1. applied - durable <= Batch
    BY DEF IInv, BatchBound
  <2>2. Returned <= applied + SaveCap
    BY BoundsAssumption DEF IInv, TypeOK, Returned
  <2>3. Returned \in Int /\ applied \in Int /\ durable \in Int /\ Batch \in Int
    BY BatchType, BoundsAssumption DEF IInv, TypeOK, Returned
  <2> QED
    BY <2>1, <2>2, <2>3, BoundsAssumption
<1> QED
  BY <1>1, Invariance, PTL

\* The deferred persist leaves nothing behind.
THEOREM FinalFlushCorrect == Spec => []FinalFlush
<1>1. IInv => FinalFlush
  BY DEF IInv, BatchBound, FinalFlush, TypeOK
<1> QED
  BY <1>1, Invariance, PTL

-----------------------------------------------------------------------------

\* Every step of the checkpoint is a step of the durable log or none: a call
\* submits, a rename flushes, the end of the process forgets.
LEMMA StepRefines == IInv /\ [Next]_vars => [Store!Next]_Store!vars
<1> SUFFICES ASSUME IInv, [Next]_vars PROVE [Store!Next]_Store!vars
  OBVIOUS
<1>1. ASSUME NEW c \in Callers, PersistState(c)
      PROVE  Store!Next
  <2>1. PICK u \in Update : log' = Append(log, u)
    BY <1>1 DEF PersistState, Update
  <2>2. Store!Submit(u)
    BY <1>1, <2>1 DEF PersistState, Store!Submit
  <2> QED
    BY <2>2 DEF Store!Next, Store!Update, Update
<1>2. ASSUME Discard, file' = file
      PROVE  Store!Next
  BY <1>2 DEF Discard, Store!Next, Store!Forget
<1>3. ASSUME FlushRename
      PROVE  Store!Next
  <2>1. file' = View(log, applied)
    BY <1>3 DEF FlushRename, IInv, TempIsMemory, MemoryIsPrefix, Flushing
  <2>2. Store!Flush(applied)
    BY <1>3, <2>1
       DEF FlushRename, Store!Flush, Store!View, View, Store!Latest, Latest
  <2>3. applied \in durable..Len(log)
    BY DEF IInv, FileIsPrefix, TypeOK
  <2> QED
    BY <2>2, <2>3 DEF Store!Next
<1>4. CASE Shutdown \/ NewCheckpoint \/ ReceiveDone \/ ReceiveSave \/ FlushTimer
  BY <1>4
     DEF Shutdown, NewCheckpoint, ReceiveDone, ReceiveSave, FlushTimer, history,
         Store!vars
<1>5. CASE FlushCreate \/ FlushWrite
  BY <1>5 DEF FlushCreate, FlushWrite, history, Store!vars
<1>6. CASE FlushFails
  <2>1. CASE worker = "init"
    BY <1>2, <1>6, <2>1 DEF FlushFails
  <2>2. CASE worker # "init"
    BY <1>6, <2>2 DEF FlushFails, history, Store!vars
  <2> QED
    BY <2>1, <2>2
<1>7. CASE UNCHANGED vars
  BY <1>7 DEF vars, history, Store!vars
<1>8. CASE Crash
  BY <1>2, <1>8 DEF Crash
<1> QED
  BY <1>1, <1>3, <1>4, <1>5, <1>6, <1>7, <1>8 DEF Next, Work, Flush

\* The worker goroutine, its channel and its three-step flush implement a log
\* with a durable prefix.
THEOREM Refinement == Spec => ImplementsDurableLog
<1>1. Init => Store!Init
  BY DEF Init, Store!Init
<1> QED
  BY <1>1, StepRefines, Invariance, PTL DEF Spec, Store!Spec, ImplementsDurableLog
=============================================================================
