---------------------------- MODULE ChannelReader ----------------------------
(***************************************************************************)
(* The reader of Windows event channels and .evtx files                    *)
(* (reader/channel_reader.go): every cron job subscribes after the last    *)
(* bookmark, reads until there is nothing left, drops what is not newer    *)
(* than its position, and saves the position before it sends a batch.      *)
(*                                                                         *)
(* An event is its index in the log, which also stands for its record      *)
(* number and its bookmark.  Its time need not be later than that of the   *)
(* one before it.  The query built for a channel leaves out events older   *)
(* than IgnoreOlder when they are read; a file is read without a query.    *)
(* The checkpoint is what module DurableLog says, for a single name.       *)
(***************************************************************************)
EXTENDS Integers, Sequences, FiniteSets, FiniteSetsExt

CONSTANTS
  MaxRead,     (* handles asked for at once (1000 in the code)              *)
  IgnoreOlder, (* age up to which the query of a channel returns events     *)
  RecordsCap,  (* capacity of records (1000 in the code)                    *)
  NoPosition,  (* the state file has no entry for the channel               *)
  MaxEvents,   (* bound: events in the log                                  *)
  MaxTime,     (* bound: the clock                                          *)
  MaxLag,      (* bound: positions saved and not on disk                    *)
  MaxFaults,   (* bound: calls of the Windows API that fail                 *)
  MaxCrashes   (* bound: restarts                                           *)

ASSUME ChannelAssumption ==
  /\ MaxRead \in Nat \ {0} /\ RecordsCap \in Nat \ {0} /\ MaxLag \in Nat \ {0}
  /\ IgnoreOlder \in Nat /\ MaxEvents \in Nat /\ MaxTime \in Nat
  /\ MaxFaults \in Nat /\ MaxCrashes \in Nat

Times == 0..MaxTime

\* checkpoint.EventLogState; bookmark 0 is the empty string.
Position == [time : Times, number : 0..MaxEvents, bookmark : 0..MaxEvents]

ASSUME NoPositionAssumption == NoPosition \notin Position

VARIABLES
  clock,   (* the present                                                   *)
  log,     (* times of the events of the Windows log                        *)
  file,    (* the log is an .evtx file, not a channel                       *)
  pc,      (* "down", "idle", or where the job that has the lock stands     *)
  running, (* c.running                                                     *)
  state,   (* c.state                                                       *)
  seen,    (* the state of the job's winEventReader                         *)
  cursor,  (* the last event the job's subscription has gone past           *)
  batch,   (* the records to be sent                                        *)
  pending, (* positions given to PersistState and not on disk               *)
  saved,   (* the position on disk                                          *)
  records, (* the channel of batches                                        *)
  stop,    (* how far Shutdown has come                                     *)
  faults,
  crashes,
  \* History: no guard reads these.
  base,    (* the time the reader began at, having found no position        *)
  sent,    (* events put in records in this process                         *)
  given,   (* events consumer.Manager has taken from records                *)
  lost,    (* events in records, or saved and not yet there, at a crash     *)
  missed,  (* events the query left out, or that could not be rendered      *)
  failed   (* a subscription has failed in this process                     *)

job        == <<pc, running, seen, cursor, batch>>
checkpoint == <<pending, saved>>
bounds     == <<faults, crashes>>
history    == <<base, sent, given, lost, missed, failed>>
vars       == <<clock, log, file, job, state, checkpoint, records, stop, bounds,
                history>>

Events  == DOMAIN log
Batched == UNION {records[k] : k \in DOMAIN records}

TypeOK ==
  /\ clock \in Times
  /\ log \in Seq(Times) /\ Len(log) <= MaxEvents
  /\ file \in BOOLEAN
  /\ pc \in {"down", "idle", "open", "loop", "persist", "send"}
  /\ running \in BOOLEAN
  /\ state \in Position \cup {NoPosition} /\ seen \in Position \cup {NoPosition}
  /\ cursor \in 0..Len(log)
  /\ batch \subseteq Events /\ (pc \in {"persist", "send"} <=> batch # {})
  /\ pending \in Seq(Position) /\ Len(pending) <= MaxLag
  /\ saved \in Position \cup {NoPosition}
  /\ records \in Seq(SUBSET Events) /\ Len(records) <= RecordsCap
  /\ stop \in {"no", "point", "running", "closed"}
  /\ faults \in 0..MaxFaults /\ crashes \in 0..MaxCrashes
  /\ base \in Times
  /\ sent \cup given \cup lost \cup missed \subseteq Events
  /\ failed \in BOOLEAN

Init ==
  /\ clock = 0
  /\ log = <<>>
  /\ file \in BOOLEAN
  /\ pc = "down" /\ running = FALSE /\ seen = NoPosition /\ cursor = 0 /\ batch = {}
  /\ state = NoPosition
  /\ pending = <<>> /\ saved = NoPosition
  /\ records = <<>>
  /\ stop = "no"
  /\ faults = 0 /\ crashes = 0
  /\ base = 0 /\ sent = {} /\ given = {} /\ lost = {} /\ missed = {}
  /\ failed = FALSE

-----------------------------------------------------------------------------
(* Windows and the process *)

\* Time passes, and an event may get the number before that of an earlier one.
Tick ==
  /\ clock < MaxTime
  /\ clock' = clock + 1
  /\ UNCHANGED <<log, file, job, state, checkpoint, records, stop, bounds, history>>

Log ==
  /\ Len(log) < MaxEvents
  /\ \E t \in {clock - 1, clock} \cap Times : log' = Append(log, t)
  /\ UNCHANGED <<clock, file, job, state, checkpoint, records, stop, bounds, history>>

\* addReader takes the position of the state file, or else saves the time.
Start ==
  /\ pc = "down"
  /\ pc' = "idle"
  /\ IF saved = NoPosition
       THEN /\ state' = [time |-> clock, number |-> 0, bookmark |-> 0]
            /\ pending' = <<state'>>
            /\ base' = clock
       ELSE /\ state' = saved
            /\ UNCHANGED <<pending, base>>
  /\ UNCHANGED <<clock, log, file, running, seen, cursor, batch, saved, records,
                 stop, bounds, sent, given, lost, missed, failed>>

\* The process ends: by itself, after Stop, or by a panic of a cron job.
Die ==
  /\ pc # "down"
  /\ crashes < MaxCrashes
  /\ crashes' = crashes + 1
  /\ pc' = "down" /\ running' = FALSE /\ seen' = NoPosition /\ cursor' = 0
  /\ batch' = {}
  /\ state' = NoPosition
  /\ pending' = <<>>
  /\ records' = <<>>
  /\ stop' = "no"
  /\ sent' = {} /\ failed' = FALSE
  /\ lost' = lost \cup Batched \cup (IF pc = "send" THEN batch ELSE {})
  /\ UNCHANGED <<clock, log, file, saved, faults, base, given, missed>>

Crash == Die

\* The checkpoint's worker has written the first n of the pending positions.
Flush(n) ==
  /\ stop = "no"
  /\ saved' = pending[n]
  /\ pending' = SubSeq(pending, n + 1, Len(pending))
  /\ UNCHANGED <<clock, log, file, job, state, records, stop, bounds, history>>

\* consumer.Manager takes a batch.
Take ==
  /\ records # <<>>
  /\ given' = given \cup Head(records)
  /\ records' = Tail(records)
  /\ UNCHANGED <<clock, log, file, job, state, checkpoint, stop, bounds, base,
                 sent, lost, missed, failed>>

\* The statements of Shutdown.
ShutdownPoint ==
  /\ pc # "down" /\ stop = "no"
  /\ crashes < MaxCrashes
  /\ stop' = "point"
  /\ UNCHANGED <<clock, log, file, job, state, checkpoint, records, bounds, history>>

ShutdownRunning ==
  /\ stop = "point"
  /\ stop' = "running"
  /\ running' = FALSE
  /\ UNCHANGED <<clock, log, file, pc, seen, cursor, batch, state, checkpoint,
                 records, bounds, history>>

ShutdownClose ==
  /\ stop = "running"
  /\ stop' = "closed"
  /\ UNCHANGED <<clock, log, file, job, state, checkpoint, records, bounds, history>>

-----------------------------------------------------------------------------
(* A job *)

Faulty == faults < MaxFaults /\ faults' = faults + 1

\* A job that gets the lock.  One that finds running set returns: no change.  Jobs
\* may have waited for the lock since before Shutdown, and do not look at it.
Run ==
  /\ pc = "idle"
  /\ ~running
  /\ pc' = "open"
  /\ running' = TRUE
  /\ seen' = state
  /\ UNCHANGED <<clock, log, file, cursor, batch, state, checkpoint, records, stop,
                 bounds, history>>

\* Where a subscription starts: after the bookmark, else after the record
\* number, else with the oldest event.
After(p) == IF p.bookmark > 0 THEN p.bookmark ELSE p.number

Open ==
  /\ pc = "open"
  /\ pc' = "loop"
  /\ cursor' = After(seen)
  /\ UNCHANGED <<clock, log, file, running, seen, batch, state, checkpoint, records,
                 stop, bounds, history>>

\* A file whose bookmark is not found is read from its beginning.
OpenFromBeginning ==
  /\ pc = "open"
  /\ file /\ After(seen) > 0
  /\ Faulty
  /\ pc' = "loop"
  /\ cursor' = 0
  /\ UNCHANGED <<clock, log, file, running, seen, batch, state, checkpoint, records,
                 stop, crashes, history>>

\* run returns with running as it is.
OpenFails ==
  /\ pc = "open"
  /\ Faulty
  /\ pc' = "idle"
  /\ failed' = TRUE
  /\ UNCHANGED <<clock, log, file, running, seen, cursor, batch, state, checkpoint,
                 records, stop, crashes, base, sent, given, lost, missed>>

\* What the query returns at present.
Visible(i) == file \/ clock - log[i] <= IgnoreOlder

\* The first n events after c that the query returns.
Handles(c, n) ==
  LET found == {i \in Events : i > c /\ Visible(i)}
  IN  {i \in found : Cardinality({j \in found : j < i}) < n}

\* Mutant: a record as old as the one before it is kept.
NewerOrTied(R) ==
  {i \in R : log[i] >= state.time /\ \A j \in R : j < i => log[j] <= log[i]}

\* run's filter: newer than the position, which moves with every record kept.
Newer(R) ==
  {i \in R : log[i] > state.time /\ \A j \in R : j < i => log[j] < log[i]}

\* Mutant: c.state takes the bookmark of the next event.
BookmarkedAhead(k, b) ==
  [time |-> log[k], number |-> k, bookmark |-> IF b = 0 \/ b = Len(log) THEN b ELSE b + 1]

\* c.state has the time and number of the last record kept, and the bookmark of
\* the last one read.
Bookmarked(k, b) == [time |-> log[k], number |-> k, bookmark |-> b]

\* Read has the handles H, renders R of them (none of which may be left), and
\* makes bookmark b of the last; run filters what Read returns.
Returned(H, R, b) ==
  /\ cursor' = Max(H)
  /\ missed' = missed \cup (H \ R) \cup {i \in 1..Max(H) : i > cursor /\ ~Visible(i)}
  /\ seen' = IF R = {} THEN seen ELSE [seen EXCEPT !.bookmark = b]
  /\ batch' = Newer(R)
  /\ IF batch' = {}
       THEN UNCHANGED <<pc, state>>
       ELSE /\ pc' = "persist"
            /\ state' = Bookmarked(Max(batch'), b)

Read ==
  /\ pc = "loop" /\ running
  /\ LET H == Handles(cursor, MaxRead)
     IN  H # {} /\ Returned(H, H, Max(H))
  /\ UNCHANGED <<clock, log, file, running, checkpoint, records, stop, bounds, base,
                 sent, given, lost, failed>>

\* An event is not rendered, or the last bookmark is not made.
ReadPartly ==
  /\ pc = "loop" /\ running
  /\ Faulty
  /\ LET H == Handles(cursor, MaxRead)
     IN  /\ H # {}
         /\ \/ \E i \in H : LET R == H \ {i}
                            IN  Returned(H, R, IF R = {} THEN 0 ELSE Max(R))
            \/ Returned(H, H, 0)
  /\ UNCHANGED <<clock, log, file, running, checkpoint, records, stop, crashes, base,
                 sent, given, lost, failed>>

\* RPC_S_INVALID_BOUND: subscribe again, after the last event read, and ask for
\* half as many.
Recover ==
  /\ pc = "loop" /\ running
  /\ Faulty
  /\ LET H == Handles(After(seen), MaxRead \div 2)
     IN  IF H = {} THEN /\ running' = FALSE
                        /\ cursor' = After(seen)
                        /\ UNCHANGED <<pc, seen, batch, state, missed>>
                   ELSE Returned(H, H, Max(H)) /\ UNCHANGED running
  /\ UNCHANGED <<clock, log, file, checkpoint, records, stop, crashes, base, sent,
                 given, lost, failed>>

\* No more items (every reader has stopIFEmpty), or an error.
ReadEnds ==
  /\ pc = "loop" /\ running
  /\ running' = FALSE
  /\ IF Handles(cursor, MaxRead) = {} THEN UNCHANGED faults ELSE Faulty
  /\ UNCHANGED <<clock, log, file, pc, seen, cursor, batch, state, checkpoint,
                 records, stop, crashes, history>>

\* Mutant: the job leaves running as it is.
LeaveRunning ==
  /\ pc = "loop" /\ ~running
  /\ pc' = "idle"
  /\ running' = TRUE
  /\ UNCHANGED <<clock, log, file, seen, cursor, batch, state, checkpoint, records,
                 stop, bounds, history>>

Leave ==
  /\ pc = "loop" /\ ~running
  /\ pc' = "idle"
  /\ UNCHANGED <<clock, log, file, running, seen, cursor, batch, state, checkpoint,
                 records, stop, bounds, history>>

\* PersistState waits while the checkpoint's worker is busy, or has stopped.
Persist ==
  /\ pc = "persist"
  /\ Len(pending) < MaxLag
  /\ pending' = Append(pending, state)
  /\ pc' = "send"
  /\ UNCHANGED <<clock, log, file, running, seen, cursor, batch, state, saved,
                 records, stop, bounds, history>>

\* Mutant: the send does not wait.
SendUnbounded ==
  /\ pc = "send"
  /\ stop # "closed"
  /\ records' = Append(records, batch)
  /\ sent' = sent \cup batch
  /\ batch' = {}
  /\ pc' = "loop"
  /\ UNCHANGED <<clock, log, file, running, seen, cursor, state, checkpoint, stop,
                 bounds, base, given, lost, missed, failed>>

Send ==
  /\ pc = "send"
  /\ stop # "closed"
  /\ Len(records) < RecordsCap
  /\ records' = Append(records, batch)
  /\ sent' = sent \cup batch
  /\ batch' = {}
  /\ pc' = "loop"
  /\ UNCHANGED <<clock, log, file, running, seen, cursor, state, checkpoint, stop,
                 bounds, base, given, lost, missed, failed>>

SendPanics == pc = "send" /\ stop = "closed" /\ Die

Step == Open \/ OpenFromBeginning \/ OpenFails \/ Read \/ ReadPartly \/ Recover
          \/ ReadEnds \/ Leave \/ Persist \/ Send

Next ==
  \/ Tick \/ Log \/ Start \/ Crash \/ Take
  \/ ShutdownPoint \/ ShutdownRunning \/ ShutdownClose
  \/ \E n \in DOMAIN pending : Flush(n)
  \/ Run \/ Step \/ SendPanics

Spec == Init /\ [][Next]_vars

\* Cron starts a job again and again until Shutdown, a job runs, the checkpoint's worker writes,
\* and the consumers come back for the next batch.
Fairness ==
  /\ WF_vars(stop = "no" /\ Run) /\ WF_vars(Step) /\ WF_vars(Take)
  /\ WF_vars(\E n \in DOMAIN pending : Flush(n))

FairSpec == Spec /\ Fairness

-----------------------------------------------------------------------------
(* Properties *)

\* Positions the reader is at, or may resume from.
Points == ({state, saved} \cup {pending[n] : n \in DOMAIN pending}) \ {NoPosition}

\* An event that is not newer than one before it in the log.
Overtaken(i) == \E j \in 1..(i - 1) : log[j] >= log[i]

\* No subscription starts beyond an event that was not handed on: one that is
\* neither in the channel or on its way there, nor was at a crash, had been left
\* out by the query, could not be rendered, or was not newer than an event
\* before it.  Failed bookmarks, recoveries, files read again from their
\* beginning, and restarts from an older position included.
NothingSkipped ==
  \A p \in Points : \A i \in 1..After(p) :
    base < log[i] =>
      i \in given \cup Batched \cup batch \cup lost \cup missed \/ Overtaken(i)

\* However often a process reads an event again (a recovery, a lost bookmark, a
\* file read from its beginning), it sends none twice and none that is not
\* newer than all it has sent.
SentInOrder ==
  [][\A i \in batch' \ batch : \A j \in sent \cup batch : log[j] < log'[i]]_vars

\* Every event is handed on in the end, unless the query leaves it out, or it
\* is overtaken, or a crash or Shutdown comes, or a subscription has failed (its
\* job leaves running set, and no later job does anything).
EventuallyRead ==
  \A i \in 1..MaxEvents :
    (pc # "down" /\ i \in Events /\ log[i] > base) ~>
      \/ i \in given \cup lost \cup missed
      \/ i \in Events /\ (Overtaken(i) \/ ~Visible(i))
      \/ failed \/ stop # "no" \/ pc = "down"
=============================================================================
