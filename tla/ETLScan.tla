------------------------------ MODULE ETLScan ------------------------------
(***************************************************************************)
(* scanXML (reader/etl_reader.go): from the events of a file to batches in *)
(* the channel records.                                                    *)
(*                                                                         *)
(* Every copy of the log holds all of it, so scanXML keeps the position of *)
(* the last event it has sent (time and MD5), drops what is older from the *)
(* next copy, and sends the rest in chunks, saving the position before it  *)
(* sends each.  At a restart the scheduler resumes from the position that  *)
(* reached the reader's state file.                                        *)
(*                                                                         *)
(* An event is its index in the log, which also stands for its MD5; the    *)
(* log is sorted by time.  A file is the number of events it holds: module *)
(* ETLPipeline says how it gets here, and that two files may change places *)
(* on the way, so any of them may be the next.  The checkpoint is the log  *)
(* of module DurableLog for a single name, without the prefix that no      *)
(* longer matters.                                                         *)
(***************************************************************************)
EXTENDS Integers, Sequences, FiniteSets, FiniteSetsExt

CONSTANTS
  MaxRead,     (* size of a chunk (10000 in the code)                       *)
  RecordsCap,  (* capacity of records (500 in the code)                     *)
  NoPosition,  (* the state file has no entry for the log                   *)
  MaxEvents,   (* bound: events in the log                                  *)
  MaxTime,     (* bound: the clock                                          *)
  MaxLag,      (* bound: positions saved and not on disk                    *)
  MaxCrashes   (* bound: restarts                                           *)

ASSUME ScanAssumption ==
  /\ MaxRead \in Nat \ {0} /\ RecordsCap \in Nat \ {0} /\ MaxLag \in Nat \ {0}
  /\ MaxEvents \in Nat /\ MaxTime \in Nat /\ MaxCrashes \in Nat

Times == 0..MaxTime

\* checkpoint.EventLogState as scanXML uses it; md5 0 is the empty string.
Position == [time : Times, md5 : 0..MaxEvents]

ASSUME NoPositionAssumption == NoPosition \notin Position

VARIABLES
  clock,    (* the time of the last event or start                          *)
  log,      (* times of the events of the Windows log                       *)
  files,    (* copies waiting to be scanned: how many events each holds     *)
  pc,       (* "down", "idle", "persist" or "send": where scanXML is        *)
  state,    (* w.state                                                      *)
  delta,    (* deltaEvents from startIndex on                               *)
  pending,  (* positions given to PersistState and not on disk              *)
  saved,    (* the position on disk                                         *)
  records,  (* the channel of batches                                       *)
  crashes,  (* restarts so far                                              *)
  \* History: no guard reads these.
  base,     (* the time the reader began at, having found no position       *)
  sent,     (* events put in records in this process                        *)
  given,    (* events consumer.Manager has taken from records               *)
  lost      (* events in records, or saved and not yet there, at a crash    *)

checkpoint == <<pending, saved>>
history    == <<base, sent, given, lost>>
vars       == <<clock, log, files, pc, state, delta, checkpoint, records, crashes,
                history>>

Events == DOMAIN log
Batched == UNION {records[k] : k \in DOMAIN records}

\* readChunk: the next MaxRead events of delta.
Chunk == {i \in delta : Cardinality({j \in delta : j < i}) < MaxRead}

Last == Max(Chunk)

\* A chunk whose position has been saved and that is not yet in records.
InFlight == IF pc = "send" THEN Chunk ELSE {}

TypeOK ==
  /\ clock \in Times
  /\ log \in Seq(Times) /\ Len(log) <= MaxEvents
  /\ files \subseteq 0..Len(log)
  /\ pc \in {"down", "idle", "persist", "send"}
  /\ state \in Position \cup {NoPosition}
  /\ delta \subseteq Events
  /\ pending \in Seq(Position) /\ Len(pending) <= MaxLag
  /\ saved \in Position \cup {NoPosition}
  /\ records \in Seq(SUBSET Events) /\ Len(records) <= RecordsCap
  /\ crashes \in 0..MaxCrashes
  /\ base \in Times
  /\ sent \subseteq Events /\ given \subseteq Events /\ lost \subseteq Events
  /\ pc \in {"persist", "send"} <=> delta # {}

Init ==
  /\ clock = 0
  /\ log = <<>>
  /\ files = {}
  /\ pc = "down"
  /\ state = NoPosition
  /\ delta = {}
  /\ pending = <<>> /\ saved = NoPosition
  /\ records = <<>>
  /\ crashes = 0
  /\ base = 0 /\ sent = {} /\ given = {} /\ lost = {}

-----------------------------------------------------------------------------
(* The Windows log and the process *)

\* An event at time now, which may be that of the last one.
Log(now) ==
  /\ Len(log) < MaxEvents
  /\ clock' = now
  /\ log' = Append(log, now)
  /\ UNCHANGED <<files, pc, state, delta, checkpoint, records, crashes, history>>

\* addReader takes the position of the state file, or else saves the time.
Resume ==
  /\ pc = "down"
  /\ saved # NoPosition
  /\ pc' = "idle"
  /\ state' = saved
  /\ UNCHANGED <<clock, log, files, delta, checkpoint, records, crashes, history>>

Start(now) ==
  /\ pc = "down"
  /\ saved = NoPosition
  /\ pc' = "idle"
  /\ clock' = now
  /\ state' = [time |-> now, md5 |-> 0]
  /\ pending' = <<state'>>
  /\ base' = now
  /\ UNCHANGED <<log, files, delta, saved, records, crashes, sent, given, lost>>

\* The process ends; the files and the position on disk stay.
Crash ==
  /\ pc # "down"
  /\ crashes < MaxCrashes
  /\ crashes' = crashes + 1
  /\ pc' = "down"
  /\ state' = NoPosition
  /\ delta' = {}
  /\ pending' = <<>>
  /\ records' = <<>>
  /\ sent' = {}
  /\ lost' = lost \cup Batched \cup InFlight
  /\ UNCHANGED <<clock, log, files, saved, base, given>>

\* A copy of the whole log, to be transferred and parsed.
Copy ==
  /\ pc # "down"
  /\ Len(log) \notin files
  /\ files' = files \cup {Len(log)}
  /\ UNCHANGED <<clock, log, pc, state, delta, checkpoint, records, crashes, history>>

\* The checkpoint's worker has written the first n of the pending positions.
Flush(n) ==
  /\ saved' = pending[n]
  /\ pending' = SubSeq(pending, n + 1, Len(pending))
  /\ UNCHANGED <<clock, log, files, pc, state, delta, records, crashes, history>>

-----------------------------------------------------------------------------
(* scanXML *)

\* Mutant: what is as old as the position is dropped.
IsNewStrictly(i) == log[i] > state.time

\* Mutant: nothing is dropped.
IsNewAlways(i) == i \in Events

\* Mutant: the MD5 is not looked at.
IsNewOrEqual(i) == log[i] >= state.time

\* The filter: newer than the position, or as old and not the same event.
IsNew(i) ==
  \/ log[i] > state.time
  \/ log[i] = state.time /\ i # state.md5

\* The first k events of a file of n are filtered and the file is deleted.  A
\* file that does not parse gives the events before the error.
Filter(n, k) ==
  /\ pc = "idle"
  /\ files' = files \ {n}
  /\ delta' = {i \in 1..k : IsNew(i)}
  /\ pc' = IF delta' = {} THEN "idle" ELSE "persist"
  /\ UNCHANGED <<clock, log, state, checkpoint, records, crashes, history>>

Scan == \E n \in files : Filter(n, n)

ScanPart == \E n \in files : \E k \in 0..(n - 1) : Filter(n, k)

\* Mutant: the position is that of the whole of deltaEvents.
PersistAll ==
  /\ pc = "persist"
  /\ Len(pending) < MaxLag
  /\ state' = [time |-> log[Max(delta)], md5 |-> Max(delta)]
  /\ pending' = Append(pending, state')
  /\ pc' = "send"
  /\ UNCHANGED <<clock, log, files, delta, saved, records, crashes, history>>

\* The position of the last event of the chunk is saved before it is sent.
\* PersistState waits while the checkpoint's worker is busy.
Persist ==
  /\ pc = "persist"
  /\ Len(pending) < MaxLag
  /\ state' = [time |-> log[Last], md5 |-> Last]
  /\ pending' = Append(pending, state')
  /\ pc' = "send"
  /\ UNCHANGED <<clock, log, files, delta, saved, records, crashes, history>>

\* Mutant: the send does not wait.
SendUnbounded ==
  /\ pc = "send"
  /\ records' = Append(records, Chunk)
  /\ sent' = sent \cup Chunk
  /\ delta' = delta \ Chunk
  /\ pc' = IF delta' = {} THEN "idle" ELSE "persist"
  /\ UNCHANGED <<clock, log, files, state, checkpoint, crashes, base, given, lost>>

Send ==
  /\ pc = "send"
  /\ Len(records) < RecordsCap
  /\ records' = Append(records, Chunk)
  /\ sent' = sent \cup Chunk
  /\ delta' = delta \ Chunk
  /\ pc' = IF delta' = {} THEN "idle" ELSE "persist"
  /\ UNCHANGED <<clock, log, files, state, checkpoint, crashes, base, given, lost>>

\* consumer.Manager takes a batch.
Take ==
  /\ records # <<>>
  /\ given' = given \cup Head(records)
  /\ records' = Tail(records)
  /\ UNCHANGED <<clock, log, files, pc, state, delta, checkpoint, crashes, base,
                 sent, lost>>

Next ==
  \/ Resume \/ Crash \/ Copy
  \/ \E now \in clock..MaxTime : Log(now) \/ Start(now)
  \/ \E n \in DOMAIN pending : Flush(n)
  \/ Scan \/ ScanPart \/ Persist \/ Send \/ Take

Spec == Init /\ [][Next]_vars

\* The goroutines run, the cron job copies the log again and again, not every
\* file fails to parse, and the consumers come back for the next batch.
Fairness ==
  /\ WF_vars(Copy) /\ SF_vars(Scan)
  /\ WF_vars(Persist) /\ WF_vars(Send) /\ WF_vars(Take)
  /\ WF_vars(\E n \in DOMAIN pending : Flush(n))

FairSpec == Spec /\ Fairness

-----------------------------------------------------------------------------
(* Properties *)

\* Positions the reader is at, or may resume from.
Points == ({state, saved} \cup {pending[n] : n \in DOMAIN pending}) \ {NoPosition}

\* The filter skips nothing: an event older than any position the reader has
\* or may resume from was handed on, is on its way, or was in the channel (or
\* about to enter it) at a crash.  Two events of one timestamp, a chunk or a
\* copy that ends between them, and copies that overtake each other included.
NothingSkipped ==
  \A i \in Events, p \in Points :
    base < log[i] /\ log[i] < p.time =>
      i \in given \cup Batched \cup delta \cup lost

\* What a process has sent it sends again only if it has the timestamp of the
\* position and is not the last event sent.
ResendsOnlyTies ==
  [][\A i \in (delta' \ delta) \cap sent : log[i] = state.time /\ i # state.md5]_vars

\* Copies that overtake each other never move the position of a process back.
PositionForward ==
  [][pc # "down" /\ pc' # "down" => state'.time >= state.time]_vars

\* Every event logged while the reader runs, or since its last position, is
\* handed on in the end, unless a crash takes it.
EventuallyGiven ==
  \A i \in 1..MaxEvents :
    (pc # "down" /\ i \in Events /\ log[i] > base) ~>
      (i \in given \cup lost \/ pc = "down")

\* The comment on the filter says it selects the records later than the last
\* update: a process sends no event twice.
SentOnce ==
  [][Len(records') > Len(records) => records'[Len(records')] \cap sent = {}]_vars
=============================================================================
