----------------------------- MODULE DurableLog -----------------------------
(***************************************************************************)
(* What package checkpoint promises, without its goroutine, its channel    *)
(* and its temporary file: a log of updates of which some prefix is on     *)
(* disk.  The file always equals that prefix applied in order; the prefix  *)
(* only grows; the end of a process forgets what lies beyond it and        *)
(* nothing else.                                                           *)
(***************************************************************************)
EXTENDS EventLogState

CONSTANT NoFile   (* the state file does not exist yet *)

VARIABLES
  log,      (* updates submitted and not forgotten, in order               *)
  durable,  (* how many of them are on disk                                *)
  file      (* what the state file holds                                   *)

vars == <<log, durable, file>>

TypeOK ==
  /\ log \in Seq(Update)
  /\ durable \in 0..Len(log)
  /\ file \in States \cup {NoFile}

Init ==
  /\ log = <<>>
  /\ durable = 0
  /\ file = NoFile

Submit(u) ==
  /\ log' = Append(log, u)
  /\ UNCHANGED <<durable, file>>

\* The first n updates reach the disk together.
Flush(n) ==
  /\ durable' = n
  /\ file' = View(log, n)
  /\ UNCHANGED log

\* The process ends: what is not on disk is gone.
Forget ==
  /\ log' = SubSeq(log, 1, durable)
  /\ UNCHANGED <<durable, file>>

Next ==
  \/ \E u \in Update : Submit(u)
  \/ \E n \in durable..Len(log) : Flush(n)
  \/ Forget

Spec == Init /\ [][Next]_vars
=============================================================================
