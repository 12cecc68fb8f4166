--------------------------- MODULE DnsPacketReader ---------------------------
(***************************************************************************)
(* The capture of DNS packets (reader/dns_packet_reader.go).  Cron starts  *)
(* a job every second; the first one to find running unset sets it and     *)
(* loops for good: it collects packets in tmpRecords, and saves them when  *)
(* there are maxRead of them or a second has passed without a packet.      *)
(*                                                                         *)
(* A packet is its number in the capture.  The look at running and its     *)
(* setting are two steps, and so are the two halves of append.             *)
(***************************************************************************)
EXTENDS Integers, Sequences, FiniteSets

CONSTANTS
  Jobs,        (* goroutines cron has for Run                               *)
  NoJob,
  MaxRead,     (* 1000 in the code                                          *)
  PacketsCap,  (* capacity of gopacket's channel (1000)                     *)
  RecordsCap,  (* capacity of records (10000 in the code)                   *)
  MaxPackets   (* bound: packets captured                                   *)

ASSUME DnsPacketAssumption ==
  /\ NoJob \notin Jobs
  /\ {MaxRead, PacketsCap, RecordsCap, MaxPackets} \subseteq Nat \ {0}

VARIABLES
  captured,      (* the number of packets captured                          *)
  packets,       (* r.source.Packets()                                      *)
  sourceClosed,  (* that channel is closed                                  *)
  running,       (* r.running                                               *)
  pc,            (* where each job stands                                   *)
  hand,          (* what append is about to store in tmpRecords             *)
  tmpRecords,    (* r.tmpRecords                                            *)
  lock,          (* the job in save, or NoJob                               *)
  saving,        (* what that job is about to send                          *)
  records,       (* r.records                                               *)
  recordsClosed,
  slots,         (* positions checkpoint.save still takes once its worker   *)
                 (* has stopped                                             *)
  stop,          (* how far Shutdown of reader.Manager and r has come        *)
  alive,         (* the process has not ended                               *)
  \* History: no guard reads these.
  dropped,       (* packets that were not unpacked                          *)
  raced          (* two jobs have been in the loop at once                  *)

source  == <<captured, packets, sourceClosed>>
job     == <<running, pc, hand, tmpRecords, lock, saving>>
channel == <<records, recordsClosed>>
ending  == <<slots, stop, alive>>
history == <<dropped, raced>>
readerVars == <<source, job, channel, ending, history>>

Packets == 1..MaxPackets

ReaderTypeOK ==
  /\ captured \in 0..MaxPackets
  /\ packets \in Seq(Packets) /\ Len(packets) <= PacketsCap
  /\ pc \in [Jobs -> {"out", "set", "loop", "append", "lock", "persist",
                      "send"}]
  /\ hand \in [Jobs -> Seq(Packets)]
  /\ tmpRecords \in Seq(Packets) /\ (~raced => Len(tmpRecords) <= MaxRead)
  /\ lock \in Jobs \cup {NoJob}
  /\ \A j \in Jobs : lock = j <=> pc[j] \in {"persist", "send"}
  /\ saving \in Seq(Packets)
  /\ records \in Seq(Seq(Packets)) /\ Len(records) <= RecordsCap
  /\ slots \in 0..1
  /\ stop \in {"no", "cron", "point", "records", "done"}
  /\ dropped \subseteq Packets
  /\ sourceClosed \in BOOLEAN /\ running \in BOOLEAN /\ recordsClosed \in BOOLEAN
  /\ alive \in BOOLEAN /\ raced \in BOOLEAN

\* NewDnsPacketReader and Init: the position found is not used to read.
ReaderInit ==
  /\ captured = 0 /\ packets = <<>> /\ sourceClosed = FALSE
  /\ running = FALSE
  /\ pc = [j \in Jobs |-> "out"] /\ hand = [j \in Jobs |-> <<>>]
  /\ tmpRecords = <<>> /\ lock = NoJob /\ saving = <<>>
  /\ records = <<>> /\ recordsClosed = FALSE
  /\ slots = 0 /\ stop = "no" /\ alive = TRUE
  /\ dropped = {} /\ raced = FALSE

Panic ==
  /\ alive' = FALSE
  /\ UNCHANGED <<source, job, channel, slots, stop, history>>

-----------------------------------------------------------------------------
(* gopacket *)

Capture ==
  /\ captured < MaxPackets
  /\ stop \in {"no", "cron", "point"} /\ ~sourceClosed
  /\ Len(packets) < PacketsCap
  /\ captured' = captured + 1
  /\ packets' = Append(packets, captured')
  /\ UNCHANGED <<sourceClosed, job, channel, ending, history>>

\* The handle is closed, and gopacket closes its channel.
SourceEnds ==
  /\ stop \notin {"no", "cron"}
  /\ ~sourceClosed
  /\ sourceClosed' = TRUE
  /\ UNCHANGED <<captured, packets, job, channel, ending, history>>

-----------------------------------------------------------------------------
(* Run *)

\* Cron starts a job, which looks at running.
Enter(j) ==
  /\ pc[j] = "out" /\ stop = "no" /\ ~running
  /\ pc' = [pc EXCEPT ![j] = "set"]
  /\ UNCHANGED <<source, running, hand, tmpRecords, lock, saving, channel, ending,
                 history>>

Looping == {j \in Jobs : pc[j] \in {"loop", "append", "lock", "persist", "send"}}

SetRunning(j) ==
  /\ pc[j] = "set"
  /\ pc' = [pc EXCEPT ![j] = "loop"]
  /\ running' = TRUE
  /\ raced' = (raced \/ Looping # {})
  /\ UNCHANGED <<source, hand, tmpRecords, lock, saving, channel, ending, dropped>>

\* A packet comes: it is unpacked and append begins, or it is dropped.
Receive(j) ==
  /\ pc[j] = "loop" /\ packets # <<>>
  /\ packets' = Tail(packets)
  /\ \/ /\ pc' = [pc EXCEPT ![j] = "append"]
        /\ hand' = [hand EXCEPT ![j] = Append(tmpRecords, Head(packets))]
        /\ UNCHANGED dropped
     \/ /\ dropped' = dropped \cup {Head(packets)}
        /\ UNCHANGED <<pc, hand>>
  /\ UNCHANGED <<captured, sourceClosed, running, tmpRecords, lock, saving, channel,
                 ending, raced>>

\* The source has ended: running stays set, and tmpRecords is left as it is.
ReceiveClosed(j) ==
  /\ pc[j] = "loop" /\ packets = <<>> /\ sourceClosed
  /\ pc' = [pc EXCEPT ![j] = "out"]
  /\ UNCHANGED <<source, running, hand, tmpRecords, lock, saving, channel, ending,
                 history>>

Store(j) ==
  /\ pc[j] = "append"
  /\ tmpRecords' = hand[j]
  /\ hand' = [hand EXCEPT ![j] = <<>>]
  /\ pc' = [pc EXCEPT ![j] = IF Len(hand[j]) >= MaxRead THEN "lock" ELSE "loop"]
  /\ UNCHANGED <<source, running, lock, saving, channel, ending, history>>

\* Mutant: one packet is not worth a save.
TickOfSeveral(j) ==
  /\ pc[j] = "loop" /\ Len(tmpRecords) > 1
  /\ pc' = [pc EXCEPT ![j] = "lock"]
  /\ UNCHANGED <<source, running, hand, tmpRecords, lock, saving, channel, ending,
                 history>>

\* A second without a packet.  (A value of stopChan ends the select only.)
Tick(j) ==
  /\ pc[j] = "loop" /\ tmpRecords # <<>>
  /\ pc' = [pc EXCEPT ![j] = "lock"]
  /\ UNCHANGED <<source, running, hand, tmpRecords, lock, saving, channel, ending,
                 history>>

-----------------------------------------------------------------------------
(* save *)

\* The last of tmpRecords is looked at; there may be none by now.
Lock(j) ==
  /\ pc[j] = "lock" /\ lock = NoJob
  /\ IF tmpRecords = <<>>
       THEN Panic
       ELSE /\ lock' = j
            /\ pc' = [pc EXCEPT ![j] = "persist"]
            /\ UNCHANGED <<source, running, hand, tmpRecords, saving, channel, ending,
                           history>>

\* PersistState: once the checkpoint's worker has stopped its channel fills up.
Persist(j) ==
  /\ pc[j] = "persist"
  /\ IF stop \in {"no", "cron"} THEN UNCHANGED slots
                                ELSE slots > 0 /\ slots' = slots - 1
  /\ saving' = tmpRecords
  /\ pc' = [pc EXCEPT ![j] = "send"]
  /\ UNCHANGED <<source, running, hand, tmpRecords, lock, channel, stop, alive,
                 history>>

\* Mutant: the send does not wait.
SendUnbounded(j) ==
  /\ pc[j] = "send" /\ ~recordsClosed
  /\ records' = Append(records, saving)
  /\ tmpRecords' = <<>> /\ saving' = <<>>
  /\ lock' = NoJob
  /\ pc' = [pc EXCEPT ![j] = "loop"]
  /\ UNCHANGED <<source, running, hand, recordsClosed, ending, history>>

\* Mutant: tmpRecords is not reset.
SendKeeping(j) ==
  /\ pc[j] = "send" /\ ~recordsClosed
  /\ Len(records) < RecordsCap
  /\ records' = Append(records, saving)
  /\ saving' = <<>>
  /\ lock' = NoJob
  /\ pc' = [pc EXCEPT ![j] = "loop"]
  /\ UNCHANGED <<source, running, hand, tmpRecords, recordsClosed, ending, history>>

Send(j) ==
  /\ pc[j] = "send" /\ ~recordsClosed
  /\ Len(records) < RecordsCap
  /\ records' = Append(records, saving)
  /\ tmpRecords' = <<>> /\ saving' = <<>>
  /\ lock' = NoJob
  /\ pc' = [pc EXCEPT ![j] = "loop"]
  /\ UNCHANGED <<source, running, hand, recordsClosed, ending, history>>

SendPanics(j) == pc[j] = "send" /\ recordsClosed /\ Panic

Step(j) ==
  \/ SetRunning(j) \/ Receive(j) \/ ReceiveClosed(j) \/ Store(j) \/ Lock(j)
  \/ Persist(j) \/ Send(j) \/ SendPanics(j)

-----------------------------------------------------------------------------
(* Shutdown, after that of reader.Manager *)

\* handle.Close() and a value for stopChan come before close(r.records); the
\* first is to be seen as SourceEnds only.
ShutdownRecords ==
  /\ stop = "point"
  /\ stop' = "records"
  /\ recordsClosed' = TRUE
  /\ UNCHANGED <<source, job, records, slots, alive, history>>

ShutdownTmp ==
  /\ stop = "records"
  /\ stop' = "done"
  /\ running' = FALSE
  /\ tmpRecords' = <<>>
  /\ UNCHANGED <<source, pc, hand, lock, saving, channel, slots, alive, history>>
=============================================================================
