----------------------------- MODULE DnsLogTail -----------------------------
(***************************************************************************)
(* The Linux service (cmd/dnslogtail/schduler.go) with one device: cron    *)
(* and reader.Manager (reader/reader.go), the DNS packet reader, the       *)
(* channel of batches, and the topic of consumer.Manager that takes them.  *)
(* Stop starts the Shutdown of both managers and returns; the process ends *)
(* some time after that (here: nothing more need happen then), or when a   *)
(* goroutine panics.                                                       *)
(***************************************************************************)
EXTENDS DnsPacketReader, SequencesExt

CONSTANTS Consumers, Nil

\* hookConsumer makes a topic with its first consumer; Nil is not a batch.
ASSUME TopicAssumption == Consumers # {} /\ Nil \notin Seq(Packets)

VARIABLES current, busy, spinning, handled, stopped

manager == <<current, busy, spinning, handled, stopped>>
vars    == <<readerVars, manager>>

M == INSTANCE ConsumerManager WITH events <- records, closed <- recordsClosed

Batches == UNION {[1..n -> Packets] : n \in 0..MaxPackets}

TypeOK ==
  /\ ReaderTypeOK
  /\ current \in Seq(Packets) \cup {Nil}
  /\ busy \subseteq Consumers /\ spinning \subseteq busy
  /\ handled \in [Consumers -> Seq(Seq(Packets))]
  /\ stopped \in BOOLEAN

\* Start: one reader with its consumers, and both managers.
Init == ReaderInit /\ M!Init

-----------------------------------------------------------------------------
(* reader.Manager *)

\* Stop; reader.Manager.Shutdown stops cron, which waits for no job,
CronStop ==
  /\ stop = "no"
  /\ stop' = "cron"
  /\ UNCHANGED <<source, job, channel, slots, alive, history, manager>>

\* then the checkpoint, which may leave a position in its channel, and then
\* starts the Shutdown of each reader.
PointShutdown ==
  /\ stop = "cron"
  /\ stop' = "point"
  /\ slots' \in 0..1
  /\ UNCHANGED <<source, job, channel, alive, history, manager>>

ReaderStep ==
  /\ \/ Capture \/ SourceEnds
     \/ \E j \in Jobs : Enter(j) \/ Tick(j) \/ Step(j)
     \/ ShutdownRecords \/ ShutdownTmp
  /\ UNCHANGED manager

-----------------------------------------------------------------------------
(* consumer.Manager *)

readerRest == <<source, job, ending, history>>

Take       == (M!Take \/ M!TakeNil) /\ UNCHANGED readerRest
Finish(c)  == M!Finish(c) /\ UNCHANGED readerRest
Spin(c)    == M!Spin(c) /\ UNCHANGED readerRest
StopTopics == stop # "no" /\ M!Shutdown /\ UNCHANGED readerRest

Next ==
  /\ alive
  /\ \/ CronStop \/ PointShutdown \/ ReaderStep
     \/ Take \/ StopTopics
     \/ \E c \in Consumers : Finish(c) \/ Spin(c)

Spec == Init /\ [][Next]_vars

\* Cron starts jobs, and jobs run; the tick comes when no packet does; and
\* HandleEvents returns if it does not spin (that of a syslog consumer may not
\* either, once it is shut down).
Fairness ==
  /\ \A j \in Jobs :
       /\ WF_vars(alive /\ (Enter(j) \/ Step(j)) /\ UNCHANGED manager)
       /\ WF_vars(alive /\ packets = <<>> /\ Tick(j) /\ UNCHANGED manager)
  /\ WF_vars(alive /\ Take)
  /\ \A c \in Consumers : WF_vars(alive /\ stop = "no" /\ (Finish(c) \/ Spin(c)))

FairSpec == Spec /\ Fairness

-----------------------------------------------------------------------------
(* Properties *)

\* What the one job in the loop has collected: append has two halves.
Collected ==
  IF \E j \in Jobs : pc[j] = "append"
    THEN hand[CHOOSE j \in Jobs : pc[j] = "append"]
    ELSE tmpRecords

\* The batches given to a consumer so far: it has handled them, or is at the last.
Given(c) == handled[c] \o (IF c \in busy /\ current # Nil THEN <<current>> ELSE <<>>)

\* The way of the packets to a consumer, what is furthest coming first.
Line(c) == Append(Append(Given(c) \o records, Collected), packets)

InOrder(line) ==
  \A k, l \in DOMAIN line : \A m \in DOMAIN line[k], n \in DOMAIN line[l] :
    k < l \/ (k = l /\ m < n) => line[k][m] < line[l][n]

PacketsOf(line) == UNION {ToSet(line[k]) : k \in DOMAIN line}

\* Every packet of the capture that was unpacked is, once and in its place, in
\* what a consumer has handled, in the batch it is at, in the channel, with the
\* reader, or still to be received: through saves on a tick or for the number,
\* a full channel, and Shutdown at any point up to its last statement, which
\* drops what was collected.  It needs one job in the loop: two may see running
\* unset.
EachPacketOnce ==
  ~raced /\ stop # "done" =>
    \A c \in Consumers :
      InOrder(Line(c)) /\ PacketsOf(Line(c)) = (1..captured) \ dropped

\* The batches put in the channel so far: all consumers have handled those
\* before the one they are at.
Published == Given(CHOOSE d \in Consumers : TRUE) \o records

Abstract == INSTANCE FanOut WITH log <- Published, got <- handled

\* The loop of the topic gives every consumer every batch in order, and the nil
\* batches after Shutdown count for nothing.
ImplementsFanOut == Abstract!Spec

\* Each packet that comes in is handled by every consumer in the end, also when
\* no further packet comes to fill the batch, unless it is dropped, two jobs
\* are in the loop, Stop comes, or a consumer of the topic never returns from
\* HandleEvents: then the others get no further batch either.
PacketsHandled ==
  \A i \in Packets :
    i <= captured ~>
      \/ i \in dropped \/ raced \/ stop # "no" \/ spinning # {}
      \/ \A c \in Consumers : \E k \in DOMAIN handled[c] :
           \E n \in DOMAIN handled[c][k] : handled[c][k][n] = i
=============================================================================
