-------------------------- MODULE DnsLogTailProofs --------------------------
(***************************************************************************)
(* The Linux service keeps its types, and its topic implements FanOut, for *)
(* any jobs, consumers, batch size and channel capacities, with any number *)
(* of jobs in the loop at once.                                            *)
(***************************************************************************)
EXTENDS DnsLogTail, SequenceTheorems, TLAPS

\* What passes from hand to hand is no longer than what has been captured, so
\* it is a batch.
Lengths ==
  /\ \A j \in Jobs : Len(packets) + Len(hand[j]) <= captured
  /\ Len(packets) + Len(tmpRecords) <= captured
  /\ Len(packets) + Len(saving) <= captured

Passed ==
  /\ records \in Seq(Batches)
  /\ current \in Batches \cup {Nil}
  /\ handled \in [Consumers -> Seq(Batches)]

\* As long as no second job has been in the loop, there is room for one more
\* packet whenever nobody saves.
OneInLoop ==
  ~raced =>
    /\ \A i, j \in Looping : i = j
    /\ \A j \in Jobs : pc[j] = "append" => Len(hand[j]) <= MaxRead
    /\ (\A j \in Jobs : pc[j] \notin {"lock", "persist", "send"})
         => Len(tmpRecords) < MaxRead

\* The consumers are at the same batch.
InStep == \A c, d \in Consumers : Given(c) = Given(d)

ReaderInv  == ReaderTypeOK /\ Lengths /\ OneInLoop
ManagerInv ==
  /\ Passed /\ busy \subseteq Consumers /\ spinning \subseteq busy /\ stopped \in BOOLEAN
  /\ InStep
IInv       == ReaderInv /\ ManagerInv

LEMMA Sizes ==
  /\ NoJob \notin Jobs
  /\ MaxRead \in Nat \ {0} /\ PacketsCap \in Nat \ {0}
  /\ RecordsCap \in Nat \ {0} /\ MaxPackets \in Nat \ {0}
BY DnsPacketAssumption

USE Sizes DEF Packets

-----------------------------------------------------------------------------

LEMMA BatchesAreSequences == Batches \subseteq Seq(Packets)
BY DEF Batches

LEMMA ShortIsBatch ==
  ASSUME NEW s \in Seq(Packets), Len(s) <= MaxPackets
  PROVE  s \in Batches
<1>1. Len(s) \in 0..MaxPackets
  BY DEF Packets
<1>2. s \in [1..Len(s) -> Packets]
  BY LenProperties
<1> QED
  BY <1>1, <1>2 DEF Batches

LEMMA NilIsNoBatch == Nil \notin Batches
BY TopicAssumption, BatchesAreSequences

LEMMA InitEstablishes == Init => IInv
<1> SUFFICES ASSUME Init PROVE IInv
  OBVIOUS
<1> USE DEF Init, ReaderInit, M!Init
<1>1. ReaderTypeOK
  <2>1. \A j \in Jobs : lock = j <=> pc[j] \in {"persist", "send"}
    OBVIOUS
  <2>2. /\ packets \in Seq(Packets) /\ Len(packets) <= PacketsCap
        /\ hand \in [Jobs -> Seq(Packets)]
        /\ tmpRecords \in Seq(Packets) /\ Len(tmpRecords) <= MaxRead
        /\ saving \in Seq(Packets)
    OBVIOUS
  <2>3. records \in Seq(Seq(Packets)) /\ Len(records) <= RecordsCap
    OBVIOUS
  <2>4. dropped \subseteq Packets /\ captured \in 0..MaxPackets
    OBVIOUS
  <2>5. /\ pc \in [Jobs -> {"out", "set", "loop", "append", "lock", "persist", "send"}]
        /\ lock \in Jobs \cup {NoJob}
        /\ slots \in 0..1
        /\ stop \in {"no", "cron", "point", "records", "done"}
    OBVIOUS
  <2>6. /\ sourceClosed \in BOOLEAN /\ running \in BOOLEAN
        /\ recordsClosed \in BOOLEAN /\ alive \in BOOLEAN /\ raced \in BOOLEAN
    OBVIOUS
  <2> QED
    BY <2>1, <2>2, <2>3, <2>4, <2>5, <2>6, Zenon DEF ReaderTypeOK
<1>2. Lengths
  BY DEF Lengths
<1>3. OneInLoop
  BY DEF OneInLoop, Looping
<1>4. Passed
  BY DEF Passed
<1>5. InStep
  BY DEF InStep, Given
<1> QED
  BY <1>1, <1>2, <1>3, <1>4, <1>5 DEF IInv, ReaderInv, ManagerInv

-----------------------------------------------------------------------------
(* The reader *)

Frame == <<source, job, channel, ending, history>>

\* gopacket and the statements of Shutdown.
LEMMA SourceStep ==
  ASSUME ReaderInv, Capture \/ SourceEnds \/ ShutdownRecords \/ ShutdownTmp
  PROVE  ReaderInv'
<1> USE DEF ReaderInv, source, job, channel, ending, history
<1>1. CASE Capture
  <2>1. ReaderTypeOK'
    BY <1>1 DEF Capture, ReaderTypeOK
  <2>2. Lengths'
    BY <1>1 DEF Capture, ReaderTypeOK, Lengths
  <2>3. OneInLoop'
    BY <1>1 DEF Capture, OneInLoop, Looping
  <2> QED
    BY <2>1, <2>2, <2>3
<1>2. CASE SourceEnds
  BY <1>2 DEF SourceEnds, ReaderTypeOK, Lengths, OneInLoop, Looping
<1>3. CASE ShutdownRecords
  BY <1>3 DEF ShutdownRecords, ReaderTypeOK, Lengths, OneInLoop, Looping
<1>4. CASE ShutdownTmp
  <2>1. tmpRecords' \in Seq(Packets) /\ Len(tmpRecords') = 0
    BY <1>4 DEF ShutdownTmp
  <2>2. ReaderTypeOK'
    <3>1. Len(tmpRecords') <= MaxRead
      BY <2>1
    <3> QED
      BY <1>4, <2>1, <3>1 DEF ShutdownTmp, ReaderTypeOK
  <2>3. Lengths' /\ OneInLoop'
    BY <1>4, <2>1 DEF ShutdownTmp, ReaderTypeOK, Lengths, OneInLoop, Looping
  <2> QED
    BY <2>2, <2>3
<1> QED
  BY <1>1, <1>2, <1>3, <1>4

\* A panic changes nothing but alive.
LEMMA PanicStep ==
  ASSUME ReaderInv, Panic
  PROVE  ReaderInv'
BY DEF Panic, ReaderInv, ReaderTypeOK, Lengths, OneInLoop, Looping, source, job,
       channel, history

\* With one job in the loop, a step of that job has only itself to look at.
LEMMA OneLoopMoves ==
  ASSUME ReaderTypeOK, OneInLoop, NEW j \in Looping, NEW to,
         pc' = [pc EXCEPT ![j] = to], raced' = raced,
         ~raced => /\ to = "append" => Len(hand'[j]) <= MaxRead
                   /\ to \notin {"lock", "persist", "send"} => Len(tmpRecords') < MaxRead
  PROVE  OneInLoop'
<1> SUFFICES ASSUME ~raced PROVE OneInLoop'
  BY DEF OneInLoop
<1>1. j \in Jobs /\ \A k \in Jobs : k # j => k \notin Looping
  BY DEF OneInLoop, Looping
<1>2. pc'[j] = to /\ \A k \in Jobs : k # j => pc'[k] = pc[k]
  BY <1>1 DEF ReaderTypeOK
<1>3. \A k \in Jobs : k # j => k \notin Looping' /\ pc'[k] # "append"
  BY <1>1, <1>2 DEF Looping
<1>4. \A i, k \in Looping' : i = k
  BY <1>3 DEF Looping
<1>5. \A k \in Jobs : pc'[k] = "append" => Len(hand'[k]) <= MaxRead
  BY <1>2, <1>3
<1>6. (\A k \in Jobs : pc'[k] \notin {"lock", "persist", "send"}) => Len(tmpRecords') < MaxRead
  BY <1>1, <1>2
<1> QED
  BY <1>4, <1>5, <1>6 DEF OneInLoop

\* What OneInLoop says of a job in the loop.
LEMMA LoopRoom ==
  ASSUME ReaderTypeOK, OneInLoop, ~raced, NEW j \in Looping
  PROVE  /\ pc[j] = "append" => Len(hand[j]) <= MaxRead
         /\ pc[j] \notin {"lock", "persist", "send"} => Len(tmpRecords) < MaxRead
<1>1. j \in Jobs /\ \A k \in Jobs : k # j => k \notin Looping
  BY DEF OneInLoop, Looping
<1>2. \A k \in Jobs : k # j => pc[k] \notin {"lock", "persist", "send"}
  BY <1>1 DEF Looping
<1> QED
  BY <1>1, <1>2 DEF OneInLoop

\* A job up to the moment it saves.
LEMMA LoopStep ==
  ASSUME ReaderInv, NEW j \in Jobs,
         Enter(j) \/ SetRunning(j) \/ Receive(j) \/ ReceiveClosed(j) \/ Store(j)
           \/ Tick(j)
  PROVE  ReaderInv'
<1> USE DEF ReaderInv, source, job, channel, ending, history
<1>1. CASE Enter(j)
  BY <1>1 DEF Enter, ReaderTypeOK, Lengths, OneInLoop, Looping
<1>2. CASE SetRunning(j)
  <2>1. ReaderTypeOK' /\ Lengths'
    BY <1>2 DEF SetRunning, ReaderTypeOK, Lengths
  <2>2. OneInLoop'
    <3> SUFFICES ASSUME ~raced' PROVE OneInLoop'
      BY DEF OneInLoop
    <3>1. ~raced /\ Looping = {} /\ UNCHANGED <<hand, tmpRecords>>
      BY <1>2 DEF SetRunning, ReaderTypeOK
    <3>2. \A k \in Jobs : pc[k] \in {"out", "set"}
      BY <3>1 DEF ReaderTypeOK, Looping
    <3>3. Len(tmpRecords) < MaxRead
      BY <3>1, <3>2 DEF OneInLoop
    <3>4. \A k \in Jobs : pc'[k] = IF k = j THEN "loop" ELSE pc[k]
      BY <1>2 DEF SetRunning, ReaderTypeOK
    <3>5. Looping' \subseteq {j} /\ \A k \in Jobs : pc'[k] # "append"
      BY <3>2, <3>4 DEF Looping
    <3> QED
      BY <3>1, <3>3, <3>5 DEF OneInLoop
  <2> QED
    BY <2>1, <2>2
<1>3. CASE Receive(j)
  <2>1. packets' \in Seq(Packets) /\ Len(packets') = Len(packets) - 1
        /\ Head(packets) \in Packets
    BY <1>3 DEF Receive, ReaderTypeOK
  <2>2. CASE pc' = [pc EXCEPT ![j] = "append"]
             /\ hand' = [hand EXCEPT ![j] = Append(tmpRecords, Head(packets))]
             /\ UNCHANGED dropped
    <3>1. Append(tmpRecords, Head(packets)) \in Seq(Packets)
          /\ Len(Append(tmpRecords, Head(packets))) = Len(tmpRecords) + 1
      BY <2>1 DEF ReaderTypeOK
    <3>2. ReaderTypeOK'
      BY <1>3, <2>1, <2>2, <3>1 DEF Receive, ReaderTypeOK
    <3>3. Lengths'
      <4>1. ASSUME NEW i \in Jobs PROVE Len(packets') + Len(hand'[i]) <= captured
        <5>1. CASE i = j
          BY <2>1, <2>2, <3>1, <5>1 DEF ReaderTypeOK, Lengths
        <5>2. CASE i # j
          <6>1. hand'[i] = hand[i] /\ hand[i] \in Seq(Packets)
            BY <2>2, <5>2 DEF ReaderTypeOK
          <6> QED
            BY <2>1, <6>1 DEF ReaderTypeOK, Lengths
        <5> QED
          BY <5>1, <5>2
      <4>2. UNCHANGED <<captured, tmpRecords, saving>>
        BY <1>3 DEF Receive
      <4>3. /\ Len(packets) \in Nat /\ Len(tmpRecords) \in Nat /\ Len(saving) \in Nat
            /\ captured \in Nat
        BY DEF ReaderTypeOK
      <4>4. Len(packets') + Len(tmpRecords) <= captured /\ Len(packets') + Len(saving) <= captured
        BY <2>1, <4>3 DEF Lengths
      <4> QED
        BY <4>1, <4>2, <4>4 DEF Lengths
    <3>4. OneInLoop'
      <4>1. j \in Looping /\ pc[j] = "loop"
        BY <1>3 DEF Receive, Looping
      <4>2. /\ hand'[j] = Append(tmpRecords, Head(packets))
            /\ tmpRecords' = tmpRecords /\ raced' = raced
        BY <1>3, <2>2 DEF Receive, ReaderTypeOK
      <4>3. ~raced => Len(tmpRecords) < MaxRead
        BY <4>1, LoopRoom
      <4>4. Len(tmpRecords) \in Nat
        BY DEF ReaderTypeOK
      <4>5. ~raced => Len(hand'[j]) <= MaxRead
        BY <3>1, <4>2, <4>3, <4>4
      <4>6. pc' = [pc EXCEPT ![j] = "append"]
        BY <2>2
      <4> QED
        BY <4>1, <4>2, <4>3, <4>5, <4>6, OneLoopMoves
    <3> QED
      BY <3>2, <3>3, <3>4
  <2>3. CASE dropped' = dropped \cup {Head(packets)} /\ UNCHANGED <<pc, hand>>
    <3>1. ReaderTypeOK'
      <4>1. dropped' \subseteq Packets
        BY <2>1, <2>3 DEF ReaderTypeOK
      <4> QED
        BY <1>3, <2>1, <2>3, <4>1 DEF Receive, ReaderTypeOK
    <3>2. Lengths'
      <4>1. UNCHANGED <<captured, hand, tmpRecords, saving>>
        BY <1>3, <2>3 DEF Receive
      <4>2. /\ Len(packets) \in Nat /\ captured \in Nat
            /\ Len(tmpRecords) \in Nat /\ Len(saving) \in Nat
            /\ \A i \in Jobs : Len(hand[i]) \in Nat
        BY DEF ReaderTypeOK
      <4> QED
        BY <2>1, <4>1, <4>2 DEF Lengths
    <3>3. OneInLoop'
      BY <1>3, <2>3 DEF Receive, OneInLoop, Looping
    <3> QED
      BY <3>1, <3>2, <3>3
  <2> QED
    BY <1>3, <2>2, <2>3 DEF Receive
<1>4. CASE ReceiveClosed(j)
  <2>1. ReaderTypeOK' /\ Lengths'
    BY <1>4 DEF ReceiveClosed, ReaderTypeOK, Lengths
  <2>2. OneInLoop'
    BY <1>4, LoopRoom, OneLoopMoves DEF ReceiveClosed, Looping
  <2> QED
    BY <2>1, <2>2
<1>5. CASE Store(j)
  <2>1. ReaderTypeOK'
    BY <1>5 DEF Store, ReaderTypeOK, OneInLoop
  <2>2. Lengths'
    BY <1>5 DEF Store, ReaderTypeOK, Lengths
  <2>3. OneInLoop'
    <3>1. j \in Looping /\ UNCHANGED raced /\ tmpRecords' = hand[j]
      BY <1>5 DEF Store, Looping
    <3>2. CASE Len(hand[j]) >= MaxRead
      <4>1. pc' = [pc EXCEPT ![j] = "lock"]
        BY <1>5, <3>2 DEF Store
      <4> QED
        BY <3>1, <4>1, OneLoopMoves
    <3>3. CASE ~(Len(hand[j]) >= MaxRead)
      <4>1. pc' = [pc EXCEPT ![j] = "loop"]
        BY <1>5, <3>3 DEF Store
      <4>2. Len(hand[j]) < MaxRead
        BY <3>3 DEF ReaderTypeOK
      <4> QED
        BY <3>1, <4>1, <4>2, OneLoopMoves
    <3> QED
      BY <3>2, <3>3
  <2> QED
    BY <2>1, <2>2, <2>3
<1>6. CASE Tick(j)
  <2>1. ReaderTypeOK' /\ Lengths'
    BY <1>6 DEF Tick, ReaderTypeOK, Lengths
  <2>2. OneInLoop'
    BY <1>6, OneLoopMoves DEF Tick, Looping
  <2> QED
    BY <2>1, <2>2
<1> QED
  BY <1>1, <1>2, <1>3, <1>4, <1>5, <1>6

\* save.
LEMMA SaveStep ==
  ASSUME ReaderInv, NEW j \in Jobs,
         Lock(j) \/ Persist(j) \/ Send(j) \/ SendPanics(j)
  PROVE  ReaderInv'
<1> USE DEF ReaderInv, source, job, channel, ending, history
<1>1. CASE Lock(j)
  <2>1. CASE tmpRecords = <<>>
    BY <1>1, <2>1, PanicStep DEF Lock
  <2>2. CASE tmpRecords # <<>>
    <3>1. ReaderTypeOK'
      BY <1>1, <2>2 DEF Lock, ReaderTypeOK
    <3>2. Lengths'
      BY <1>1, <2>2 DEF Lock, Lengths
    <3>3. OneInLoop'
      BY <1>1, <2>2, OneLoopMoves DEF Lock, Looping
    <3> QED
      BY <3>1, <3>2, <3>3
  <2> QED
    BY <2>1, <2>2
<1>2. CASE Persist(j)
  <2>1. ReaderTypeOK'
    BY <1>2 DEF Persist, ReaderTypeOK
  <2>2. Lengths'
    BY <1>2 DEF Persist, Lengths
  <2>3. OneInLoop'
    BY <1>2, OneLoopMoves DEF Persist, Looping
  <2> QED
    BY <2>1, <2>2, <2>3
<1>3. CASE Send(j)
  <2>1. ReaderTypeOK'
    BY <1>3 DEF Send, ReaderTypeOK
  <2>2. Lengths'
    BY <1>3 DEF Send, ReaderTypeOK, Lengths
  <2>3. OneInLoop'
    <3>1. j \in Looping /\ pc' = [pc EXCEPT ![j] = "loop"] /\ UNCHANGED raced
      BY <1>3 DEF Send, Looping
    <3>2. Len(tmpRecords') < MaxRead
      BY <1>3 DEF Send
    <3> QED
      BY <3>1, <3>2, OneLoopMoves
  <2> QED
    BY <2>1, <2>2, <2>3
<1>4. CASE SendPanics(j)
  BY <1>4, PanicStep DEF SendPanics
<1> QED
  BY <1>1, <1>2, <1>3, <1>4

-----------------------------------------------------------------------------
(* The topic *)

LEMMA GivenType ==
  ASSUME Passed, NEW c \in Consumers
  PROVE  Given(c) \in Seq(Batches) /\ handled[c] \in Seq(Batches)
<1>1. handled[c] \in Seq(Batches)
  BY DEF Passed
<1>2. CASE c \in busy /\ current # Nil
  <2>1. <<current>> \in Seq(Batches)
    BY <1>2 DEF Passed
  <2> QED
    BY <1>1, <1>2, <2>1, ConcatProperties DEF Given
<1>3. CASE ~(c \in busy /\ current # Nil)
  BY <1>1, <1>3, ConcatEmptySeq DEF Given
<1> QED
  BY <1>1, <1>2, <1>3

\* A job's step: what it sends is a batch.
LEMMA ReaderKeepsManagerInv ==
  ASSUME IInv, UNCHANGED manager,
         UNCHANGED records \/ records' = Append(records, saving)
  PROVE  ManagerInv'
<1>1. Passed'
  <2>1. saving \in Batches
    <3>1. Len(saving) <= MaxPackets /\ saving \in Seq(Packets)
      BY DEF IInv, ReaderInv, ReaderTypeOK, Lengths
    <3> QED
      BY <3>1, ShortIsBatch
  <2> QED
    BY <2>1, AppendProperties DEF IInv, ManagerInv, Passed, manager
<1>2. InStep'
  BY DEF IInv, ManagerInv, InStep, Given, manager
<1> QED
  BY <1>1, <1>2 DEF IInv, ManagerInv, manager

\* The topic leaves the reader its types.
LEMMA TopicKeepsReaderInv ==
  ASSUME ReaderInv, UNCHANGED readerRest, UNCHANGED recordsClosed,
         UNCHANGED records \/ (records # <<>> /\ records' = Tail(records))
  PROVE  ReaderInv'
<1>1. records' \in Seq(Seq(Packets)) /\ Len(records') <= RecordsCap
  <2>1. records \in Seq(Seq(Packets)) /\ Len(records) <= RecordsCap
        /\ Len(records) \in Nat
    BY DEF ReaderInv, ReaderTypeOK
  <2>2. CASE records # <<>> /\ records' = Tail(records)
    <3>1. records' \in Seq(Seq(Packets)) /\ Len(records') = Len(records) - 1
      BY <2>1, <2>2, HeadTailProperties
    <3> QED
      BY <2>1, <3>1
  <2> QED
    BY <2>1, <2>2
<1>2. ReaderTypeOK'
  BY <1>1 DEF ReaderInv, ReaderTypeOK, readerRest, source, job, ending, history
<1>3. Lengths' /\ OneInLoop'
  BY DEF ReaderInv, Lengths, OneInLoop, Looping, readerRest, source, job, history
<1> QED
  BY <1>2, <1>3 DEF ReaderInv

LEMMA FinishKeepsGiven ==
  ASSUME Passed, NEW c \in Consumers, M!Finish(c), NEW d \in Consumers
  PROVE  Given(d)' = Given(d)
<1> USE DEF M!Finish
<1>1. handled[d] \in Seq(Batches)
  BY DEF Passed
<1>2. CASE d # c
  BY <1>2 DEF Passed, Given
<1>3. CASE d = c /\ current = Nil
  BY <1>3 DEF Given
<1>4. CASE d = c /\ current # Nil
  <2>1. Given(d)' = Append(handled[d], current) \o <<>>
    BY <1>4 DEF Passed, Given
  <2>2. Given(d) = handled[d] \o <<current>>
    BY <1>4 DEF Given
  <2>3. current \in Batches
    BY <1>4 DEF Passed
  <2>4. /\ Append(handled[d], current) = handled[d] \o <<current>>
        /\ Append(handled[d], current) \in Seq(Batches)
    BY <1>1, <2>3, AppendIsConcat, AppendProperties
  <2> QED
    BY <2>1, <2>2, <2>4, ConcatEmptySeq
<1> QED
  BY <1>2, <1>3, <1>4

\* What Take does to what the consumers have been given.
LEMMA TakeGives ==
  ASSUME Passed, M!Take, NEW c \in Consumers
  PROVE  Given(c) = handled[c] /\ Given(c)' = handled[c] \o <<Head(records)>>
<1>1. handled[c] \in Seq(Batches)
  BY DEF Passed
<1>2. Given(c) = handled[c]
  BY <1>1, ConcatEmptySeq DEF M!Take, Given
<1>3. current' # Nil
  BY NilIsNoBatch, HeadTailProperties DEF M!Take, Passed
<1> QED
  BY <1>2, <1>3 DEF M!Take, Given

LEMMA TakeNilGives ==
  ASSUME Passed, M!TakeNil, NEW c \in Consumers
  PROVE  Given(c) = handled[c] /\ Given(c)' = handled[c]
<1>1. handled[c] \in Seq(Batches)
  BY DEF Passed
<1> QED
  BY <1>1, ConcatEmptySeq DEF M!TakeNil, Given

LEMMA TopicStep ==
  ASSUME IInv, Take \/ StopTopics \/ \E c \in Consumers : Finish(c) \/ Spin(c)
  PROVE  IInv'
<1> USE DEF IInv, ManagerInv
<1>1. CASE M!Take /\ UNCHANGED readerRest
  <2>1. ReaderInv'
    BY <1>1, TopicKeepsReaderInv DEF M!Take
  <2>2. Passed'
    BY <1>1, HeadTailProperties DEF M!Take, Passed
  <2>3. InStep'
    BY <1>1, TakeGives DEF InStep
  <2> QED
    BY <1>1, <2>1, <2>2, <2>3 DEF M!Take
<1>2. CASE M!TakeNil /\ UNCHANGED readerRest
  <2>1. ReaderInv'
    BY <1>2, TopicKeepsReaderInv DEF M!TakeNil
  <2>2. Passed'
    BY <1>2 DEF M!TakeNil, Passed
  <2>3. InStep'
    BY <1>2, TakeNilGives DEF InStep
  <2> QED
    BY <1>2, <2>1, <2>2, <2>3 DEF M!TakeNil
<1>3. CASE StopTopics \/ \E c \in Consumers : Spin(c)
  <2>1. ReaderInv'
    <3>1. UNCHANGED readerRest /\ UNCHANGED recordsClosed /\ UNCHANGED records
      BY <1>3 DEF StopTopics, Spin, M!Shutdown, M!Spin
    <3> QED
      BY <3>1, TopicKeepsReaderInv
  <2> QED
    BY <1>3, <2>1 DEF StopTopics, Spin, M!Shutdown, M!Spin, Passed,
       InStep, Given
<1>4. ASSUME NEW c \in Consumers, Finish(c)
      PROVE  IInv'
  <2>1. ReaderInv'
    <3>1. UNCHANGED readerRest /\ UNCHANGED recordsClosed /\ UNCHANGED records
      BY <1>4 DEF Finish, M!Finish
    <3> QED
      BY <3>1, TopicKeepsReaderInv
  <2>2. Passed'
    <3>1. current # Nil => Append(handled[c], current) \in Seq(Batches)
      BY AppendProperties DEF Passed
    <3> QED
      BY <1>4, <3>1 DEF Finish, M!Finish, Passed
  <2>3. InStep'
    BY <1>4, FinishKeepsGiven DEF Finish, InStep
  <2> QED
    BY <1>4, <2>1, <2>2, <2>3 DEF Finish, M!Finish
<1> QED
  BY <1>1, <1>2, <1>3, <1>4 DEF Take

-----------------------------------------------------------------------------

\* No action of the reader's touches the topic, and only Send the channel.
LEMMA ReaderLeavesChannel ==
  ASSUME ReaderStep
  PROVE  /\ UNCHANGED manager
         /\ \/ UNCHANGED records
            \/ \E j \in Jobs : Send(j)
<1>1. CASE Capture \/ SourceEnds \/ ShutdownRecords \/ ShutdownTmp
  BY <1>1 DEF ReaderStep, Capture, SourceEnds, ShutdownRecords, ShutdownTmp, channel
<1>2. ASSUME NEW j \in Jobs, Enter(j) \/ Tick(j) \/ Step(j)
      PROVE  UNCHANGED records \/ Send(j)
  BY <1>2 DEF Step, Enter, Tick, SetRunning, Receive, ReceiveClosed, Store, Lock,
       Persist, SendPanics, Panic, channel
<1> QED
  BY <1>1, <1>2 DEF ReaderStep

LEMMA StepPreserves == IInv /\ [Next]_vars => IInv'
<1> SUFFICES ASSUME IInv, [Next]_vars PROVE IInv'
  OBVIOUS
<1>1. CASE CronStop \/ PointShutdown
  <2>1. ReaderInv'
    BY <1>1 DEF CronStop, PointShutdown, IInv, ReaderInv, ReaderTypeOK, Lengths,
         OneInLoop, Looping, source, job, channel, history
  <2>2. ManagerInv'
    BY <1>1, ReaderKeepsManagerInv DEF CronStop, PointShutdown, channel
  <2> QED
    BY <2>1, <2>2 DEF IInv
<1>2. CASE ReaderStep
  <2>1. ReaderInv'
    BY <1>2, SourceStep, LoopStep, SaveStep DEF IInv, ReaderStep, Step
  <2>2. ManagerInv'
    BY <1>2, ReaderLeavesChannel, ReaderKeepsManagerInv DEF Send
  <2> QED
    BY <2>1, <2>2 DEF IInv
<1>3. CASE Take \/ StopTopics \/ \E c \in Consumers : Finish(c) \/ Spin(c)
  BY <1>3, TopicStep
<1>4. CASE UNCHANGED vars
  <2>1. ReaderInv'
    BY <1>4, TopicKeepsReaderInv DEF vars, readerVars, readerRest, channel, IInv
  <2>2. ManagerInv'
    BY <1>4, ReaderKeepsManagerInv DEF vars, readerVars, channel
  <2> QED
    BY <2>1, <2>2 DEF IInv
<1> QED
  BY <1>1, <1>2, <1>3, <1>4 DEF Next

LEMMA Invariance == Spec => []IInv
BY InitEstablishes, StepPreserves, PTL DEF Spec

\* Every variable of the service keeps its type, and neither channel nor batch
\* grows beyond its limit as long as one job is in the loop.
THEOREM TypeCorrect == Spec => []TypeOK
<1>1. IInv => TypeOK
  <2> SUFFICES ASSUME IInv PROVE TypeOK
    OBVIOUS
  <2>1. handled \in [Consumers -> Seq(Seq(Packets))] /\ current \in Seq(Packets) \cup {Nil}
    BY BatchesAreSequences, SeqMonotonic DEF IInv, ManagerInv, Passed
  <2> QED
    BY <2>1 DEF IInv, ReaderInv, ManagerInv, TypeOK
<1> QED
  BY <1>1, Invariance, PTL

-----------------------------------------------------------------------------
(* The refinement *)

\* Any consumer tells what has been published, before a step and after it.
LEMMA PublishedIs ==
  ASSUME NEW c \in Consumers
  PROVE  /\ InStep => Published = Given(c) \o records
         /\ InStep' => Published' = Given(c)' \o records'
<1> DEFINE first == CHOOSE d \in Consumers : TRUE
<1>1. first \in Consumers
  OBVIOUS
<1>2. Published = Given(first) \o records
  BY DEF Published
<1>3. Published' = Given(first)' \o records'
  BY DEF Published
<1>4. InStep => Given(c) = Given(first)
  BY <1>1 DEF InStep
<1>5. InStep' => Given(c)' = Given(first)'
  BY <1>1 DEF InStep
<1> QED
  BY <1>2, <1>3, <1>4, <1>5

\* A batch put in the channel is published.
LEMMA SendAppends ==
  ASSUME IInv, IInv', NEW j \in Jobs, Send(j), UNCHANGED manager
  PROVE  saving \in Batches /\ Published' = Append(Published, saving)
<1>1. PICK c \in Consumers : TRUE
  BY TopicAssumption
<1>2. Published = Given(c) \o records /\ Published' = Given(c)' \o records'
  BY PublishedIs DEF IInv, ManagerInv
<1>3. Given(c)' = Given(c) /\ records' = Append(records, saving)
  BY DEF Send, Given, manager
<1>4. saving \in Batches
  <2>1. Len(saving) <= MaxPackets /\ saving \in Seq(Packets)
    BY DEF IInv, ReaderInv, ReaderTypeOK, Lengths
  <2> QED
    BY <2>1, ShortIsBatch
<1>5. Given(c) \in Seq(Batches) /\ records \in Seq(Batches)
  BY GivenType DEF IInv, ManagerInv, Passed
<1>6. Published' = Append(Published, saving)
  <2>1. Append(records, saving) = records \o <<saving>>
        /\ <<saving>> \in Seq(Batches)
    BY <1>4, <1>5, AppendIsConcat
  <2>2. Given(c) \o records \in Seq(Batches)
    BY <1>5, ConcatProperties
  <2>3. Append(Given(c) \o records, saving) = (Given(c) \o records) \o <<saving>>
    BY <1>4, <2>2, AppendIsConcat
  <2> QED
    BY <1>2, <1>3, <1>5, <2>1, <2>3, ConcatAssociative
<1> QED
  BY <1>4, <1>6

LEMMA SendPublishes ==
  ASSUME IInv, IInv', NEW j \in Jobs, Send(j), UNCHANGED manager
  PROVE  Abstract!Publish
BY SendAppends DEF Abstract!Publish, manager

\* Taking a batch moves it from the channel to what the consumers have been given.
LEMMA TakeStutters ==
  ASSUME IInv, IInv', Take
  PROVE  UNCHANGED <<Published, handled>>
<1>1. PICK c \in Consumers : TRUE
  BY TopicAssumption
<1>2. Published = Given(c) \o records /\ Published' = Given(c)' \o records'
  BY PublishedIs DEF IInv, ManagerInv
<1>3. CASE M!Take
  <2>1. handled[c] \in Seq(Batches) /\ records \in Seq(Batches) /\ records # <<>>
    BY <1>3 DEF IInv, ManagerInv, Passed, M!Take
  <2>2. /\ Tail(records) \in Seq(Batches)
        /\ <<Head(records)>> \in Seq(Batches)
        /\ <<Head(records)>> \o Tail(records) = records
    BY <2>1
  <2>3. (handled[c] \o <<Head(records)>>) \o Tail(records) = handled[c] \o records
    BY <2>1, <2>2, ConcatAssociative
  <2> QED
    BY <1>2, <1>3, <2>3, TakeGives DEF IInv, ManagerInv, M!Take
<1>4. CASE M!TakeNil
  BY <1>2, <1>4, TakeNilGives DEF IInv, ManagerInv, M!TakeNil
<1> QED
  BY <1>3, <1>4 DEF Take

\* Finishing one leaves what has been published.
LEMMA FinishStutters ==
  ASSUME IInv, IInv', NEW c \in Consumers, Finish(c)
  PROVE  UNCHANGED Published
<1>1. Published = Given(c) \o records /\ Published' = Given(c)' \o records'
  BY PublishedIs DEF IInv, ManagerInv
<1> QED
  BY <1>1, FinishKeepsGiven DEF IInv, ManagerInv, Finish, M!Finish

\* A consumer that returns has handled the batch all of them are at.
LEMMA FinishDelivers ==
  ASSUME IInv, IInv', NEW c \in Consumers, Finish(c)
  PROVE  Abstract!Deliver(c) \/ UNCHANGED <<Published, handled>>
<1>1. Published = Given(c) \o records /\ Published' = Given(c)' \o records'
  BY PublishedIs DEF IInv, ManagerInv
<1>2. UNCHANGED Published
  BY FinishStutters
<1>3. CASE current = Nil
  BY <1>2, <1>3 DEF Finish, M!Finish
<1>4. CASE current # Nil
  <2>1. /\ handled[c] \in Seq(Batches) /\ records \in Seq(Batches)
        /\ current \in Batches
    BY <1>4 DEF IInv, ManagerInv, Passed
  <2>2. Given(c) = handled[c] \o <<current>>
    BY <1>4 DEF Finish, M!Finish, Given
  <2>3. /\ Len(handled[c]) < Len(Published)
        /\ Published[Len(handled[c]) + 1] = current
    BY <1>1, <2>1, <2>2
  <2>4. ASSUME NEW d \in Consumers PROVE Len(handled[c]) <= Len(handled[d])
    <3>1. Given(d) = Given(c) /\ handled[d] \in Seq(Batches)
      BY DEF IInv, ManagerInv, InStep, Passed
    <3>2. Len(Given(c)) = Len(handled[c]) + 1
      BY <2>1, <2>2
    <3>3. Len(Given(d)) <= Len(handled[d]) + 1
      <4>1. CASE d \in busy /\ current # Nil
        BY <2>1, <3>1, <4>1 DEF Given
      <4>2. CASE ~(d \in busy /\ current # Nil)
        <5>1. Given(d) = handled[d]
          BY <3>1, <4>2, ConcatEmptySeq DEF Given
        <5> QED
          BY <3>1, <5>1
      <4> QED
        BY <4>1, <4>2
    <3> QED
      BY <2>1, <3>1, <3>2, <3>3
  <2> QED
    BY <1>2, <1>4, <2>3, <2>4 DEF Finish, M!Finish, Abstract!Deliver
<1> QED
  BY <1>3, <1>4

LEMMA StepRefines ==
  IInv /\ IInv' /\ [Next]_vars => [Abstract!Next]_<<Published, handled>>
<1> SUFFICES ASSUME IInv, IInv', [Next]_vars
             PROVE  Abstract!Next \/ UNCHANGED <<Published, handled>>
  OBVIOUS
<1>1. CASE UNCHANGED <<records, manager>>
  BY <1>1 DEF Published, Given, manager
<1>2. ASSUME NEW j \in Jobs, Send(j), UNCHANGED manager PROVE Abstract!Next
  BY <1>2, SendPublishes DEF Abstract!Next
<1>3. CASE Take
  BY <1>3, TakeStutters
<1>4. ASSUME NEW c \in Consumers, Finish(c)
      PROVE  Abstract!Next \/ UNCHANGED <<Published, handled>>
  BY <1>4, FinishDelivers DEF Abstract!Next
<1>5. CASE StopTopics \/ \E c \in Consumers : Spin(c)
  BY <1>5 DEF StopTopics, Spin, M!Shutdown, M!Spin, Published, Given
<1>6. CASE CronStop \/ PointShutdown \/ UNCHANGED vars
  BY <1>1, <1>6 DEF CronStop, PointShutdown, vars, readerVars, channel
<1>7. CASE ReaderStep
  BY <1>1, <1>2, <1>7, ReaderLeavesChannel
<1> QED
  BY <1>3, <1>4, <1>5, <1>6, <1>7 DEF Next

\* The topic of consumer.Manager implements FanOut: every consumer is given
\* every batch put in the channel, once, in order, and none is ahead of another
\* by more than the batch at hand, whatever the reader's jobs and Stop do.
THEOREM Refinement == Spec => ImplementsFanOut
<1>1. Init => Abstract!Init
  <2> SUFFICES ASSUME Init PROVE Published = <<>> /\ handled = [c \in Consumers |-> <<>>]
    BY DEF Abstract!Init
  <2>1. PICK c \in Consumers : TRUE
    BY TopicAssumption
  <2>2. Published = Given(c) \o records
    BY InitEstablishes, PublishedIs DEF IInv, ManagerInv
  <2>3. records = <<>> /\ Given(c) = <<>> /\ handled = [d \in Consumers |-> <<>>]
    BY DEF Init, ReaderInit, M!Init, Given
  <2> QED
    BY <2>2, <2>3
<1> QED
  BY <1>1, StepRefines, Invariance, PTL DEF Spec, Abstract!Spec, ImplementsFanOut

-----------------------------------------------------------------------------
(* The packets of a line of batches *)

Rising(s)   == \A m, n \in DOMAIN s : m < n => s[m] < s[n]
Below(A, B) == \A a \in A, b \in B : a < b

LEMMA SetFacts ==
  ASSUME NEW S, NEW s \in Seq(S)
  PROVE  /\ Len(s) \in Nat /\ DOMAIN s = 1..Len(s) /\ ToSet(s) \subseteq S
         /\ \A n \in DOMAIN s : s[n] \in ToSet(s)
         /\ \A x \in ToSet(s) : \E n \in DOMAIN s : x = s[n]
BY LenProperties, ElementOfSeq DEF ToSet

LEMMA RisingEmpty ==
  <<>> \in Seq(Packets) /\ ToSet(<<>>) = {} /\ Rising(<<>>)
BY DEF ToSet, Rising

LEMMA RisingAppend ==
  ASSUME NEW s \in Seq(Packets), NEW x \in Packets
  PROVE  /\ Append(s, x) \in Seq(Packets)
         /\ ToSet(Append(s, x)) = ToSet(s) \cup {x}
         /\ Rising(s) /\ Below(ToSet(s), {x}) => Rising(Append(s, x))
<1>1. /\ Append(s, x) \in Seq(Packets) /\ DOMAIN Append(s, x) = 1..(Len(s) + 1)
      /\ \A n \in 1..Len(s) : Append(s, x)[n] = s[n]
      /\ Append(s, x)[Len(s) + 1] = x
      /\ Len(s) \in Nat /\ DOMAIN s = 1..Len(s)
  BY AppendProperties, LenProperties
<1>2. ToSet(Append(s, x)) = ToSet(s) \cup {x}
  <2>1. /\ \A n \in 1..(Len(s) + 1) : n \in 1..Len(s) \/ n = Len(s) + 1
        /\ \A n \in 1..Len(s) : n \in 1..(Len(s) + 1)
        /\ Len(s) + 1 \in 1..(Len(s) + 1)
    BY <1>1
  <2>2. ToSet(Append(s, x)) \subseteq ToSet(s) \cup {x}
    BY <1>1, <2>1 DEF ToSet
  <2>3. ToSet(s) \subseteq ToSet(Append(s, x)) /\ x \in ToSet(Append(s, x))
    BY <1>1, <2>1 DEF ToSet
  <2> QED
    BY <2>2, <2>3
<1>3. ASSUME Rising(s), Below(ToSet(s), {x}) PROVE Rising(Append(s, x))
  <2>1. \A m \in 1..Len(s) : s[m] < x
    BY <1>1, <1>3, SetFacts DEF Below
  <2>2. \A m, n \in 1..Len(s) : m < n => s[m] < s[n]
    BY <1>1, <1>3 DEF Rising
  <2> SUFFICES ASSUME NEW m \in 1..(Len(s) + 1), NEW n \in 1..(Len(s) + 1), m < n
               PROVE  Append(s, x)[m] < Append(s, x)[n]
    BY <1>1 DEF Rising
  <2>3. m \in 1..Len(s)
    BY <1>1
  <2>4. CASE n = Len(s) + 1
    BY <1>1, <2>1, <2>3, <2>4
  <2>5. CASE n # Len(s) + 1
    <3>1. n \in 1..Len(s)
      BY <1>1, <2>5
    <3> QED
      BY <1>1, <2>2, <2>3, <3>1
  <2> QED
    BY <2>4, <2>5
<1> QED
  BY <1>1, <1>2, <1>3

LEMMA RisingTail ==
  ASSUME NEW s \in Seq(Packets), s # <<>>
  PROVE  /\ Tail(s) \in Seq(Packets) /\ Head(s) \in Packets
         /\ ToSet(s) = {Head(s)} \cup ToSet(Tail(s))
         /\ Rising(s) => Rising(Tail(s)) /\ Below({Head(s)}, ToSet(Tail(s)))
<1>1. /\ Tail(s) \in Seq(Packets) /\ DOMAIN Tail(s) = 1..(Len(s) - 1)
      /\ Head(s) = s[1] /\ Head(s) \in Packets
      /\ \A n \in 1..(Len(s) - 1) : Tail(s)[n] = s[n + 1]
      /\ Len(s) \in Nat /\ Len(s) > 0 /\ DOMAIN s = 1..Len(s)
  BY HeadTailProperties, LenProperties
<1>2. ToSet(s) = {Head(s)} \cup ToSet(Tail(s))
  <2>1. ASSUME NEW n \in 1..Len(s) PROVE s[n] = Head(s) \/ s[n] \in ToSet(Tail(s))
    <3>1. CASE n = 1
      BY <1>1, <3>1
    <3>2. CASE n # 1
      <4>1. n - 1 \in 1..(Len(s) - 1) /\ s[n] = Tail(s)[n - 1]
        BY <1>1, <3>2
      <4> QED
        BY <1>1, <4>1 DEF ToSet
    <3> QED
      BY <3>1, <3>2
  <2>2. \A n \in 1..(Len(s) - 1) : n + 1 \in 1..Len(s) /\ Tail(s)[n] \in ToSet(s)
    BY <1>1 DEF ToSet
  <2>3. ToSet(s) \subseteq {Head(s)} \cup ToSet(Tail(s))
    BY <1>1, <2>1 DEF ToSet
  <2>4. ToSet(Tail(s)) \subseteq ToSet(s) /\ Head(s) \in ToSet(s)
    BY <1>1, <2>2 DEF ToSet
  <2> QED
    BY <2>3, <2>4
<1>3. ASSUME Rising(s) PROVE Rising(Tail(s)) /\ Below({Head(s)}, ToSet(Tail(s)))
  <2>1. \A m, n \in 1..Len(s) : m < n => s[m] < s[n]
    BY <1>1, <1>3 DEF Rising
  <2>2. ASSUME NEW m \in 1..(Len(s) - 1), NEW n \in 1..(Len(s) - 1), m < n
        PROVE  Tail(s)[m] < Tail(s)[n]
    <3>1. m + 1 \in 1..Len(s) /\ n + 1 \in 1..Len(s) /\ m + 1 < n + 1
      BY <1>1, <2>2
    <3> QED
      BY <1>1, <2>1, <3>1
  <2>3. ASSUME NEW n \in 1..(Len(s) - 1) PROVE Head(s) < Tail(s)[n]
    <3>1. 1 \in 1..Len(s) /\ n + 1 \in 1..Len(s) /\ 1 < n + 1
      BY <1>1
    <3> QED
      BY <1>1, <2>1, <3>1
  <2> QED
    BY <1>1, <2>2, <2>3 DEF Rising, Below, ToSet
<1> QED
  BY <1>1, <1>2, <1>3

\* A batch at the end of a line comes after all that is in the line.
LEMMA LineAppend ==
  ASSUME NEW line \in Seq(Seq(Packets)), NEW s \in Seq(Packets)
  PROVE  /\ Append(line, s) \in Seq(Seq(Packets))
         /\ PacketsOf(Append(line, s)) = PacketsOf(line) \cup ToSet(s)
         /\ InOrder(Append(line, s)) <=>
              InOrder(line) /\ Rising(s) /\ Below(PacketsOf(line), ToSet(s))
<1> DEFINE more == Append(line, s)
           N    == Len(line)
<1>1. /\ more \in Seq(Seq(Packets)) /\ DOMAIN more = 1..(N + 1)
      /\ \A n \in 1..N : more[n] = line[n]
      /\ more[N + 1] = s
      /\ N \in Nat /\ DOMAIN line = 1..N
  BY AppendProperties, LenProperties
<1> HIDE DEF more, N
<1>2. PacketsOf(more) = PacketsOf(line) \cup ToSet(s)
  <2>1. \A k \in 1..(N + 1) : k \in 1..N \/ k = N + 1
    BY <1>1
  <2>2. \A k \in 1..N : k \in 1..(N + 1)
    BY <1>1
  <2>3. N + 1 \in 1..(N + 1)
    BY <1>1
  <2>4. PacketsOf(more) \subseteq PacketsOf(line) \cup ToSet(s)
    <3> SUFFICES ASSUME NEW k \in 1..(N + 1), NEW x \in ToSet(more[k])
                 PROVE  x \in PacketsOf(line) \/ x \in ToSet(s)
      BY <1>1 DEF PacketsOf
    <3>1. CASE k \in 1..N
      BY <1>1, <3>1 DEF PacketsOf
    <3>2. CASE k = N + 1
      BY <1>1, <3>2
    <3> QED
      BY <2>1, <3>1, <3>2
  <2>5. PacketsOf(line) \subseteq PacketsOf(more)
    BY <1>1, <2>2 DEF PacketsOf
  <2>6. ToSet(s) \subseteq PacketsOf(more)
    BY <1>1, <2>3 DEF PacketsOf
  <2> QED
    BY <2>4, <2>5, <2>6
<1>3. ASSUME InOrder(more)
      PROVE  InOrder(line) /\ Rising(s) /\ Below(PacketsOf(line), ToSet(s))
  <2>1. \A k \in 1..N : k \in 1..(N + 1) /\ k < N + 1
    BY <1>1
  <2>2. N + 1 \in 1..(N + 1)
    BY <1>1
  <2>3. InOrder(line)
    BY <1>1, <1>3, <2>1 DEF InOrder
  <2>4. Rising(s)
    <3>1. \A m \in DOMAIN more[N + 1], n \in DOMAIN more[N + 1] :
            m < n => more[N + 1][m] < more[N + 1][n]
      BY <1>1, <1>3, <2>2 DEF InOrder
    <3> QED
      BY <1>1, <3>1 DEF Rising
  <2>5. Below(PacketsOf(line), ToSet(s))
    <3> SUFFICES ASSUME NEW k \in 1..N, NEW x \in ToSet(line[k]), NEW y \in ToSet(s)
                 PROVE  x < y
      BY <1>1 DEF Below, PacketsOf
    <3>1. PICK m \in DOMAIN line[k] : x = line[k][m]
      BY DEF ToSet
    <3>2. PICK n \in DOMAIN s : y = s[n]
      BY DEF ToSet
    <3>3. \A i \in DOMAIN more[k], j \in DOMAIN more[N + 1] : more[k][i] < more[N + 1][j]
      BY <1>1, <1>3, <2>1, <2>2 DEF InOrder
    <3> QED
      BY <1>1, <3>1, <3>2, <3>3
  <2> QED
    BY <2>3, <2>4, <2>5
<1>4. ASSUME InOrder(line), Rising(s), Below(PacketsOf(line), ToSet(s))
      PROVE  InOrder(more)
  <2> SUFFICES ASSUME NEW k \in 1..(N + 1), NEW l \in 1..(N + 1),
                      NEW m \in DOMAIN more[k], NEW n \in DOMAIN more[l],
                      k < l \/ (k = l /\ m < n)
               PROVE  more[k][m] < more[l][n]
    BY <1>1 DEF InOrder
  <2>1. CASE l \in 1..N
    <3>1. k \in 1..N
      BY <1>1, <2>1
    <3>2. more[k] = line[k] /\ more[l] = line[l]
      BY <1>1, <2>1, <3>1
    <3> QED
      BY <1>1, <1>4, <2>1, <3>1, <3>2 DEF InOrder
  <2>2. CASE l = N + 1 /\ k \in 1..N
    <3>1. more[k][m] \in PacketsOf(line)
      BY <1>1, <2>2 DEF PacketsOf, ToSet
    <3>2. more[l][n] \in ToSet(s)
      BY <1>1, <2>2 DEF ToSet
    <3> QED
      BY <1>4, <3>1, <3>2 DEF Below
  <2>3. CASE l = N + 1 /\ k = N + 1
    <3>1. more[k] = s /\ more[l] = s /\ m < n
      BY <1>1, <2>3
    <3> QED
      BY <1>4, <3>1 DEF Rising
  <2>4. (l \in 1..N \/ l = N + 1) /\ (k \in 1..N \/ k = N + 1)
    BY <1>1
  <2> QED
    BY <2>1, <2>2, <2>3, <2>4
<1> QED
  BY <1>1, <1>2, <1>3, <1>4 DEF more

\* A line that ends with what is collected and what is waiting has the packets
\* up to n that are not in d, each once and in order.
InPlace(batches, taken, waiting, n, d) ==
  /\ InOrder(Append(Append(batches, taken), waiting))
  /\ PacketsOf(Append(Append(batches, taken), waiting)) = (1..n) \ d

LEMMA InPlaceParts ==
  ASSUME NEW batches \in Seq(Seq(Packets)), NEW taken \in Seq(Packets),
         NEW waiting \in Seq(Packets), NEW n, NEW d
  PROVE  InPlace(batches, taken, waiting, n, d) <=>
           /\ InOrder(batches) /\ Rising(taken) /\ Rising(waiting)
           /\ Below(PacketsOf(batches), ToSet(taken))
           /\ Below(PacketsOf(batches), ToSet(waiting))
           /\ Below(ToSet(taken), ToSet(waiting))
           /\ PacketsOf(batches) \cup ToSet(taken) \cup ToSet(waiting) = (1..n) \ d
<1>1. /\ Append(batches, taken) \in Seq(Seq(Packets))
      /\ PacketsOf(Append(batches, taken)) = PacketsOf(batches) \cup ToSet(taken)
      /\ InOrder(Append(batches, taken)) <=>
           InOrder(batches) /\ Rising(taken) /\ Below(PacketsOf(batches), ToSet(taken))
  BY LineAppend
<1> DEFINE line == Append(batches, taken)
<1>2. /\ PacketsOf(Append(line, waiting)) = PacketsOf(line) \cup ToSet(waiting)
      /\ InOrder(Append(line, waiting)) <=>
           InOrder(line) /\ Rising(waiting) /\ Below(PacketsOf(line), ToSet(waiting))
  BY <1>1, LineAppend
<1>3. Below(PacketsOf(line), ToSet(waiting)) <=>
        Below(PacketsOf(batches), ToSet(waiting)) /\ Below(ToSet(taken), ToSet(waiting))
  BY <1>1 DEF Below
<1> QED
  BY <1>1, <1>2, <1>3 DEF InPlace

\* Receive, of a packet that is unpacked and of one that is not; Send; Capture.
LEMMA InPlaceSteps ==
  ASSUME NEW batches \in Seq(Seq(Packets)), NEW taken \in Seq(Packets),
         NEW waiting \in Seq(Packets), NEW n \in 0..MaxPackets, NEW d,
         InPlace(batches, taken, waiting, n, d)
  PROVE  /\ waiting # <<>> =>
              /\ InPlace(batches, Append(taken, Head(waiting)), Tail(waiting), n, d)
              /\ InPlace(batches, taken, Tail(waiting), n, d \cup {Head(waiting)})
              /\ Head(waiting) \in 1..n
         /\ InPlace(Append(batches, taken), <<>>, waiting, n, d)
         /\ n + 1 \in Packets /\ n + 1 \notin d =>
              InPlace(batches, taken, Append(waiting, n + 1), n + 1, d)
<1> DEFINE B == PacketsOf(batches)
           T == ToSet(taken)
           W == ToSet(waiting)
<1>1. /\ InOrder(batches) /\ Rising(taken) /\ Rising(waiting)
      /\ Below(B, T) /\ Below(B, W) /\ Below(T, W)
      /\ B \cup T \cup W = (1..n) \ d
  BY InPlaceParts
<1>2. ASSUME waiting # <<>>
      PROVE  /\ InPlace(batches, Append(taken, Head(waiting)), Tail(waiting), n, d)
             /\ InPlace(batches, taken, Tail(waiting), n, d \cup {Head(waiting)})
             /\ Head(waiting) \in 1..n
  <2> DEFINE h == Head(waiting)
             R == ToSet(Tail(waiting))
  <2>1. /\ Tail(waiting) \in Seq(Packets) /\ h \in Packets
        /\ W = {h} \cup R /\ Rising(Tail(waiting)) /\ Below({h}, R)
    BY <1>1, <1>2, RisingTail
  <2>2. /\ Append(taken, h) \in Seq(Packets) /\ ToSet(Append(taken, h)) = T \cup {h}
        /\ Rising(taken) /\ Below(T, {h}) => Rising(Append(taken, h))
    BY <2>1, RisingAppend
  <2>3. h \in W /\ h \notin R /\ R \subseteq W
    BY <2>1 DEF Below
  <2>4. Below(T, {h}) /\ Below(B, {h}) /\ Below(B, R) /\ Below(T, R)
    BY <1>1, <2>3 DEF Below
  <2>5. h \notin B /\ h \notin T
    BY <2>1, <2>4 DEF Below
  <2>6. h \in 1..n
    BY <1>1, <2>3
  <2>7. InPlace(batches, Append(taken, h), Tail(waiting), n, d)
    <3> DEFINE more == Append(taken, h)
    <3>1. Below(B, T \cup {h}) /\ Below(T \cup {h}, R)
      BY <1>1, <2>1, <2>4 DEF Below
    <3>2. B \cup (T \cup {h}) \cup R = (1..n) \ d
      BY <1>1, <2>1
    <3>3. /\ more \in Seq(Packets) /\ Rising(more) /\ Below(B, ToSet(more))
          /\ Below(ToSet(more), R) /\ B \cup ToSet(more) \cup R = (1..n) \ d
      BY <1>1, <2>2, <2>4, <3>1, <3>2
    <3> HIDE DEF more
    <3>4. InPlace(batches, more, Tail(waiting), n, d)
      BY <1>1, <2>1, <2>4, <3>3, InPlaceParts
    <3> QED
      BY <3>4 DEF more
  <2>8. InPlace(batches, taken, Tail(waiting), n, d \cup {h})
    <3>1. B \cup T \cup R = (1..n) \ (d \cup {h})
      BY <1>1, <2>1, <2>3, <2>5
    <3> QED
      BY <1>1, <2>1, <2>4, <3>1, InPlaceParts
  <2> QED
    BY <2>6, <2>7, <2>8
<1>3. InPlace(Append(batches, taken), <<>>, waiting, n, d)
  <2> DEFINE more == Append(batches, taken)
  <2>1. more \in Seq(Seq(Packets)) /\ PacketsOf(more) = B \cup T /\ InOrder(more)
    BY <1>1, LineAppend
  <2>2. Below(B \cup T, W) /\ Below(B \cup T, {}) /\ Below({}, W)
    BY <1>1 DEF Below
  <2>3. (B \cup T) \cup {} \cup W = (1..n) \ d
    BY <1>1
  <2>4. /\ Below(PacketsOf(more), W) /\ Below(PacketsOf(more), ToSet(<<>>))
        /\ Below(ToSet(<<>>), W) /\ PacketsOf(more) \cup ToSet(<<>>) \cup W = (1..n) \ d
    BY <2>1, <2>2, <2>3, RisingEmpty
  <2> HIDE DEF more
  <2>5. InPlace(more, <<>>, waiting, n, d)
    BY <1>1, <2>1, <2>4, RisingEmpty, InPlaceParts
  <2> QED
    BY <2>5 DEF more
<1>4. ASSUME n + 1 \in Packets, n + 1 \notin d
      PROVE  InPlace(batches, taken, Append(waiting, n + 1), n + 1, d)
  <2>1. n \in Nat /\ \A x \in B \cup T \cup W : x \in Nat /\ x < n + 1
    BY <1>1
  <2>2. Below(B, {n + 1}) /\ Below(T, {n + 1}) /\ Below(W, {n + 1})
    BY <2>1 DEF Below
  <2> DEFINE more == Append(waiting, n + 1)
  <2>3. more \in Seq(Packets) /\ ToSet(more) = W \cup {n + 1} /\ Rising(more)
    BY <1>1, <1>4, <2>2, RisingAppend
  <2>4. Below(B, W \cup {n + 1}) /\ Below(T, W \cup {n + 1})
    BY <1>1, <2>2 DEF Below
  <2>5. B \cup T \cup (W \cup {n + 1}) = (1..(n + 1)) \ d
    <3>1. 1..(n + 1) = (1..n) \cup {n + 1}
      BY <2>1
    <3> QED
      BY <1>1, <1>4, <3>1
  <2>6. /\ Below(B, ToSet(more)) /\ Below(T, ToSet(more))
        /\ B \cup T \cup ToSet(more) = (1..(n + 1)) \ d
    BY <2>3, <2>4, <2>5
  <2> HIDE DEF more
  <2>7. InPlace(batches, taken, more, n + 1, d)
    BY <1>1, <2>3, <2>6, InPlaceParts
  <2> QED
    BY <2>7 DEF more
<1> QED
  BY <1>2, <1>3, <1>4

-----------------------------------------------------------------------------
(* Each packet once *)

\* While one job is in the loop the packets captured are in their places in what
\* is published, collected and waiting, and what is saved is what was collected.
Ledger ==
  ~raced /\ stop # "done" =>
    /\ InPlace(Published, Collected, packets, captured, dropped)
    /\ dropped \subseteq 1..captured
    /\ \A j \in Jobs : pc[j] = "send" => saving = tmpRecords

\* The one job in the loop tells what is collected.
LEMMA CollectedIs ==
  ASSUME NEW j \in Jobs
  PROVE  /\ OneInLoop /\ ~raced /\ j \in Looping =>
              Collected = IF pc[j] = "append" THEN hand[j] ELSE tmpRecords
         /\ OneInLoop' /\ ~raced' /\ j \in Looping' =>
              Collected' = IF pc'[j] = "append" THEN hand'[j] ELSE tmpRecords'
<1>1. ASSUME OneInLoop, ~raced, j \in Looping
      PROVE  Collected = IF pc[j] = "append" THEN hand[j] ELSE tmpRecords
  <2>1. \A k \in Jobs : pc[k] = "append" => k = j
    BY <1>1 DEF OneInLoop, Looping
  <2> QED
    BY <2>1 DEF Collected
<1>2. ASSUME OneInLoop', ~raced', j \in Looping'
      PROVE  Collected' = IF pc'[j] = "append" THEN hand'[j] ELSE tmpRecords'
  <2>1. \A k \in Jobs : pc'[k] = "append" => k = j
    BY <1>2 DEF OneInLoop, Looping
  <2> QED
    BY <2>1 DEF Collected
<1> QED
  BY <1>1, <1>2

LEMMA CollectedOut ==
  /\ (\A j \in Jobs : pc[j] # "append") => Collected = tmpRecords
  /\ (\A j \in Jobs : pc'[j] # "append") => Collected' = tmpRecords'
BY DEF Collected

LEMMA LedgerTypes ==
  ASSUME IInv
  PROVE  /\ Published \in Seq(Seq(Packets)) /\ Collected \in Seq(Packets)
         /\ packets \in Seq(Packets) /\ captured \in 0..MaxPackets
         /\ tmpRecords \in Seq(Packets)
<1>1. PICK c \in Consumers : TRUE
  BY TopicAssumption
<1>2. Published = Given(c) \o records
  BY PublishedIs DEF IInv, ManagerInv
<1>3. Given(c) \in Seq(Batches) /\ records \in Seq(Batches)
  BY GivenType DEF IInv, ManagerInv, Passed
<1>4. Published \in Seq(Batches)
  BY <1>2, <1>3, ConcatProperties
<1>5. Published \in Seq(Seq(Packets))
  BY <1>4, BatchesAreSequences, SeqMonotonic
<1>6. /\ packets \in Seq(Packets) /\ captured \in 0..MaxPackets
      /\ tmpRecords \in Seq(Packets) /\ hand \in [Jobs -> Seq(Packets)]
  BY DEF IInv, ReaderInv, ReaderTypeOK
<1>7. Collected \in Seq(Packets)
  BY <1>6 DEF Collected
<1> QED
  BY <1>5, <1>6, <1>7

\* A step that moves no packet.
LEMMA LedgerStays ==
  ASSUME Ledger, UNCHANGED <<Published, packets, captured, dropped>>,
         raced => raced', stop = "done" => stop' = "done",
         ~raced' /\ stop' # "done" =>
           /\ Collected' = Collected
           /\ \A j \in Jobs : pc'[j] = "send" => saving' = tmpRecords'
  PROVE  Ledger'
<1> SUFFICES ASSUME ~raced', stop' # "done" PROVE Ledger'
  BY DEF Ledger
<1>1. InPlace(Published, Collected, packets, captured, dropped) /\ dropped \subseteq 1..captured
  BY DEF Ledger
<1>2. InPlace(Published', Collected', packets', captured', dropped')
      /\ dropped' \subseteq 1..captured'
  BY <1>1
<1> QED
  BY <1>2 DEF Ledger

\* Nor does one that leaves the jobs alone.
LEMMA LedgerIdle ==
  ASSUME Ledger, UNCHANGED <<Published, packets, captured, history, job>>,
         stop = "done" => stop' = "done"
  PROVE  Ledger'
<1>1. Collected' = Collected
  BY DEF Collected, job
<1>2. ~raced /\ stop # "done" => \A j \in Jobs : pc'[j] = "send" => saving' = tmpRecords'
  BY DEF Ledger, job
<1> QED
  BY <1>1, <1>2, LedgerStays DEF history

\* Another step of the one job in the loop, which keeps what it has collected.
LEMMA LedgerMoves ==
  ASSUME Ledger, IInv, IInv', NEW j \in Looping, NEW to, to # "out",
         pc' = [pc EXCEPT ![j] = to],
         UNCHANGED <<Published, packets, captured, dropped, raced, stop>>,
         to \in {"loop", "append", "lock", "persist", "send"},
         (IF to = "append" THEN hand'[j] ELSE tmpRecords')
           = (IF pc[j] = "append" THEN hand[j] ELSE tmpRecords),
         to = "send" => saving' = tmpRecords'
  PROVE  Ledger'
<1>1. j \in Jobs /\ pc'[j] = to /\ \A k \in Jobs : k # j => pc'[k] = pc[k]
  BY DEF Looping, IInv, ReaderInv, ReaderTypeOK
<1>2. j \in Looping'
  BY <1>1 DEF Looping
<1>3. ASSUME ~raced
      PROVE  /\ Collected' = Collected
             /\ \A k \in Jobs : pc'[k] = "send" => saving' = tmpRecords'
  <2>1. Collected' = Collected
    BY <1>1, <1>2, <1>3, CollectedIs DEF IInv, ReaderInv
  <2>2. \A k \in Jobs : k # j => pc[k] # "send"
    BY <1>1, <1>3 DEF IInv, ReaderInv, OneInLoop, Looping
  <2> QED
    BY <1>1, <2>1, <2>2
<1> QED
  BY <1>3, LedgerStays

\* What has been published is what it was, but for Send.
LEMMA PublishedStays ==
  UNCHANGED records /\ UNCHANGED manager => UNCHANGED Published
BY DEF Published, Given, manager

LEMMA ReceiveLedger ==
  ASSUME Ledger, IInv, IInv', NEW j \in Jobs, Receive(j), UNCHANGED manager
  PROVE  Ledger'
<1> SUFFICES ASSUME ~raced', stop' # "done" PROVE Ledger'
  BY DEF Ledger
<1>1. /\ pc[j] = "loop" /\ packets # <<>> /\ packets' = Tail(packets)
      /\ UNCHANGED <<captured, tmpRecords, saving, records, raced, stop>>
  BY DEF Receive, channel, ending
<1>2. /\ InPlace(Published, Collected, packets, captured, dropped)
      /\ dropped \subseteq 1..captured
  BY <1>1 DEF Ledger
<1>3. UNCHANGED Published
  BY <1>1, PublishedStays
<1>4. j \in Looping /\ Collected = tmpRecords
  BY <1>1, CollectedIs DEF Looping, IInv, ReaderInv
<1>5. \A k \in Jobs : k # j => pc[k] # "send"
  BY <1>1, <1>4 DEF IInv, ReaderInv, OneInLoop, Looping
<1>6. /\ InPlace(Published, Append(tmpRecords, Head(packets)), packets', captured, dropped)
      /\ InPlace(Published, tmpRecords, packets', captured, dropped \cup {Head(packets)})
      /\ Head(packets) \in 1..captured
  BY <1>1, <1>2, <1>4, LedgerTypes, InPlaceSteps
<1>7. CASE /\ pc' = [pc EXCEPT ![j] = "append"]
           /\ hand' = [hand EXCEPT ![j] = Append(tmpRecords, Head(packets))]
           /\ UNCHANGED dropped
  <2>1. /\ pc'[j] = "append" /\ hand'[j] = Append(tmpRecords, Head(packets))
        /\ \A k \in Jobs : k # j => pc'[k] = pc[k]
    BY <1>7 DEF IInv, ReaderInv, ReaderTypeOK
  <2>2. Collected' = Append(tmpRecords, Head(packets))
    BY <1>1, <2>1, CollectedIs DEF Looping, IInv, ReaderInv
  <2>3. InPlace(Published', Collected', packets', captured', dropped')
        /\ dropped' \subseteq 1..captured'
    BY <1>1, <1>2, <1>3, <1>6, <1>7, <2>2
  <2> QED
    BY <1>5, <2>1, <2>3 DEF Ledger
<1>8. CASE dropped' = dropped \cup {Head(packets)} /\ UNCHANGED <<pc, hand>>
  <2>1. Collected' = tmpRecords
    BY <1>1, <1>4, <1>8 DEF Collected
  <2>2. InPlace(Published', Collected', packets', captured', dropped')
        /\ dropped' \subseteq 1..captured'
    BY <1>1, <1>2, <1>3, <1>6, <1>8, <2>1
  <2> QED
    BY <1>1, <1>5, <1>8, <2>2 DEF Ledger
<1> QED
  BY <1>7, <1>8 DEF Receive

LEMMA SendLedger ==
  ASSUME Ledger, IInv, IInv', NEW j \in Jobs, Send(j), UNCHANGED manager
  PROVE  Ledger'
<1> SUFFICES ASSUME ~raced', stop' # "done" PROVE Ledger'
  BY DEF Ledger
<1>1. /\ pc[j] = "send" /\ pc' = [pc EXCEPT ![j] = "loop"] /\ tmpRecords' = <<>>
      /\ UNCHANGED <<packets, captured, dropped, raced, stop>>
  BY DEF Send, source, ending, history
<1>2. /\ InPlace(Published, Collected, packets, captured, dropped)
      /\ dropped \subseteq 1..captured /\ saving = tmpRecords
  BY <1>1 DEF Ledger
<1>3. /\ j \in Looping /\ Collected = tmpRecords
      /\ pc'[j] = "loop" /\ \A k \in Jobs : k # j => pc'[k] = pc[k]
  BY <1>1, CollectedIs DEF Looping, IInv, ReaderInv, ReaderTypeOK
<1>4. \A k \in Jobs : k # j => pc[k] # "send"
  BY <1>1, <1>3 DEF IInv, ReaderInv, OneInLoop, Looping
<1>5. Collected' = <<>>
  <2>1. j \in Looping'
    BY <1>3 DEF Looping
  <2> QED
    BY <1>1, <1>3, <2>1, CollectedIs DEF IInv, ReaderInv
<1>6. Published' = Append(Published, Collected)
  BY <1>2, <1>3, SendAppends
<1>7. InPlace(Append(Published, Collected), <<>>, packets, captured, dropped)
  BY <1>2, LedgerTypes, InPlaceSteps
<1>8. InPlace(Published', Collected', packets', captured', dropped')
  BY <1>1, <1>5, <1>6, <1>7
<1> QED
  BY <1>1, <1>2, <1>3, <1>4, <1>8 DEF Ledger

LEMMA CaptureLedger ==
  ASSUME Ledger, IInv, Capture, UNCHANGED manager
  PROVE  Ledger'
<1> SUFFICES ASSUME ~raced', stop' # "done" PROVE Ledger'
  BY DEF Ledger
<1>1. /\ captured < MaxPackets /\ captured' = captured + 1
      /\ packets' = Append(packets, captured + 1)
      /\ UNCHANGED <<job, records, stop, dropped, raced>>
  BY DEF Capture, channel, ending, history
<1>2. /\ InPlace(Published, Collected, packets, captured, dropped)
      /\ dropped \subseteq 1..captured
      /\ \A j \in Jobs : pc'[j] = "send" => saving' = tmpRecords'
  BY <1>1 DEF Ledger, job
<1>3. captured \in 0..MaxPackets /\ captured \in Nat
  BY LedgerTypes
<1>4. captured + 1 \in Packets /\ captured + 1 \notin dropped
      /\ dropped \subseteq 1..(captured + 1)
  BY <1>1, <1>2, <1>3
<1>5. InPlace(Published, Collected, Append(packets, captured + 1), captured + 1, dropped)
  BY <1>2, <1>4, LedgerTypes, InPlaceSteps
<1>6. UNCHANGED <<Published, Collected>>
  <2>1. UNCHANGED Published
    BY <1>1, PublishedStays
  <2> QED
    BY <1>1, <2>1 DEF Collected, job
<1>7. InPlace(Published', Collected', packets', captured', dropped')
  BY <1>1, <1>5, <1>6
<1> QED
  BY <1>1, <1>2, <1>4, <1>7 DEF Ledger

\* A job that is in no loop yet, or leaves it.
LEMMA EnterLedger ==
  ASSUME Ledger, IInv, IInv', NEW j \in Jobs, UNCHANGED manager,
         Enter(j) \/ SetRunning(j) \/ ReceiveClosed(j)
  PROVE  Ledger'
<1>1. PICK to \in {"set", "loop", "out"} :
        /\ pc[j] \in {"out", "set", "loop"} /\ pc' = [pc EXCEPT ![j] = to]
        /\ UNCHANGED <<packets, captured, hand, tmpRecords, saving, records, stop, dropped>>
        /\ raced => raced'
  <2>1. CASE Enter(j)
    BY <2>1 DEF Enter, source, channel, ending, history
  <2>2. CASE SetRunning(j)
    BY <2>2 DEF SetRunning, source, channel, ending
  <2>3. CASE ReceiveClosed(j)
    BY <2>3 DEF ReceiveClosed, source, channel, ending, history
  <2> QED
    BY <2>1, <2>2, <2>3
<1>2. pc'[j] = to /\ \A k \in Jobs : k # j => pc'[k] = pc[k]
  BY <1>1 DEF IInv, ReaderInv, ReaderTypeOK
<1>3. \A k \in Jobs : /\ pc'[k] = "append" <=> pc[k] = "append"
                      /\ pc'[k] = "send" <=> pc[k] = "send"
  BY <1>1, <1>2
<1>4. ASSUME ~raced', stop' # "done" PROVE Collected' = Collected
  <2>1. CASE \E k \in Jobs : pc[k] = "append"
    <3>1. PICK k \in Jobs : pc[k] = "append" /\ pc'[k] = "append"
      BY <1>3, <2>1
    <3>2. k \in Looping /\ k \in Looping' /\ ~raced
      BY <1>1, <1>4, <3>1 DEF Looping
    <3> QED
      BY <1>1, <1>4, <3>1, <3>2, CollectedIs DEF IInv, ReaderInv
  <2>2. CASE ~\E k \in Jobs : pc[k] = "append"
    BY <1>1, <1>3, <2>2, CollectedOut
  <2> QED
    BY <2>1, <2>2
<1>5. ASSUME ~raced', stop' # "done", NEW k \in Jobs, pc'[k] = "send"
      PROVE  saving' = tmpRecords'
  BY <1>1, <1>3, <1>5 DEF Ledger
<1>6. UNCHANGED Published
  BY <1>1, PublishedStays
<1> QED
  BY <1>1, <1>4, <1>5, <1>6, LedgerStays

LEMMA LoopLedger ==
  ASSUME Ledger, IInv, IInv', NEW j \in Jobs, UNCHANGED manager,
         Store(j) \/ Tick(j) \/ Lock(j) \/ Persist(j) \/ SendPanics(j)
  PROVE  Ledger'
<1>1. CASE Store(j)
  <2>1. /\ pc[j] = "append" /\ tmpRecords' = hand[j]
        /\ pc' = [pc EXCEPT ![j] = IF Len(hand[j]) >= MaxRead THEN "lock" ELSE "loop"]
        /\ UNCHANGED <<packets, captured, dropped, raced, stop, records>>
    BY <1>1 DEF Store, source, channel, ending, history
  <2>2. j \in Looping /\ UNCHANGED Published
    BY <2>1, PublishedStays DEF Looping
  <2>3. PICK to \in {"lock", "loop"} : pc' = [pc EXCEPT ![j] = to]
    BY <2>1
  <2> QED
    BY <2>1, <2>2, <2>3, LedgerMoves
<1>2. CASE Tick(j)
  <2>1. /\ pc[j] = "loop" /\ pc' = [pc EXCEPT ![j] = "lock"]
        /\ UNCHANGED <<packets, captured, dropped, raced, stop, records, tmpRecords>>
    BY <1>2 DEF Tick, source, channel, ending, history
  <2>2. j \in Looping /\ UNCHANGED Published
    BY <2>1, PublishedStays DEF Looping
  <2> QED
    BY <2>1, <2>2, LedgerMoves
<1>3. CASE Lock(j) /\ tmpRecords # <<>>
  <2>1. /\ pc[j] = "lock" /\ pc' = [pc EXCEPT ![j] = "persist"]
        /\ UNCHANGED <<packets, captured, dropped, raced, stop, records, tmpRecords>>
    BY <1>3 DEF Lock, source, channel, ending, history
  <2>2. j \in Looping /\ UNCHANGED Published
    BY <2>1, PublishedStays DEF Looping
  <2> QED
    BY <2>1, <2>2, LedgerMoves
<1>4. CASE Persist(j)
  <2>1. /\ pc[j] = "persist" /\ pc' = [pc EXCEPT ![j] = "send"] /\ saving' = tmpRecords
        /\ UNCHANGED <<packets, captured, dropped, raced, stop, records, tmpRecords>>
    BY <1>4 DEF Persist, source, channel, history
  <2>2. j \in Looping /\ UNCHANGED Published
    BY <2>1, PublishedStays DEF Looping
  <2> QED
    BY <2>1, <2>2, LedgerMoves
<1>5. CASE Panic
  <2>1. UNCHANGED <<packets, captured, history, job, records, stop>>
    BY <1>5 DEF Panic, source, channel
  <2> QED
    BY <2>1, PublishedStays, LedgerIdle
<1> QED
  BY <1>1, <1>2, <1>3, <1>4, <1>5 DEF Lock, SendPanics

LEMMA LedgerNext ==
  ASSUME Ledger, IInv, IInv', [Next]_vars
  PROVE  Ledger'
<1>1. CASE Take
  <2>1. UNCHANGED <<packets, captured, history, job, stop>>
    BY <1>1 DEF Take, readerRest, source, ending
  <2> QED
    BY <1>1, <2>1, TakeStutters, LedgerIdle
<1>2. ASSUME NEW c \in Consumers, Finish(c) PROVE Ledger'
  <2>1. UNCHANGED <<packets, captured, history, job, stop>>
    BY <1>2 DEF Finish, readerRest, source, ending
  <2> QED
    BY <1>2, <2>1, FinishStutters, LedgerIdle
<1>3. CASE StopTopics \/ (\E c \in Consumers : Spin(c)) \/ UNCHANGED vars
  <2>1. UNCHANGED <<packets, captured, history, job, stop>>
    BY <1>3 DEF StopTopics, Spin, readerRest, source, ending, vars, readerVars
  <2>2. UNCHANGED Published
    BY <1>3 DEF StopTopics, Spin, M!Shutdown, M!Spin, vars, readerVars, channel, manager,
       Published, Given
  <2> QED
    BY <2>1, <2>2, LedgerIdle
<1>4. CASE CronStop \/ PointShutdown
  <2>1. UNCHANGED <<packets, captured, history, job, records, manager>> /\ stop # "done"
    BY <1>4 DEF CronStop, PointShutdown, source, channel
  <2> QED
    BY <2>1, PublishedStays, LedgerIdle
<1>5. CASE (SourceEnds \/ ShutdownRecords) /\ UNCHANGED manager
  <2>1. UNCHANGED <<packets, captured, history, job, records>> /\ (stop = "done" => stop' = "done")
    BY <1>5 DEF SourceEnds, ShutdownRecords, source, channel, ending
  <2> QED
    BY <1>5, <2>1, PublishedStays, LedgerIdle
<1>6. CASE ShutdownTmp
  BY <1>6 DEF ShutdownTmp, Ledger
<1>7. CASE Capture /\ UNCHANGED manager
  BY <1>7, CaptureLedger
<1>8. ASSUME NEW j \in Jobs, Enter(j) \/ Tick(j) \/ Step(j), UNCHANGED manager
      PROVE  Ledger'
  BY <1>8, ReceiveLedger, SendLedger, EnterLedger, LoopLedger DEF Step
<1>9. CASE ReaderStep
  BY <1>5, <1>6, <1>7, <1>8, <1>9 DEF ReaderStep
<1> QED
  BY <1>1, <1>2, <1>3, <1>4, <1>9 DEF Next

\* Run, save and the topic, for any number of consumers and any batch size: while
\* one job is in the loop, every packet unpacked is in one place of its way to each
\* consumer, and in order, up to the last statement of Shutdown.
THEOREM EachPacketOnceCorrect == Spec => []EachPacketOnce
<1>1. Init => Ledger
  <2> SUFFICES ASSUME Init PROVE InPlace(Published, Collected, packets, captured, dropped)
                                 /\ dropped \subseteq 1..captured
                                 /\ \A j \in Jobs : pc[j] # "send"
    BY DEF Ledger
  <2>1. PICK c \in Consumers : TRUE
    BY TopicAssumption
  <2>2. /\ records = <<>> /\ Given(c) = <<>> /\ packets = <<>> /\ Collected = <<>>
        /\ captured = 0 /\ dropped = {} /\ \A j \in Jobs : pc[j] = "out"
    BY DEF Init, ReaderInit, M!Init, Given, Collected
  <2>3. Published = <<>>
    BY <2>2, InitEstablishes, PublishedIs DEF IInv, ManagerInv
  <2>4. <<>> \in Seq(Seq(Packets)) /\ InOrder(<<>>) /\ PacketsOf(<<>>) = {}
    BY DEF InOrder, PacketsOf
  <2>5. Below({}, {}) /\ {} \cup {} \cup {} = (1..0) \ {}
    BY DEF Below
  <2>6. InPlace(<<>>, <<>>, <<>>, 0, {})
    <3>1. PICK e : e = <<>>
      OBVIOUS
    <3>2. /\ e \in Seq(Seq(Packets)) /\ e \in Seq(Packets) /\ InOrder(e) /\ Rising(e)
          /\ PacketsOf(e) = {} /\ ToSet(e) = {}
      BY <2>4, <3>1, RisingEmpty
    <3>3. /\ Below(PacketsOf(e), ToSet(e)) /\ Below(ToSet(e), ToSet(e))
          /\ PacketsOf(e) \cup ToSet(e) \cup ToSet(e) = (1..0) \ {}
      BY <2>5, <3>2
    <3>4. InPlace(e, e, e, 0, {})
      BY <3>2, <3>3, InPlaceParts
    <3> QED
      BY <3>1, <3>4
  <2> QED
    BY <2>2, <2>3, <2>6
<1>2. IInv /\ Ledger => EachPacketOnce
  <2> SUFFICES ASSUME IInv, Ledger, ~raced, stop # "done", NEW c \in Consumers
               PROVE  InOrder(Line(c)) /\ PacketsOf(Line(c)) = (1..captured) \ dropped
    BY DEF EachPacketOnce
  <2>1. Line(c) = Append(Append(Published, Collected), packets)
    BY PublishedIs DEF Line, IInv, ManagerInv
  <2> QED
    BY <2>1 DEF Ledger, InPlace
<1> QED
  BY <1>1, <1>2, LedgerNext, Invariance, PTL DEF Spec
=============================================================================
