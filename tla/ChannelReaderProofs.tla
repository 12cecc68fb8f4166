------------------------ MODULE ChannelReaderProofs ------------------------
(***************************************************************************)
(* The reader of channels and .evtx files skips nothing and sends nothing  *)
(* twice in one process, for any number of events, batch size, capacity,   *)
(* lag of the checkpoint, failed calls, restarts, and any order of times.  *)
(***************************************************************************)
EXTENDS ChannelReader, FiniteSetTheorems, SequenceTheorems, WellFoundedInduction, TLAPS

Handed  == given \cup Batched \cup lost \cup missed
Sending == IF pc = "send" THEN batch ELSE {}

\* Event i need not be read again: by this process, and after a crash.
Covered(i) == base < log[i] => i \in Handed \cup batch \/ Overtaken(i)
Kept(i)    == base < log[i] => i \in Handed \cup Sending \/ Overtaken(i)

\* The events a position is at or past, by its number or its bookmark.
Reach(p) == (1..p.number) \cup (1..p.bookmark)

\* A position is one of an event in the log, or that of the first start.
Stamped(p) ==
  /\ p.number <= Len(log) /\ p.bookmark <= Len(log)
  /\ p.time = IF p.number = 0 THEN base ELSE log[p.number]

OnDisk  == ({saved} \cup {pending[n] : n \in DOMAIN pending}) \ {NoPosition}
InJob   == {state, seen} \ {NoPosition}

\* Which positions there are.
Phases ==
  /\ pc = "down" => /\ state = NoPosition /\ seen = NoPosition
                    /\ pending = <<>> /\ cursor = 0 /\ sent = {}
  /\ pc # "down" => state # NoPosition
  /\ pc \in {"open", "loop", "persist", "send"} => seen # NoPosition

Placed == \A p \in OnDisk \cup InJob : Stamped(p)

\* What the process has gone past it has handed on or is about to, and what it
\* resumes after it has handed on, whatever becomes of the batch it holds.
ReadSoFar  == /\ \A i \in 1..cursor : Covered(i)
              /\ \A p \in InJob : \A i \in Reach(p) : Covered(i)
SavedSoFar == \A p \in OnDisk : \A i \in Reach(p) : Kept(i)

\* Nothing is newer than the position but what is still to be read.
NotNewer == pc # "down" => \A i \in sent \cup batch : log[i] <= state.time

IInv == TypeOK /\ Phases /\ Placed /\ ReadSoFar /\ SavedSoFar /\ NotNewer

LEMMA Sizes ==
  /\ MaxRead \in Nat \ {0} /\ RecordsCap \in Nat \ {0} /\ MaxLag \in Nat \ {0}
  /\ IgnoreOlder \in Nat /\ MaxEvents \in Nat /\ MaxTime \in Nat
  /\ MaxFaults \in Nat /\ MaxCrashes \in Nat
  /\ NoPosition \notin Position
BY ChannelAssumption, NoPositionAssumption

USE Sizes

-----------------------------------------------------------------------------
(* Sets of numbers and sequences of batches *)

LEMMA LeastMember ==
  ASSUME NEW I \in SUBSET Nat, I # {}
  PROVE  \E m \in I : \A k \in I : m <= k
<1>1. PICK m \in I : \A k \in I : <<k, m>> \notin OpToRel(<, Nat)
  BY WFMin, NatLessThanWellFounded
<1>2. \A k \in I : <<k, m>> \in Nat \X Nat => ~(k < m)
  <2>1. OpToRel(<, Nat) = {t \in Nat \X Nat : t[1] < t[2]}
    BY Zenon DEF OpToRel
  <2> QED
    BY <1>1, <2>1
<1>3. ASSUME NEW k \in I PROVE m <= k
  <2>1. k \in Nat /\ m \in Nat
    BY <1>1
  <2>2. ~(k < m)
    BY <1>2, <2>1
  <2> QED
    BY <2>1, <2>2
<1> QED
  BY <1>3

LEMMA GreatestMember ==
  ASSUME NEW n \in Nat, NEW S \in SUBSET (1..n), S # {}
  PROVE  Max(S) \in S /\ \A k \in S : k <= Max(S)
<1> DEFINE T == {n - k : k \in S}
<1>1. T \in SUBSET Nat /\ T # {}
  <2>1. \A k \in S : n - k \in Nat
    OBVIOUS
  <2> QED
    BY <2>1
<1>2. PICK t \in T : \A u \in T : t <= u
  <2> HIDE DEF T
  <2> QED
    BY <1>1, LeastMember
<1>3. PICK m \in S : t = n - m
  BY <1>2
<1>4. \A k \in S : n - m <= n - k
  BY <1>2, <1>3
<1>5. \A k \in S : m >= k
  BY <1>4
<1>6. Max(S) \in S /\ \A k \in S : Max(S) >= k
  BY <1>5, Zenon DEF Max
<1>7. \A k \in S : k \in Int
  OBVIOUS
<1> QED
  BY <1>6, <1>7

All(s) == UNION {s[k] : k \in DOMAIN s}

LEMMA AllOfAppend ==
  ASSUME NEW S, NEW s \in Seq(S), NEW b \in S
  PROVE  All(Append(s, b)) = All(s) \cup b
<1>1. /\ Len(s) \in Nat /\ DOMAIN s = 1..Len(s)
      /\ Append(s, b) \in Seq(S) /\ Len(Append(s, b)) = Len(s) + 1
      /\ DOMAIN Append(s, b) = 1..(Len(s) + 1)
      /\ \A i \in 1..Len(s) : Append(s, b)[i] = s[i]
      /\ Append(s, b)[Len(s) + 1] = b
  BY LenProperties, AppendProperties
<1>2. ASSUME NEW x PROVE x \in All(Append(s, b)) <=> x \in All(s) \cup b
  <2>1. x \in All(Append(s, b)) <=> \E i \in 1..(Len(s) + 1) : x \in Append(s, b)[i]
    BY <1>1 DEF All
  <2>2. x \in All(s) <=> \E i \in 1..Len(s) : x \in s[i]
    BY <1>1 DEF All
  <2> QED
    BY <1>1, <2>1, <2>2
<1> QED
  BY <1>2

LEMMA AllOfTail ==
  ASSUME NEW S, NEW s \in Seq(S), s # <<>>
  PROVE  All(s) = Head(s) \cup All(Tail(s))
<1>1. /\ Len(s) \in Nat \ {0} /\ DOMAIN s = 1..Len(s)
      /\ Tail(s) \in Seq(S) /\ Len(Tail(s)) = Len(s) - 1
      /\ DOMAIN Tail(s) = 1..(Len(s) - 1)
      /\ \A i \in 1..(Len(s) - 1) : Tail(s)[i] = s[i + 1]
      /\ Head(s) = s[1]
  BY LenProperties, HeadTailProperties, EmptySeq
<1>2. ASSUME NEW x PROVE x \in All(s) <=> x \in Head(s) \cup All(Tail(s))
  <2>1. x \in All(s) <=> \E i \in 1..Len(s) : x \in s[i]
    BY <1>1 DEF All
  <2>2. x \in All(Tail(s)) <=> \E i \in 1..(Len(s) - 1) : x \in s[i + 1]
    BY <1>1 DEF All
  <2>3. (\E i \in 1..Len(s) : x \in s[i]) <=> x \in s[1] \/ \E i \in 1..(Len(s) - 1) : x \in s[i + 1]
    <3>1. ASSUME NEW i \in 1..Len(s), x \in s[i]
          PROVE  x \in s[1] \/ \E k \in 1..(Len(s) - 1) : x \in s[k + 1]
      <4>1. CASE i = 1
        BY <3>1, <4>1
      <4>2. CASE i # 1
        <5>1. i - 1 \in 1..(Len(s) - 1) /\ s[(i - 1) + 1] = s[i]
          BY <1>1, <4>2
        <5> QED
          BY <3>1, <5>1
      <4> QED
        BY <4>1, <4>2
    <3>2. ASSUME NEW k \in 1..(Len(s) - 1), x \in s[k + 1]
          PROVE  \E i \in 1..Len(s) : x \in s[i]
      <4>1. k + 1 \in 1..Len(s)
        BY <1>1
      <4> QED
        BY <3>2, <4>1
    <3>3. 1 \in 1..Len(s)
      BY <1>1
    <3> QED
      BY <3>1, <3>2, <3>3
  <2> QED
    BY <1>1, <2>1, <2>2, <2>3
<1> QED
  BY <1>2

LEMMA BatchedIsAll == Batched = All(records)
BY DEF Batched, All

LEMMA LogFacts ==
  ASSUME TypeOK
  PROVE  /\ Len(log) \in Nat /\ Events = 1..Len(log)
         /\ \A i \in Events : log[i] \in Times /\ log[i] \in Int
         /\ base \in Int
BY LenProperties, ElementOfSeq DEF TypeOK, Events, Times

LEMMA PositionFacts ==
  ASSUME TypeOK
  PROVE  \A p \in OnDisk \cup InJob :
           /\ p \in Position /\ p # NoPosition
           /\ p.number \in Nat /\ p.bookmark \in Nat /\ p.time \in Times /\ p.time \in Int
           /\ After(p) \in Nat /\ \A i \in 1..After(p) : i \in Reach(p)
<1>1. \A p \in OnDisk \cup InJob : p \in Position /\ p # NoPosition
  BY LenProperties, ElementOfSeq DEF TypeOK, OnDisk, InJob
<1>2. \A p \in Position : /\ p.number \in Nat /\ p.bookmark \in Nat /\ p.time \in Times
                          /\ p.time \in Int
  BY DEF Position, Times
<1> QED
  BY <1>1, <1>2 DEF After, Reach

\* The first n events after c that are to be seen.
LEMMA HandlesFacts ==
  ASSUME TypeOK, NEW c \in Int, NEW n \in Int, Handles(c, n) # {}
  PROVE  LET H == Handles(c, n)
         IN  /\ H \subseteq Events /\ Max(H) \in H /\ Max(H) \in 1..Len(log)
             /\ \A i \in H : i > c /\ i <= Max(H)
             /\ \A i \in 1..Max(H) : i > c /\ Visible(i) => i \in H
<1> DEFINE H == Handles(c, n)
           found == {i \in Events : i > c /\ Visible(i)}
           Before(i) == {j \in found : j < i}
<1>1. Len(log) \in Nat /\ Events = 1..Len(log)
  BY LogFacts
<1>2. H = {i \in found : Cardinality(Before(i)) < n}
  BY DEF Handles
<1>3. found \subseteq 1..Len(log) /\ \A i \in found : i > c
  BY <1>1
<1> HIDE DEF found, H
<1>4. H \in SUBSET (1..Len(log)) /\ H # {}
  BY <1>2, <1>3 DEF H
<1>5. Max(H) \in H /\ \A k \in H : k <= Max(H)
  BY <1>1, <1>4, GreatestMember
<1>m. Max(H) \in 1..Len(log) /\ Max(H) \in Int /\ \A j \in found : j \in Int
  <2>1. Max(H) \in 1..Len(log)
    BY <1>4, <1>5
  <2>2. \A j \in found : j \in Int
    BY <1>3
  <2> QED
    BY <2>1, <2>2
<1>6. \A i \in found : IsFiniteSet(Before(i)) /\ Cardinality(Before(i)) \in Nat
  <2>1. IsFiniteSet(1..Len(log))
    BY <1>1, FS_Interval
  <2>2. \A i \in found : Before(i) \in SUBSET (1..Len(log))
    BY <1>3
  <2> QED
    BY <2>1, <2>2, FS_Subset, FS_CardinalityType
<1>7. ASSUME NEW i \in 1..Max(H), i \in found PROVE i \in H
  <2>1. Max(H) \in found /\ Cardinality(Before(Max(H))) < n
    BY <1>2, <1>5
  <2>2. i <= Max(H) /\ i \in Int /\ Max(H) \in Int /\ \A j \in found : j \in Int
    BY <1>m
  <2>3. CASE i = Max(H)
    BY <1>5, <2>3
  <2>4. CASE i # Max(H)
    <3>1. Before(i) \in SUBSET Before(Max(H))
      BY <2>2, <2>4
    <3>2. Cardinality(Before(i)) <= Cardinality(Before(Max(H)))
      BY <1>6, <2>1, <3>1, FS_Subset
    <3>3. i \in {k \in found : Cardinality(Before(k)) < n}
      <4>1. /\ Cardinality(Before(i)) \in Nat /\ Cardinality(Before(Max(H))) \in Nat
        BY <1>6, <1>7, <2>1
      <4>2. Cardinality(Before(i)) < n
        BY <2>1, <3>2, <4>1
      <4> QED
        BY <1>7, <4>2
    <3> QED
      BY <1>2, <3>3
  <2> QED
    BY <2>3, <2>4
<1>8. \A i \in 1..Max(H) : i > c /\ Visible(i) => i \in H
  <2> SUFFICES ASSUME NEW i \in 1..Max(H), i > c, Visible(i) PROVE i \in H
    OBVIOUS
  <2>1. i \in Events
    BY <1>1, <1>m
  <2>2. i \in found
    BY <2>1 DEF found
  <2> QED
    BY <1>7, <2>2
<1>9. \A i \in H : i > c
  BY <1>2, <1>3
<1> QED
  BY <1>1, <1>4, <1>5, <1>m, <1>8, <1>9 DEF H

-----------------------------------------------------------------------------
(* What is covered stays so *)

LEMMA CoveredStays ==
  ASSUME UNCHANGED <<log, base>>, Handed \cup batch \subseteq (Handed \cup batch)',
         NEW i, Covered(i)
  PROVE  Covered(i)'
BY DEF Covered, Overtaken

LEMMA KeptStays ==
  ASSUME UNCHANGED <<log, base>>, Handed \cup Sending \subseteq (Handed \cup Sending)',
         NEW i, Kept(i)
  PROVE  Kept(i)'
BY DEF Kept, Overtaken

LEMMA KeptIsCovered ==
  ASSUME NEW i, Kept(i)
  PROVE  Covered(i)
BY DEF Kept, Covered, Sending

\* A step after which there are fewer positions, and which hands on as much: the
\* job goes no further than its position, or the process has ended.
LEMMA Frame ==
  ASSUME IInv, TypeOK', Phases', NotNewer', UNCHANGED <<log, base>>,
         OnDisk' \subseteq OnDisk, InJob' \subseteq InJob,
         \/ InJob' = {} /\ cursor' = 0
         \/ /\ Handed \cup batch \subseteq (Handed \cup batch)'
            /\ \/ cursor' \in {0, cursor}
               \/ seen # NoPosition /\ cursor' = After(seen),
         Handed \cup Sending \subseteq (Handed \cup Sending)'
  PROVE  IInv'
<1>1. Placed'
  BY DEF IInv, Placed, Stamped
<1>2. SavedSoFar'
  BY KeptStays DEF IInv, SavedSoFar
<1>3. ReadSoFar'
  <2>1. CASE InJob' = {} /\ cursor' = 0
    BY <2>1 DEF ReadSoFar
  <2>2. CASE ~(InJob' = {} /\ cursor' = 0)
    <3>1. \A i : Covered(i) => Covered(i)'
      BY <2>2, CoveredStays
    <3>2. \A p \in InJob' : \A i \in Reach(p) : Covered(i)'
      BY <3>1 DEF IInv, ReadSoFar
    <3>3. \A i \in 1..cursor' : Covered(i)'
      <4>1. CASE cursor' \in {0, cursor}
        BY <3>1, <4>1 DEF IInv, ReadSoFar
      <4>2. CASE seen # NoPosition /\ cursor' = After(seen)
        <5>1. seen \in InJob
          BY <4>2 DEF InJob
        <5>2. \A i \in 1..After(seen) : i \in Reach(seen)
          BY <5>1, PositionFacts DEF IInv
        <5> QED
          BY <3>1, <4>2, <5>1, <5>2 DEF IInv, ReadSoFar
      <4> QED
        BY <2>2, <4>1, <4>2
    <3> QED
      BY <3>2, <3>3 DEF ReadSoFar
  <2> QED
    BY <2>1, <2>2
<1> QED
  BY <1>1, <1>2, <1>3 DEF IInv

-----------------------------------------------------------------------------
(* Windows and the process *)

LEMMA InitEstablishes == Init => IInv
<1> SUFFICES ASSUME Init PROVE IInv
  OBVIOUS
<1> USE DEF Init
<1>1. TypeOK
  <2>1. log \in Seq(Times) /\ pending \in Seq(Position) /\ records \in Seq(SUBSET Events)
    OBVIOUS
  <2>2. /\ Len(log) = 0 /\ Len(pending) = 0 /\ Len(records) = 0
        /\ clock \in Times /\ base \in Times /\ cursor \in 0..Len(log)
    BY DEF Times
  <2>3. /\ pc \in {"down", "idle", "open", "loop", "persist", "send"}
        /\ (pc \in {"persist", "send"} <=> batch # {})
        /\ stop \in {"no", "point", "running", "closed"}
    OBVIOUS
  <2>4. /\ file \in BOOLEAN /\ running \in BOOLEAN /\ failed \in BOOLEAN
    OBVIOUS
  <2>5. /\ state \in Position \cup {NoPosition} /\ seen \in Position \cup {NoPosition}
        /\ saved \in Position \cup {NoPosition}
    OBVIOUS
  <2>6. batch \subseteq Events /\ sent \cup given \cup lost \cup missed \subseteq Events
    OBVIOUS
  <2>7. faults \in 0..MaxFaults /\ crashes \in 0..MaxCrashes
    OBVIOUS
  <2>8. Len(log) <= MaxEvents /\ Len(pending) <= MaxLag /\ Len(records) <= RecordsCap
    BY <2>2
  <2> HIDE DEF Init
  <2> QED
    BY <2>1, <2>2, <2>3, <2>4, <2>5, <2>6, <2>7, <2>8 DEF TypeOK
<1>2. OnDisk = {} /\ InJob = {}
  BY DEF OnDisk, InJob
<1>3. Phases
  BY DEF Phases
<1>4. ReadSoFar /\ SavedSoFar /\ Placed /\ NotNewer
  BY <1>2 DEF ReadSoFar, SavedSoFar, Placed, NotNewer
<1> QED
  BY <1>1, <1>3, <1>4 DEF IInv

LEMMA TickKeeps ==
  ASSUME IInv, Tick
  PROVE  IInv'
<1> USE DEF Tick, job, checkpoint, bounds, history
<1>1. TypeOK'
  BY DEF IInv, TypeOK, Times, Events
<1>2. /\ OnDisk' = OnDisk /\ InJob' = InJob
      /\ Handed' = Handed /\ Sending' = Sending
  BY DEF OnDisk, InJob, Handed, Batched, Sending
<1>3. Phases' /\ NotNewer'
  BY DEF IInv, Phases, NotNewer
<1> QED
  BY <1>1, <1>2, <1>3, Frame

LEMMA LogKeeps ==
  ASSUME IInv, Log
  PROVE  IInv'
<1> USE DEF Log, job, checkpoint, bounds, history
<1>1. PICK t \in Times : log' = Append(log, t)
  OBVIOUS
<1>2. /\ log' \in Seq(Times) /\ Len(log') = Len(log) + 1 /\ Len(log) \in Nat
      /\ \A i \in 1..Len(log) : log'[i] = log[i]
      /\ Events = 1..Len(log) /\ Events' = 1..(Len(log) + 1)
  <2>1. log \in Seq(Times)
    BY DEF IInv, TypeOK
  <2> QED
    BY <1>1, <2>1, AppendProperties, LenProperties DEF Events
<1>3. Events \subseteq Events'
  BY <1>2
<1>4. TypeOK'
  <2>1. records' \in Seq(SUBSET Events')
    <3>1. SUBSET Events \subseteq SUBSET Events' /\ records \in Seq(SUBSET Events)
      BY <1>3 DEF IInv, TypeOK
    <3> QED
      BY <3>1, SeqMonotonic
  <2>2. Len(log') <= MaxEvents
    BY <1>2 DEF IInv, TypeOK
  <2>3. cursor' \in 0..Len(log')
    BY <1>2 DEF IInv, TypeOK
  <2> QED
    BY <1>2, <1>3, <2>1, <2>2, <2>3 DEF IInv, TypeOK
<1>5. ASSUME NEW i \in 1..Len(log) PROVE Overtaken(i) => Overtaken(i)'
  <2>1. \A j \in 1..(i - 1) : log'[j] = log[j] /\ log'[i] = log[i]
    BY <1>2
  <2> QED
    BY <2>1 DEF Overtaken
<1>6. ASSUME NEW i \in 1..Len(log)
      PROVE  (Covered(i) => Covered(i)') /\ (Kept(i) => Kept(i)')
  <2>1. Handed' = Handed /\ Sending' = Sending /\ batch' = batch /\ base' = base
    BY DEF Handed, Batched, Sending
  <2>2. log'[i] = log[i]
    BY <1>2
  <2> QED
    BY <1>5, <2>1, <2>2 DEF Covered, Kept
<1>7. OnDisk' = OnDisk /\ InJob' = InJob
  BY DEF OnDisk, InJob
<1>8. \A p \in OnDisk \cup InJob : Stamped(p) /\ p.number \in Nat /\ p.bookmark \in Nat
  BY PositionFacts DEF IInv, Placed
<1>9. \A p \in OnDisk \cup InJob : Stamped(p)' /\ \A i \in Reach(p) : i \in 1..Len(log)
  BY <1>2, <1>8 DEF Stamped, Reach
<1>10. Placed'
  BY <1>7, <1>9 DEF Placed
<1>11. SavedSoFar'
  BY <1>6, <1>7, <1>9 DEF IInv, SavedSoFar
<1>12. ReadSoFar'
  <2>1. cursor' = cursor /\ \A i \in 1..cursor : i \in 1..Len(log)
    BY <1>2 DEF IInv, TypeOK
  <2> QED
    BY <1>6, <1>7, <1>9, <2>1 DEF IInv, ReadSoFar
<1>13. Phases' /\ NotNewer'
  <2>1. \A i \in sent \cup batch : log'[i] = log[i]
    BY <1>2 DEF IInv, TypeOK
  <2> QED
    BY <2>1 DEF IInv, Phases, NotNewer
<1> QED
  BY <1>4, <1>10, <1>11, <1>12, <1>13 DEF IInv

LEMMA StartKeeps ==
  ASSUME IInv, Start
  PROVE  IInv'
<1> USE DEF Start
<1>0. /\ state = NoPosition /\ seen = NoPosition /\ pending = <<>> /\ cursor = 0
      /\ sent = {} /\ batch = {}
  BY DEF IInv, Phases, TypeOK
<1>1. CASE saved = NoPosition
  <2> DEFINE first == [time |-> clock, number |-> 0, bookmark |-> 0]
  <2>1. first \in Position /\ first # NoPosition /\ clock \in Times
    BY DEF IInv, TypeOK, Position
  <2>2. state' = first /\ pending' = <<first>> /\ base' = clock
    BY <1>1
  <2>3. first.time = clock /\ first.number = 0 /\ first.bookmark = 0
    OBVIOUS
  <2> HIDE DEF first
  <2>4. pending' \in Seq(Position) /\ Len(pending') = 1 /\ DOMAIN pending' = {1}
        /\ pending'[1] = first
    BY <2>1, <2>2
  <2>5. TypeOK'
    <3>1. /\ UNCHANGED <<clock, log, file, running, seen, cursor, batch, saved, records,
                         stop, bounds, sent, given, lost, missed, failed>>
          /\ pc' = "idle" /\ Events' = Events
      BY DEF Events
    <3>2. Len(pending') <= MaxLag /\ state' \in Position /\ pc' \notin {"persist", "send"}
      BY <2>1, <2>2, <2>4, <3>1
    <3> HIDE DEF Start
    <3> QED
      BY <1>0, <2>1, <2>2, <2>4, <3>1, <3>2 DEF IInv, TypeOK, bounds
  <2>6. OnDisk' \cup InJob' = {first}
    BY <1>0, <1>1, <2>1, <2>2, <2>4 DEF OnDisk, InJob
  <2>7. Reach(first) = {}
    BY <2>3 DEF Reach
  <2>8. Placed'
    <3>1. Len(log') \in Nat
      BY LogFacts DEF IInv
    <3> QED
      BY <2>2, <2>3, <2>6, <3>1 DEF Placed, Stamped
  <2>9. ReadSoFar' /\ SavedSoFar'
    BY <1>0, <2>6, <2>7 DEF ReadSoFar, SavedSoFar
  <2>10. Phases' /\ NotNewer'
    BY <1>0, <2>1, <2>2 DEF Phases, NotNewer
  <2> QED
    BY <2>5, <2>8, <2>9, <2>10 DEF IInv
<1>2. CASE saved # NoPosition
  <2>1. state' = saved /\ UNCHANGED <<pending, base>>
    BY <1>2
  <2>2. TypeOK'
    <3>1. /\ UNCHANGED <<clock, log, file, running, seen, cursor, batch, saved, records,
                         stop, bounds, sent, given, lost, missed, failed>>
          /\ pc' = "idle" /\ Events' = Events
      BY DEF Events
    <3> HIDE DEF Start
    <3> QED
      BY <1>0, <1>2, <2>1, <3>1 DEF IInv, TypeOK, bounds
  <2>3. OnDisk' = OnDisk /\ saved \in OnDisk /\ InJob' = {saved}
    BY <1>0, <1>2, <2>1 DEF OnDisk, InJob
  <2>4. Handed' = Handed /\ Sending = {} /\ Sending' = {}
    BY <1>0 DEF Handed, Batched, Sending
  <2>5. SavedSoFar'
    BY <2>1, <2>3, <2>4, KeptStays DEF IInv, SavedSoFar
  <2>6. ReadSoFar'
    <3>1. \A i \in Reach(saved) : Kept(i)'
      BY <2>3, <2>5 DEF SavedSoFar
    <3>2. \A i \in Reach(saved) : Covered(i)'
      BY <2>4, <3>1 DEF Kept, Covered
    <3> QED
      BY <1>0, <2>3, <3>2 DEF ReadSoFar
  <2>7. Placed'
    BY <2>1, <2>3 DEF IInv, Placed, Stamped
  <2>8. Phases' /\ NotNewer'
    BY <1>0, <1>2, <2>1 DEF Phases, NotNewer
  <2> QED
    BY <2>2, <2>5, <2>6, <2>7, <2>8 DEF IInv
<1> QED
  BY <1>1, <1>2

LEMMA DieKeeps ==
  ASSUME IInv, Die
  PROVE  IInv'
<1> USE DEF Die
<1>1. TypeOK'
  <2>1. lost' \subseteq Events
    <3>1. Batched \subseteq Events
      BY LenProperties, ElementOfSeq DEF IInv, TypeOK, Batched
    <3> QED
      BY <3>1 DEF IInv, TypeOK
  <2>2. records' \in Seq(SUBSET Events) /\ Len(records') = 0 /\ pending' \in Seq(Position)
        /\ Len(pending') = 0 /\ Events' = Events
    BY DEF Events
  <2>3. crashes' \in 0..MaxCrashes /\ cursor' \in 0..Len(log)
    BY LogFacts DEF IInv, TypeOK
  <2>4. /\ pc' = "down" /\ batch' = {} /\ running' = FALSE /\ failed' = FALSE /\ stop' = "no"
        /\ state' = NoPosition /\ seen' = NoPosition /\ sent' = {}
        /\ UNCHANGED <<clock, log, file, saved, faults, base, given, missed>>
    OBVIOUS
  <2>5. pc' \notin {"persist", "send"} /\ Len(records') <= RecordsCap /\ Len(pending') <= MaxLag
    BY <2>2, <2>4
  <2> HIDE DEF Die
  <2> QED
    BY <2>1, <2>2, <2>3, <2>4, <2>5 DEF IInv, TypeOK
<1>2. OnDisk' \subseteq OnDisk /\ InJob' = {} /\ cursor' = 0
  BY DEF OnDisk, InJob
<1>3. Phases' /\ NotNewer'
  BY DEF Phases, NotNewer
<1>4. Handed \cup Sending \subseteq (Handed \cup Sending)'
  BY DEF Handed, Sending
<1> QED
  BY <1>1, <1>2, <1>3, <1>4, Frame

LEMMA FlushKeeps ==
  ASSUME IInv, NEW n \in DOMAIN pending, Flush(n)
  PROVE  IInv'
<1> USE DEF Flush, job, history
<1>1. /\ pending \in Seq(Position) /\ n \in 1..Len(pending) /\ Len(pending) \in Nat
      /\ DOMAIN pending = 1..Len(pending)
      /\ \A i \in 1..Len(pending) : pending[i] \in Position
  BY LenProperties, ElementOfSeq DEF IInv, TypeOK
<1>2. /\ pending' \in Seq(Position) /\ Len(pending') = Len(pending) - n
      /\ DOMAIN pending' = 1..(Len(pending) - n)
      /\ \A i \in 1..(Len(pending) - n) : pending'[i] = pending[n + i]
  <2>1. \A i \in (n + 1)..Len(pending) : pending[i] \in Position
    BY <1>1
  <2>2. pending' = SubSeq(pending, n + 1, Len(pending)) /\ n + 1 \in Int /\ Len(pending) \in Int
    BY <1>1
  <2>3. /\ pending' \in Seq(Position)
        /\ Len(pending') = IF n + 1 <= Len(pending) THEN Len(pending) - (n + 1) + 1 ELSE 0
        /\ \A i \in 1..(Len(pending) - (n + 1) + 1) : pending'[i] = pending[(n + 1) + i - 1]
    BY <2>1, <2>2, SubSeqProperties
  <2>4. Len(pending') = Len(pending) - n
    BY <1>1, <2>3
  <2>5. DOMAIN pending' = 1..(Len(pending) - n)
    BY <2>3, <2>4, LenProperties
  <2>6. ASSUME NEW i \in 1..(Len(pending) - n) PROVE pending'[i] = pending[n + i]
    <3>1. i \in 1..(Len(pending) - (n + 1) + 1) /\ (n + 1) + i - 1 = n + i
      BY <1>1
    <3> QED
      BY <2>3, <3>1
  <2> QED
    BY <2>3, <2>4, <2>5, <2>6
<1>3. TypeOK'
  <2>1. Len(pending') <= MaxLag /\ saved' \in Position
    BY <1>1, <1>2 DEF IInv, TypeOK
  <2> QED
    BY <1>2, <2>1 DEF IInv, TypeOK, Events, bounds
<1>4. OnDisk' \subseteq OnDisk
  <2>1. ASSUME NEW i \in DOMAIN pending' PROVE \E k \in DOMAIN pending : pending'[i] = pending[k]
    <3>1. n + i \in DOMAIN pending
      BY <1>1, <1>2
    <3> QED
      BY <1>2, <3>1
  <2> QED
    BY <2>1 DEF OnDisk
<1>5. /\ InJob' = InJob /\ Handed' = Handed /\ Sending' = Sending
  BY DEF InJob, Handed, Batched, Sending
<1>6. Phases' /\ NotNewer'
  <2>1. pc # "down"
    BY <1>1 DEF IInv, Phases
  <2> QED
    BY <2>1 DEF IInv, Phases, NotNewer
<1> QED
  BY <1>3, <1>4, <1>5, <1>6, Frame

LEMMA TakeKeeps ==
  ASSUME IInv, Take
  PROVE  IInv'
<1> USE DEF Take, job, checkpoint, bounds
<1>1. /\ records \in Seq(SUBSET Events) /\ Head(records) \subseteq Events
      /\ Tail(records) \in Seq(SUBSET Events) /\ Len(Tail(records)) = Len(records) - 1
      /\ Len(records) \in Nat
  BY HeadTailProperties, LenProperties DEF IInv, TypeOK
<1>2. TypeOK'
  <2>1. Len(records') <= RecordsCap
    BY <1>1 DEF IInv, TypeOK
  <2> QED
    BY <1>1, <2>1 DEF IInv, TypeOK, Events
<1>3. Batched = Head(records) \cup Batched'
  BY <1>1, BatchedIsAll, AllOfTail DEF Batched, All
<1>4. /\ OnDisk' = OnDisk /\ InJob' = InJob /\ Sending' = Sending
  BY DEF OnDisk, InJob, Sending
<1>5. Handed \subseteq Handed'
  BY <1>3 DEF Handed
<1>6. Phases' /\ NotNewer'
  BY DEF IInv, Phases, NotNewer
<1> QED
  BY <1>2, <1>4, <1>5, <1>6, Frame

LEMMA ShutdownKeeps ==
  ASSUME IInv, ShutdownPoint \/ ShutdownRunning \/ ShutdownClose
  PROVE  IInv'
<1> USE DEF ShutdownPoint, ShutdownRunning, ShutdownClose, job, checkpoint, bounds, history
<1>1. TypeOK'
  BY DEF IInv, TypeOK, Events
<1>2. /\ OnDisk' = OnDisk /\ InJob' = InJob /\ cursor' = cursor /\ batch' = batch
      /\ Handed' = Handed /\ Sending' = Sending
  BY DEF OnDisk, InJob, Handed, Batched, Sending
<1>3. Phases' /\ NotNewer'
  BY DEF IInv, Phases, NotNewer
<1>4. UNCHANGED <<log, base>>
  OBVIOUS
<1> QED
  BY <1>1, <1>2, <1>3, <1>4, Frame

-----------------------------------------------------------------------------
(* A job *)

LEMMA RunKeeps ==
  ASSUME IInv, Run
  PROVE  IInv'
<1> USE DEF Run, checkpoint, bounds, history
<1>1. TypeOK'
  BY DEF IInv, TypeOK, Events
<1>2. OnDisk' = OnDisk /\ InJob' \subseteq InJob
  BY DEF OnDisk, InJob
<1>3. Handed' = Handed /\ Sending = {} /\ Sending' = {} /\ batch' = batch
  BY DEF Handed, Batched, Sending
<1>4. Phases' /\ NotNewer'
  BY DEF IInv, Phases, NotNewer
<1> QED
  BY <1>1, <1>2, <1>3, <1>4, Frame

\* seen is a position in the log.
LEMMA SeenFacts ==
  ASSUME IInv, seen # NoPosition
  PROVE  /\ seen \in InJob /\ seen \in Position /\ Stamped(seen)
         /\ After(seen) \in 0..Len(log) /\ Len(log) \in Nat
         /\ \A i \in 1..After(seen) : Covered(i)
<1>1. seen \in InJob
  BY DEF InJob
<1>2. /\ seen \in Position /\ seen.number \in Nat /\ seen.bookmark \in Nat
      /\ \A i \in 1..After(seen) : i \in Reach(seen)
  BY <1>1, PositionFacts DEF IInv
<1>3. Stamped(seen)
  BY <1>1 DEF IInv, Placed
<1>4. After(seen) \in 0..Len(log) /\ Len(log) \in Nat
  BY <1>2, <1>3, LogFacts DEF IInv, Stamped, After
<1> QED
  BY <1>1, <1>2, <1>3, <1>4 DEF IInv, ReadSoFar

LEMMA OpenKeeps ==
  ASSUME IInv, Open \/ OpenFromBeginning \/ OpenFails
  PROVE  IInv'
<1>1. /\ pc = "open" /\ pc' \in {"loop", "idle"} /\ cursor' \in {0, cursor, After(seen)}
      /\ faults' \in 0..MaxFaults /\ failed' \in BOOLEAN
      /\ UNCHANGED <<clock, log, file, running, seen, batch, state, checkpoint, records,
                     stop, crashes, base, sent, given, lost, missed>>
  <2>0. faults \in 0..MaxFaults /\ MaxFaults \in Nat /\ failed \in BOOLEAN
    BY DEF IInv, TypeOK
  <2>1. CASE Open
    BY <2>0, <2>1 DEF Open, bounds, history
  <2>2. CASE OpenFromBeginning
    BY <2>0, <2>2 DEF OpenFromBeginning, Faulty, history
  <2>3. CASE OpenFails
    BY <2>0, <2>3 DEF OpenFails, Faulty
  <2> QED
    BY <2>1, <2>2, <2>3
<1>2. seen # NoPosition
  BY <1>1 DEF IInv, Phases
<1>3. TypeOK'
  <2>1. cursor' \in 0..Len(log) /\ Events' = Events
    BY <1>1, <1>2, SeenFacts DEF IInv, TypeOK, Events
  <2> QED
    BY <1>1, <2>1 DEF IInv, TypeOK, checkpoint
<1>4. OnDisk' = OnDisk /\ InJob' = InJob
  BY <1>1 DEF OnDisk, InJob, checkpoint
<1>5. Handed' = Handed /\ Sending' = Sending
  BY <1>1 DEF Handed, Batched, Sending
<1>6. Phases' /\ NotNewer'
  BY <1>1 DEF IInv, Phases, NotNewer, checkpoint
<1>7. UNCHANGED <<log, base, batch>>
  BY <1>1
<1> QED
  BY <1>1, <1>2, <1>3, <1>4, <1>5, <1>6, <1>7, Frame

\* Read went past the handles of c, rendered R of them and made bookmark b.
LEMMA ReturnedKeeps ==
  ASSUME IInv, pc = "loop",
         NEW c \in Int, NEW n \in Int, Handles(c, n) # {}, \A i \in 1..c : Covered(i),
         NEW R \in SUBSET Handles(c, n), NEW b \in 0..Max(Handles(c, n)),
         Returned(Handles(c, n), R, b),
         running' \in BOOLEAN, faults' \in 0..MaxFaults,
         UNCHANGED <<clock, log, file, checkpoint, records, stop, crashes, base, sent,
                     given, lost, failed>>
  PROVE  IInv'
<1> DEFINE H == Handles(c, n)
<1>0. /\ H \subseteq Events /\ Max(H) \in H /\ Max(H) \in 1..Len(log)
      /\ \A i \in H : i > c /\ i <= Max(H)
      /\ \A i \in 1..Max(H) : i > c /\ Visible(i) => i \in H
  BY HandlesFacts DEF IInv
<1>1. /\ cursor' = Max(H)
      /\ missed' = missed \cup (H \ R) \cup {i \in 1..Max(H) : i > cursor /\ ~Visible(i)}
      /\ seen' = IF R = {} THEN seen ELSE [seen EXCEPT !.bookmark = b]
      /\ batch' = Newer(R)
      /\ IF batch' = {} THEN pc' = pc /\ state' = state
                        ELSE pc' = "persist" /\ state' = Bookmarked(Max(batch'), b)
  BY DEF Returned
<1> HIDE DEF H
<1>2. /\ Len(log) \in Nat /\ Events = 1..Len(log) /\ Events' = Events
      /\ \A i \in Events : log[i] \in Times /\ log[i] \in Int
      /\ base \in Int /\ log' = log
  BY LogFacts DEF IInv, Events
<1>3. /\ R \subseteq 1..Len(log) /\ \A i \in R : i \in Int /\ i <= Max(H)
      /\ Max(H) \in Int /\ b \in 0..Len(log) /\ b <= Max(H)
  BY <1>0, <1>2 DEF H
<1>4. /\ state \in InJob /\ Stamped(state) /\ state \in Position
      /\ state.number \in Nat /\ state.bookmark \in Nat /\ state.time \in Int
  <2>1. state \in InJob
    BY DEF InJob, IInv, Phases
  <2> QED
    BY <2>1, PositionFacts DEF IInv, Placed
<1>5. seen # NoPosition
  BY DEF IInv, Phases
<1>b. batch = {} /\ Sending = {}
  BY DEF IInv, TypeOK, Sending
<1>6. /\ batch' \subseteq R
      /\ \A i \in R : i \in batch' \/ log[i] <= state.time \/ Overtaken(i)
  <2>1. batch' \subseteq R
    BY <1>1 DEF Newer
  <2>2. ASSUME NEW i \in R, i \notin batch', ~(log[i] <= state.time) PROVE Overtaken(i)
    <3>1. i \in Events /\ log[i] \in Int /\ log[i] > state.time
      BY <1>2, <1>3, <1>4, <2>2
    <3>2. PICK j \in R : j < i /\ ~(log[j] < log[i])
      BY <1>1, <2>2, <3>1 DEF Newer
    <3>3. j \in Events /\ log[j] \in Int /\ j \in 1..(i - 1)
      BY <1>2, <1>3, <3>2
    <3> QED
      BY <3>1, <3>2, <3>3 DEF Overtaken
  <2> QED
    BY <2>1, <2>2
<1>7. /\ Handed \cup missed' \subseteq Handed'
      /\ Handed \cup batch \subseteq (Handed \cup batch)'
      /\ Handed \cup Sending \subseteq (Handed \cup Sending)'
  <2>1. Batched' = Batched /\ missed \subseteq missed'
    BY <1>1 DEF Batched
  <2> QED
    BY <1>b, <2>1 DEF Handed
<1>8. \A i : Covered(i) => Covered(i)'
  BY <1>7, CoveredStays
<1>9. \A i \in 1..Max(H) : Covered(i)'
  <2> SUFFICES ASSUME NEW i \in 1..Max(H), base < log[i], ~Overtaken(i)
               PROVE  i \in (Handed \cup batch)'
    <3>1. \A i \in 1..Max(H) : base' = base /\ log'[i] = log[i] /\ (Overtaken(i)' <=> Overtaken(i))
      BY <1>2 DEF Overtaken
    <3> QED
      BY <3>1 DEF Covered
  <2>0. i \in Int /\ i \in Events /\ log[i] \in Int /\ cursor \in Int
    <3>1. cursor \in Int
      BY <1>2 DEF IInv, TypeOK
    <3>2. i \in Int /\ i \in 1..Len(log)
      BY <1>0, <1>2, <1>3
    <3>3. log[i] \in Int
      BY <3>2, LogFacts DEF IInv, Events
    <3> QED
      BY <1>2, <3>1, <3>2, <3>3
  <2>1. CASE Covered(i)
    BY <1>7, <2>1 DEF Covered
  <2>2. CASE ~Covered(i)
    <3>1. i > c /\ i > cursor
      BY <2>0, <2>2 DEF IInv, ReadSoFar
    <3>2. CASE ~Visible(i)
      BY <1>1, <1>7, <3>1, <3>2
    <3>3. CASE Visible(i)
      <4>1. i \in H
        BY <1>0, <3>1, <3>3
      <4>2. CASE i \notin R
        BY <1>1, <1>7, <4>1, <4>2
      <4>3. CASE i \in R
        <5>1. ~(log[i] <= state.time)
          <6> SUFFICES ASSUME log[i] <= state.time PROVE FALSE
            OBVIOUS
          <6>1. CASE state.number = 0
            BY <1>2, <1>4, <2>0, <6>1 DEF Stamped
          <6>2. CASE state.number # 0 /\ state.number < i
            <7>1. state.number \in 1..(i - 1) /\ state.time = log[state.number]
              BY <1>4, <2>0, <6>2 DEF Stamped
            <7>2. log[state.number] >= log[i]
              BY <1>4, <2>0, <7>1
            <7> QED
              BY <7>1, <7>2 DEF Overtaken
          <6>3. CASE state.number # 0 /\ ~(state.number < i)
            <7>1. i \in 1..state.number
              BY <1>4, <2>0, <6>3
            <7> QED
              BY <1>4, <2>2, <7>1 DEF IInv, ReadSoFar, Reach
          <6> QED
            BY <6>1, <6>2, <6>3
        <5> QED
          BY <1>6, <4>3, <5>1
      <4> QED
        BY <4>2, <4>3
    <3> QED
      BY <3>2, <3>3
  <2> QED
    BY <2>1, <2>2
\* The position of the reader after the step, whether or not a batch came of it.
<1>10. /\ pc' \in {"loop", "persist"} /\ (pc' = "persist" <=> batch' # {})
       /\ state' \in Position /\ Stamped(state)'
       /\ \A i \in Reach(state') : Covered(i)'
       /\ \A i \in sent \cup batch' : log[i] <= state'.time
  <2>1. CASE batch' = {}
    <3>1. pc' = "loop" /\ state' = state
      BY <1>1, <2>1
    <3>2. Stamped(state)'
      BY <1>2, <1>4, <3>1 DEF Stamped
    <3>3. \A i \in Reach(state') : Covered(i)'
      BY <1>4, <1>8, <3>1 DEF IInv, ReadSoFar
    <3>4. \A i \in sent \cup batch' : log[i] <= state'.time
      BY <2>1, <3>1 DEF IInv, NotNewer
    <3> QED
      BY <1>4, <2>1, <3>1, <3>2, <3>3, <3>4
  <2>2. CASE batch' # {}
    <3> DEFINE k == Max(batch')
    <3>1. k \in batch' /\ \A i \in batch' : i <= k
      <4>1. batch' \in SUBSET (1..Len(log))
        BY <1>3, <1>6
      <4> QED
        BY <1>2, <2>2, <4>1, GreatestMember
    <3>2. pc' = "persist" /\ state' = [time |-> log[k], number |-> k, bookmark |-> b]
      BY <1>1, <2>2 DEF Bookmarked
    <3> HIDE DEF k
    <3>3. /\ k \in R /\ k \in 1..Len(log) /\ k <= Max(H) /\ k \in Events /\ log[k] \in Int
          /\ Len(log) <= MaxEvents
      BY <1>2, <1>3, <1>6, <3>1 DEF IInv, TypeOK
    <3>4. log[k] > state.time /\ \A i \in R : i < k => log[i] < log[k]
      BY <1>1, <3>1 DEF Newer
    <3>5. state'.number = k /\ state'.bookmark = b /\ state'.time = log[k]
      BY <3>2
    <3>6. state' \in Position
      <4>1. log[k] \in Times /\ k \in 0..MaxEvents /\ b \in 0..MaxEvents
        BY <1>2, <1>3, <3>3
      <4> QED
        BY <3>2, <4>1 DEF Position
    <3>7. Stamped(state)'
      BY <1>2, <1>3, <3>3, <3>5 DEF Stamped
    <3>8. \A i \in Reach(state') : Covered(i)'
      <4>1. \A i \in Reach(state') : i \in 1..Max(H)
        BY <1>3, <3>3, <3>5 DEF Reach
      <4> QED
        BY <1>9, <4>1
    <3>9. ASSUME NEW i \in sent \cup batch' PROVE log[i] <= state'.time
      <4>1. CASE i \in sent
        <5>1. log[i] <= state.time /\ log[i] \in Int
          BY <1>2, <4>1 DEF IInv, NotNewer, TypeOK
        <5> QED
          BY <1>4, <3>3, <3>4, <3>5, <5>1
      <4>2. CASE i \in batch'
        <5>1. i \in R /\ i <= k /\ i \in Int /\ k \in Int /\ log[i] \in Int
          BY <1>2, <1>3, <1>6, <3>1, <3>3, <4>2
        <5>2. i = k \/ i < k
          BY <5>1
        <5> QED
          BY <3>3, <3>4, <3>5, <5>1, <5>2
      <4> QED
        BY <4>1, <4>2
    <3> QED
      BY <2>2, <3>2, <3>6, <3>7, <3>8, <3>9
  <2> QED
    BY <2>1, <2>2
<1>11. /\ seen' \in Position /\ Stamped(seen)' /\ \A i \in Reach(seen') : Covered(i)'
  <2>1. /\ seen \in Position /\ Stamped(seen) /\ seen.number \in Nat
        /\ \A i \in Reach(seen) : Covered(i)'
    BY <1>5, <1>8, SeenFacts, PositionFacts DEF IInv, ReadSoFar
  <2>2. CASE R = {}
    <3>1. seen' = seen
      BY <1>1, <2>2
    <3> QED
      BY <1>2, <2>1, <3>1 DEF Stamped
  <2>3. CASE R # {}
    <3>1. seen' = [seen EXCEPT !.bookmark = b]
      BY <1>1, <2>3
    <3>2. seen'.number = seen.number /\ seen'.time = seen.time /\ seen'.bookmark = b
      BY <2>1, <3>1 DEF Position
    <3>3. seen' \in Position
      <4>1. b \in 0..MaxEvents
        BY <1>2, <1>3 DEF IInv, TypeOK
      <4> QED
        BY <2>1, <3>1, <4>1 DEF Position
    <3>4. Stamped(seen)'
      BY <1>2, <1>3, <2>1, <3>2 DEF Stamped
    <3>5. \A i \in 1..b : i \in 1..Max(H)
      BY <1>3
    <3>6. \A i \in Reach(seen') : Covered(i)'
      BY <1>9, <2>1, <3>2, <3>5 DEF Reach
    <3> QED
      BY <3>3, <3>4, <3>6
  <2> QED
    BY <2>2, <2>3
<1>12. TypeOK'
  <2>1. /\ batch' \subseteq Events /\ missed' \subseteq Events /\ cursor' \in 0..Len(log)
    <3>1. \A i \in 1..Max(H) : i \in Events
      BY <1>0, <1>2
    <3>2. H \subseteq Events /\ R \subseteq Events
      BY <1>0, <1>2, <1>3
    <3>3. Max(H) \in 0..Len(log)
      BY <1>0, <1>2
    <3> QED
      BY <1>1, <1>6, <3>1, <3>2, <3>3 DEF IInv, TypeOK
  <2> QED
    BY <1>2, <1>10, <1>11, <2>1 DEF IInv, TypeOK, checkpoint
<1>13. OnDisk' = OnDisk /\ InJob' \subseteq {state', seen'}
  BY DEF OnDisk, InJob, checkpoint
<1>14. Phases' /\ NotNewer'
  BY <1>2, <1>5, <1>10, <1>11 DEF IInv, Phases, NotNewer
<1>15. Placed'
  <2>1. \A p \in OnDisk : Stamped(p)'
    BY <1>2 DEF IInv, Placed, Stamped
  <2>2. \A p \in {state', seen'} : Stamped(p)'
    BY <1>10, <1>11 DEF Stamped
  <2> QED
    BY <1>13, <2>1, <2>2 DEF Placed
<1>16. ReadSoFar'
  BY <1>1, <1>9, <1>10, <1>11, <1>13 DEF ReadSoFar
<1>17. SavedSoFar'
  BY <1>2, <1>7, <1>13, KeptStays DEF IInv, SavedSoFar
<1> QED
  BY <1>12, <1>14, <1>15, <1>16, <1>17 DEF IInv

LEMMA ReadKeeps ==
  ASSUME IInv, Read \/ ReadPartly
  PROVE  IInv'
<1> DEFINE H == Handles(cursor, MaxRead)
<1>1. /\ pc = "loop" /\ H # {} /\ faults' \in 0..MaxFaults /\ running' \in BOOLEAN
      /\ UNCHANGED <<clock, log, file, checkpoint, records, stop, crashes, base, sent,
                     given, lost, failed>>
  BY DEF Read, ReadPartly, Faulty, bounds, IInv, TypeOK
<1>2. cursor \in Int /\ MaxRead \in Int /\ \A i \in 1..cursor : Covered(i)
  BY DEF IInv, TypeOK, ReadSoFar
<1>3. /\ H \subseteq 1..Len(log) /\ Len(log) \in Nat /\ Max(H) \in 1..Len(log)
      /\ \A i \in H : i <= Max(H)
  BY <1>1, <1>2, HandlesFacts, LogFacts DEF IInv
<1>4. \E R \in SUBSET H : \E b \in 0..Max(H) : Returned(H, R, b)
  <2>1. Max(H) \in 0..Max(H) /\ 0 \in 0..Max(H)
    BY <1>3
  <2>2. CASE Read
    BY <2>1, <2>2 DEF Read
  <2>3. CASE ReadPartly
    <3>1. CASE Returned(H, H, 0)
      BY <2>1, <3>1
    <3>2. ASSUME NEW i \in H, Returned(H, H \ {i}, IF H \ {i} = {} THEN 0 ELSE Max(H \ {i}))
          PROVE  \E R \in SUBSET H : \E b \in 0..Max(H) : Returned(H, R, b)
      <4>1. CASE H \ {i} = {}
        BY <2>1, <3>2, <4>1
      <4>2. CASE H \ {i} # {}
        <5>1. H \ {i} \in SUBSET (1..Len(log))
          BY <1>3
        <5>2. Max(H \ {i}) \in H \ {i}
          BY <1>3, <4>2, <5>1, GreatestMember
        <5>3. Max(H \ {i}) \in 0..Max(H)
          BY <1>3, <5>2
        <5> QED
          BY <3>2, <4>2, <5>3
      <4> QED
        BY <4>1, <4>2
    <3> QED
      BY <2>3, <3>1, <3>2 DEF ReadPartly
  <2> QED
    BY <2>2, <2>3
<1> QED
  BY <1>1, <1>2, <1>4, ReturnedKeeps

LEMMA RecoverKeeps ==
  ASSUME IInv, Recover
  PROVE  IInv'
<1> DEFINE H == Handles(After(seen), MaxRead \div 2)
<1>1. /\ pc = "loop" /\ faults' \in 0..MaxFaults
      /\ UNCHANGED <<clock, log, file, checkpoint, records, stop, crashes, base, sent,
                     given, lost, failed>>
  BY DEF Recover, Faulty, IInv, TypeOK
<1>2. seen # NoPosition
  BY <1>1 DEF IInv, Phases
<1>3. /\ After(seen) \in 0..Len(log) /\ Len(log) \in Nat /\ MaxRead \div 2 \in Int
      /\ \A i \in 1..After(seen) : Covered(i)
  BY <1>2, SeenFacts
<1>4. CASE H = {}
  <2>1. /\ running' = FALSE /\ cursor' = After(seen)
        /\ UNCHANGED <<pc, seen, batch, state, missed>>
    BY <1>4 DEF Recover
  <2>2. TypeOK'
    BY <1>1, <1>3, <2>1 DEF IInv, TypeOK, checkpoint, Events
  <2>3. OnDisk' = OnDisk /\ InJob' = InJob
    BY <1>1, <2>1 DEF OnDisk, InJob, checkpoint
  <2>4. Handed' = Handed /\ Sending' = Sending
    BY <1>1, <2>1 DEF Handed, Batched, Sending
  <2>5. Phases' /\ NotNewer'
    BY <1>1, <2>1 DEF IInv, Phases, NotNewer, checkpoint
  <2> QED
    BY <1>1, <1>2, <2>1, <2>2, <2>3, <2>4, <2>5, Frame
<1>5. CASE H # {}
  <2>1. Returned(H, H, Max(H)) /\ UNCHANGED running
    BY <1>5 DEF Recover
  <2>2. Max(H) \in 0..Max(H)
    BY <1>3, <1>5, HandlesFacts DEF IInv
  <2>3. running' \in BOOLEAN /\ After(seen) \in Int
    BY <1>3, <2>1 DEF IInv, TypeOK
  <2> QED
    BY <1>1, <1>3, <1>5, <2>1, <2>2, <2>3, ReturnedKeeps
<1> QED
  BY <1>4, <1>5

LEMMA LeaveKeeps ==
  ASSUME IInv, ReadEnds \/ Leave
  PROVE  IInv'
<1>1. /\ pc = "loop" /\ pc' \in {"loop", "idle"} /\ running' \in BOOLEAN
      /\ faults' \in 0..MaxFaults
      /\ UNCHANGED <<clock, log, file, seen, cursor, batch, state, checkpoint, records,
                     stop, crashes, history>>
  <2>0. faults \in 0..MaxFaults /\ MaxFaults \in Nat /\ running \in BOOLEAN
    BY DEF IInv, TypeOK
  <2>1. CASE Leave
    BY <2>0, <2>1 DEF Leave, bounds
  <2>2. CASE ReadEnds
    <3>1. faults' \in 0..MaxFaults
      BY <2>0, <2>2 DEF ReadEnds, Faulty
    <3> QED
      BY <2>2, <3>1 DEF ReadEnds
  <2> QED
    BY <2>1, <2>2
<1>2. TypeOK'
  BY <1>1 DEF IInv, TypeOK, checkpoint, Events, history
<1>3. OnDisk' = OnDisk /\ InJob' = InJob
  BY <1>1 DEF OnDisk, InJob, checkpoint
<1>4. Handed' = Handed /\ Sending' = Sending /\ UNCHANGED <<log, base, batch, cursor>>
  BY <1>1 DEF Handed, Batched, Sending, history
<1>5. Phases' /\ NotNewer'
  BY <1>1 DEF IInv, Phases, NotNewer, checkpoint, history
<1> QED
  BY <1>2, <1>3, <1>4, <1>5, Frame

\* The position of the batch is saved before the batch is sent.
LEMMA PersistKeeps ==
  ASSUME IInv, Persist
  PROVE  IInv'
<1> USE DEF Persist, bounds, history
<1>1. state \in InJob /\ state \in Position
  <2>1. state \in InJob
    BY DEF InJob, IInv, Phases
  <2> QED
    BY <2>1, PositionFacts DEF IInv
<1>2. /\ pending \in Seq(Position) /\ Len(pending) \in Nat
      /\ pending' \in Seq(Position) /\ Len(pending') = Len(pending) + 1
      /\ DOMAIN pending = 1..Len(pending) /\ DOMAIN pending' = 1..(Len(pending) + 1)
      /\ \A i \in 1..Len(pending) : pending'[i] = pending[i]
      /\ pending'[Len(pending) + 1] = state
  BY <1>1, AppendProperties, LenProperties DEF IInv, TypeOK
<1>3. TypeOK'
  <2>1. Len(pending') <= MaxLag /\ Events' = Events
    BY <1>2 DEF IInv, TypeOK, Events
  <2> QED
    BY <1>2, <2>1 DEF IInv, TypeOK
<1>4. OnDisk' \subseteq OnDisk \cup {state} /\ InJob' = InJob
  <2>1. \A i \in DOMAIN pending' : pending'[i] = state \/ \E k \in DOMAIN pending : pending'[i] = pending[k]
    BY <1>2
  <2> QED
    BY <2>1 DEF OnDisk, InJob
<1>5. Handed' = Handed /\ Sending = {} /\ Sending' = batch /\ batch' = batch
  BY DEF Handed, Batched, Sending
<1>6. \A i : (Covered(i) => Covered(i)') /\ (Kept(i) => Kept(i)') /\ (Covered(i) => Kept(i)')
  BY <1>5 DEF Covered, Kept, Overtaken
<1>7. Placed'
  BY <1>1, <1>4 DEF IInv, Placed, Stamped
<1>8. ReadSoFar'
  BY <1>4, <1>6 DEF IInv, ReadSoFar
<1>9. SavedSoFar'
  BY <1>1, <1>4, <1>6 DEF IInv, ReadSoFar, SavedSoFar
<1>10. Phases' /\ NotNewer'
  BY DEF IInv, Phases, NotNewer
<1> QED
  BY <1>3, <1>7, <1>8, <1>9, <1>10 DEF IInv

LEMMA SendKeeps ==
  ASSUME IInv, Send
  PROVE  IInv'
<1> USE DEF Send, checkpoint, bounds
<1>1. /\ records \in Seq(SUBSET Events) /\ batch \in SUBSET Events
      /\ records' \in Seq(SUBSET Events) /\ Len(records') = Len(records) + 1
      /\ Len(records) \in Nat
  BY AppendProperties, LenProperties DEF IInv, TypeOK
<1>2. TypeOK'
  <2>1. Len(records') <= RecordsCap /\ Events' = Events /\ pc' \notin {"persist", "send"}
    BY <1>1 DEF IInv, TypeOK, Events
  <2> QED
    BY <1>1, <2>1 DEF IInv, TypeOK
<1>3. Batched' = Batched \cup batch
  <2>1. All(Append(records, batch)) = All(records) \cup batch
    BY <1>1, AllOfAppend
  <2> QED
    BY <2>1 DEF Batched, All
<1>4. OnDisk' = OnDisk /\ InJob' = InJob
  BY DEF OnDisk, InJob
<1>5. Handed \cup batch \subseteq Handed' /\ Sending = batch
  BY <1>3 DEF Handed, Sending
<1>6. Phases' /\ NotNewer'
  BY DEF IInv, Phases, NotNewer
<1> QED
  BY <1>2, <1>4, <1>5, <1>6, Frame

-----------------------------------------------------------------------------

LEMMA StepPreserves == IInv /\ [Next]_vars => IInv'
<1> SUFFICES ASSUME IInv, [Next]_vars PROVE IInv'
  OBVIOUS
<1>1. CASE UNCHANGED vars
  <2> USE <1>1 DEF vars, job, checkpoint, bounds, history
  <2>1. TypeOK'
    BY DEF IInv, TypeOK, Events
  <2>2. /\ OnDisk' = OnDisk /\ InJob' = InJob
        /\ Handed' = Handed /\ Sending' = Sending
    BY DEF OnDisk, InJob, Handed, Batched, Sending
  <2>3. Phases' /\ NotNewer'
    BY DEF IInv, Phases, NotNewer
  <2> QED
    BY <2>1, <2>2, <2>3, Frame
<1>2. CASE Tick \/ Log \/ Start \/ Take
  BY <1>2, TickKeeps, LogKeeps, StartKeeps, TakeKeeps
<1>3. CASE Crash \/ SendPanics
  BY <1>3, DieKeeps DEF Crash, SendPanics
<1>4. CASE ShutdownPoint \/ ShutdownRunning \/ ShutdownClose
  BY <1>4, ShutdownKeeps
<1>5. CASE \E n \in DOMAIN pending : Flush(n)
  BY <1>5, FlushKeeps
<1>6. CASE Run
  BY <1>6, RunKeeps
<1>7. CASE Step
  BY <1>7, OpenKeeps, ReadKeeps, RecoverKeeps, LeaveKeeps, PersistKeeps, SendKeeps DEF Step
<1> QED
  BY <1>1, <1>2, <1>3, <1>4, <1>5, <1>6, <1>7 DEF Next

LEMMA Invariance == Spec => []IInv
BY InitEstablishes, StepPreserves, PTL DEF Spec

\* Every variable of the reader keeps its type: no channel outgrows its capacity,
\* no cursor the log, and there is a batch exactly while one is to be sent.
THEOREM TypeCorrect == Spec => []TypeOK
<1>1. IInv => TypeOK
  BY DEF IInv
<1> QED
  BY <1>1, Invariance, PTL

\* No position a job starts from, or a restart may find, is past an event that
\* has neither been handed on nor is excused by name: the bookmark of the last
\* event read, saved with the number of the last one kept, loses nothing.
THEOREM NothingSkippedCorrect == Spec => []NothingSkipped
<1>1. IInv => NothingSkipped
  <2> SUFFICES ASSUME IInv, NEW p \in Points, NEW i \in 1..After(p), base < log[i]
               PROVE  \/ i \in given \cup Batched \cup batch \cup lost \cup missed
                      \/ Overtaken(i)
    BY DEF NothingSkipped
  <2>1. p \in OnDisk \cup InJob
    BY DEF Points, OnDisk, InJob
  <2>2. i \in Reach(p)
    BY <2>1, PositionFacts DEF IInv
  <2>3. Covered(i)
    BY <2>1, <2>2, KeptIsCovered DEF IInv, ReadSoFar, SavedSoFar
  <2> QED
    BY <2>3 DEF Covered, Handed
<1> QED
  BY <1>1, Invariance, PTL

\* What is added to a batch is newer than the position.
LEMMA NewInBatch ==
  ASSUME Next, NEW i \in batch' \ batch
  PROVE  \E R : pc = "loop" /\ log' = log /\ i \in R /\ R \subseteq Events /\ log[i] > state.time
<1>1. ASSUME NEW c, NEW n, NEW R, R \subseteq Handles(c, n), Returned(Handles(c, n), R, 0)
             \/ \E b : Returned(Handles(c, n), R, b)
      PROVE  i \in R /\ R \subseteq Events /\ log[i] > state.time
  <2>1. batch' = Newer(R)
    BY <1>1 DEF Returned
  <2>2. Handles(c, n) \subseteq Events
    BY DEF Handles
  <2> QED
    BY <1>1, <2>1, <2>2 DEF Newer
<1>2. CASE Read
  BY <1>1, <1>2 DEF Read
<1>3. CASE ReadPartly
  <2>1. PICK R : R \subseteq Handles(cursor, MaxRead)
                 /\ \E b : Returned(Handles(cursor, MaxRead), R, b)
    BY <1>3 DEF ReadPartly
  <2> QED
    BY <1>1, <1>3, <2>1 DEF ReadPartly
<1>4. CASE Recover
  BY <1>1, <1>4 DEF Recover
<1>5. CASE ~Read /\ ~ReadPartly /\ ~Recover
  <2>1. batch' \subseteq batch
    BY <1>5 DEF Next, Step, Tick, Log, Start, Crash, Die, Take, ShutdownPoint, ShutdownRunning,
                ShutdownClose, Flush, Run, Open, OpenFromBeginning, OpenFails, ReadEnds, Leave,
                Persist, Send, SendPanics, job
  <2> QED
    BY <2>1
<1> QED
  BY <1>2, <1>3, <1>4, <1>5

\* A process sends no event twice, and none that is not newer than all it has
\* sent, however often it reads the log again.
THEOREM SentInOrderCorrect == Spec => SentInOrder
<1>1. IInv /\ [Next]_vars => [\A i \in batch' \ batch : \A j \in sent \cup batch : log[j] < log'[i]]_vars
  <2> SUFFICES ASSUME IInv, Next, NEW i \in batch' \ batch, NEW j \in sent \cup batch
               PROVE  log[j] < log'[i]
    OBVIOUS
  <2>1. /\ pc = "loop" /\ log' = log /\ state \in InJob
        /\ i \in Events /\ log[i] > state.time
    <3>1. state \in InJob \/ pc = "down"
      BY DEF InJob, IInv, Phases
    <3>2. PICK R : pc = "loop" /\ log' = log /\ i \in R /\ R \subseteq Events /\ log[i] > state.time
      BY NewInBatch
    <3> QED
      BY <3>1, <3>2
  <2>2. log[j] <= state.time
    BY <2>1 DEF IInv, NotNewer
  <2> QED
    BY <2>1, <2>2, LogFacts, PositionFacts DEF IInv, TypeOK
<1> QED
  BY <1>1, Invariance, PTL DEF Spec, SentInOrder
=============================================================================
