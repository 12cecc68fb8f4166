--------------------------- MODULE ETLScanProofs ---------------------------
(***************************************************************************)
(* The filter of scanXML skips nothing, for any chunk size, any channel    *)
(* capacity and any number of positions on their way to the disk.          *)
(***************************************************************************)
EXTENDS ETLScan, FiniteSetTheorems, WellFoundedInduction, SequenceTheorems, TLAPS

\* Events that were put in records.
Handed == given \cup Batched \cup lost

\* The log is sorted, and no event is in the future.
Sorted ==
  /\ \A i, j \in Events : i < j => log[i] <= log[j]
  /\ \A i \in Events : log[i] <= clock

\* A position was taken in the past.
PointsPast == \A p \in Points : p.time <= clock /\ p.md5 \in 0..Len(log)

\* All that the filter drops, whatever position it starts from, was put in
\* records, or its chunk is about to be.
Covered ==
  \A i \in Events, p \in Points :
    base < log[i] /\ (log[i] < p.time \/ i = p.md5) => i \in Handed \cup InFlight

\* What comes before an event of delta is in delta, or was put in records.
NoGap ==
  \A d \in delta, i \in Events :
    i < d /\ base < log[i] => i \in Handed \cup delta

\* Where delta stands to the position.
Ahead ==
  /\ pc # "down" => state \in Position
  /\ pc = "persist" => \A d \in delta : state.time <= log[d]
  /\ pc = "send" => state.time = log[Last]

\* What this process has sent is not later than the position.
SentBehind ==
  /\ pc = "down" => sent = {}
  /\ \A i \in sent : log[i] <= state.time

IInv ==
  TypeOK /\ Sorted /\ PointsPast /\ Covered /\ NoGap /\ Ahead /\ SentBehind

-----------------------------------------------------------------------------
(* Chunks *)

\* A finite set of numbers that is not empty has a least member: the sets of
\* members below a member are ordered by inclusion.
LEMMA LeastMember ==
  ASSUME NEW n \in Nat, NEW S \in SUBSET (0..n), S # {}
  PROVE  \E m \in S : \A k \in S : m <= k
<1> DEFINE Below(i) == {j \in S : j < i}
           T == {Below(i) : i \in S}
<1>1. IsFiniteSet(S)
  <2>1. IsFiniteSet(0..n)
    BY FS_Interval
  <2> QED
    BY <2>1, FS_Subset
<1>2. T \subseteq FiniteSubsetsOf(S) /\ T # {}
  <2>1. \A i \in S : Below(i) \in SUBSET S
    OBVIOUS
  <2>2. \A i \in S : IsFiniteSet(Below(i))
    BY <1>1, <2>1, FS_Subset
  <2> QED
    BY <2>1, <2>2 DEF FiniteSubsetsOf
<1>3. IsWellFoundedOn(StrictSubsetOrdering(S), FiniteSubsetsOf(S))
  BY FS_StrictSubsetOrderingWellFounded
<1>4. PICK t \in T : \A u \in T : ~(<<u, t>> \in StrictSubsetOrdering(S))
  <2> HIDE DEF T
  <2> QED
    BY <1>2, <1>3, WFMin
<1>5. PICK m \in S : t = Below(m)
  OBVIOUS
<1>6. ASSUME NEW k \in S, k < m
      PROVE  FALSE
  <2>0. k \in Int /\ m \in Int /\ \A j \in S : j \in Int
    OBVIOUS
  <2>1. Below(k) \subseteq Below(m)
    <3>1. \A j \in S : j < k => j < m
      BY <1>6, <2>0
    <3> QED
      BY <3>1
  <2>2. k \in Below(m) /\ k \notin Below(k)
    BY <1>6, <2>0
  <2>3. Below(k) # Below(m)
    BY <2>2
  <2>4. <<Below(k), Below(m)>> \in StrictSubsetOrdering(S)
    BY <2>1, <2>3 DEF StrictSubsetOrdering
  <2> QED
    BY <1>4, <1>5, <2>4
<1> QED
  BY <1>6

\* A finite set of numbers that is not empty has a greatest member.
LEMMA GreatestMember ==
  ASSUME NEW n \in Nat, NEW S \in SUBSET (0..n), S # {}
  PROVE  \E m \in S : \A k \in S : k <= m
<1> DEFINE T == {n - k : k \in S}
<1>1. T \in SUBSET (0..n) /\ T # {}
  OBVIOUS
<1>2. PICK t \in T : \A u \in T : t <= u
  <2> HIDE DEF T
  <2> QED
    BY <1>1, LeastMember
<1>3. PICK m \in S : t = n - m
  OBVIOUS
<1>4. \A k \in S : n - m <= n - k
  BY <1>2, <1>3
<1> QED
  BY <1>4

\* The next chunk of a delta that is not empty has a last event, and all that
\* stays behind comes after it.
LEMMA ChunkIsPrefix ==
  ASSUME NEW n \in Nat, delta \in SUBSET (1..n), delta # {}
  PROVE  /\ Last \in Chunk /\ Chunk \subseteq delta
         /\ \A j \in Chunk : j <= Last
         /\ \A i \in delta \ Chunk : Last < i
<1> DEFINE Before(i) == {j \in delta : j < i}
<1>1. IsFiniteSet(1..n)
  BY FS_Interval
<1>2. \A i \in 1..n : IsFiniteSet(Before(i)) /\ Cardinality(Before(i)) \in Nat
  BY <1>1, FS_Subset, FS_CardinalityType
<1>3. PICK m \in delta : \A k \in delta : m <= k
  <2>1. delta \in SUBSET (0..n)
    OBVIOUS
  <2> QED
    BY <2>1, LeastMember
<1>4. m \in Chunk
  <2>1. ASSUME NEW j \in Before(m) PROVE FALSE
    <3>1. j \in delta /\ j < m /\ m <= j
      BY <1>3
    <3>2. j \in Int /\ m \in Int
      BY <1>3, <3>1
    <3> QED
      BY <3>1, <3>2
  <2>2. Before(m) = {}
    BY <2>1
  <2>3. Cardinality(Before(m)) < MaxRead
    BY <2>2, FS_EmptySet, ScanAssumption
  <2> QED
    BY <2>3 DEF Chunk
<1>5. Chunk \subseteq delta
  BY DEF Chunk
<1>6. PICK g \in Chunk : \A k \in Chunk : k <= g
  <2>1. Chunk \in SUBSET (0..n) /\ Chunk # {}
    BY <1>4, <1>5
  <2> QED
    BY <2>1, GreatestMember
<1>7. Last \in Chunk /\ \A j \in Chunk : j <= Last
  <2>1. \A y \in Chunk : g >= y
    BY <1>5, <1>6
  <2>2. Last \in Chunk /\ \A y \in Chunk : Last >= y
    BY <2>1 DEF Last, Max
  <2> QED
    BY <1>5, <2>2
<1>8. ASSUME NEW i \in delta, i \notin Chunk
      PROVE  Last < i
  <2>1. SUFFICES ASSUME i <= Last PROVE FALSE
    BY <1>5, <1>7
  <2>2. Before(i) \in SUBSET Before(Last)
    <3>1. i \in Int /\ Last \in Int
      BY <1>5, <1>7
    <3>2. \A j \in delta : j \in Int /\ (j < i => j < Last)
      BY <2>1, <3>1
    <3> QED
      BY <3>2
  <2>3. Cardinality(Before(i)) <= Cardinality(Before(Last))
    BY <1>2, <1>5, <1>7, <2>2, FS_Subset
  <2>4. Cardinality(Before(Last)) < MaxRead
    BY <1>7 DEF Chunk
  <2>5. Cardinality(Before(i)) < MaxRead
    BY <1>2, <1>5, <1>7, <2>3, <2>4, ScanAssumption
  <2> QED
    BY <1>8, <2>5 DEF Chunk
<1> QED
  BY <1>5, <1>7, <1>8

-----------------------------------------------------------------------------
(* Types *)

LEMMA PositionType ==
  ASSUME NEW t \in Times, NEW i \in 0..MaxEvents
  PROVE  /\ [time |-> t, md5 |-> i] \in Position
         /\ [time |-> t, md5 |-> i] # NoPosition
  BY NoPositionAssumption DEF Position

LEMMA PointType ==
  ASSUME TypeOK
  PROVE  \A p \in Points : p \in Position /\ p.time \in Int /\ p.md5 \in Int
<1>1. \A n \in DOMAIN pending : pending[n] \in Position
  BY DEF TypeOK
<1>2. \A p \in Points : p \in Position
  BY <1>1 DEF TypeOK, Points
<1> QED
  BY <1>2, ScanAssumption DEF Position, Times

\* The chunk of a delta that is not empty.
LEMMA ChunkOfDelta ==
  ASSUME TypeOK, delta # {}
  PROVE  /\ Last \in Chunk /\ Last \in delta /\ Last \in 1..Len(log)
         /\ Chunk \subseteq delta
         /\ \A j \in Chunk : j <= Last
         /\ \A i \in delta \ Chunk : Last < i
<1>1. Len(log) \in Nat /\ delta \in SUBSET (1..Len(log))
  BY DEF TypeOK, Events
<1> QED
  BY <1>1, ChunkIsPrefix

LEMMA InitType == Init => TypeOK
<1> SUFFICES ASSUME Init PROVE TypeOK
  OBVIOUS
<1>1. /\ log \in Seq(Times) /\ pending \in Seq(Position)
      /\ records \in Seq(SUBSET Events)
  BY DEF Init
<1>2. 0 \in Times /\ Len(log) = 0
  BY ScanAssumption DEF Init, Times
<1> QED
  BY <1>1, <1>2, ScanAssumption DEF Init, TypeOK

LEMMA TypeStep == TypeOK /\ [Next]_vars => TypeOK'
<1> SUFFICES ASSUME TypeOK, [Next]_vars PROVE TypeOK'
  OBVIOUS
<1> USE ScanAssumption
<1>0. Len(log) \in Nat /\ Events = 1..Len(log)
  BY DEF TypeOK, Events
<1>1. ASSUME NEW now \in clock..MaxTime, Log(now)
      PROVE  TypeOK'
  <2>1. now \in Times
    BY DEF TypeOK, Times
  <2>2. /\ log' \in Seq(Times) /\ Len(log') = Len(log) + 1
        /\ Events \subseteq Events'
    BY <1>1, <1>0, <2>1 DEF Log, TypeOK, Events
  <2>3. records' \in Seq(SUBSET Events')
    <3>1. SUBSET Events \subseteq SUBSET (Events')
      BY <2>2
    <3> QED
      BY <1>1, <3>1, SeqMonotonic DEF Log, TypeOK
  <2>4. files' \subseteq 0..Len(log') /\ Len(log') <= MaxEvents
    BY <1>0, <1>1, <2>2 DEF Log, TypeOK
  <2>5. /\ delta' \subseteq Events' /\ sent' \subseteq Events'
        /\ given' \subseteq Events' /\ lost' \subseteq Events'
    BY <1>1, <2>2 DEF Log, TypeOK, history
  <2>6. clock' \in Times
    BY <1>1, <2>1 DEF Log
  <2> QED
    BY <1>1, <2>2, <2>3, <2>4, <2>5, <2>6 DEF Log, TypeOK, checkpoint, history
<1>2. ASSUME NEW now \in clock..MaxTime, Start(now)
      PROVE  TypeOK'
  <2>1. now \in Times
    BY DEF TypeOK, Times
  <2>2. state' \in Position /\ pending' \in Seq(Position) /\ Len(pending') = 1
    BY <1>2, <2>1, PositionType DEF Start
  <2> QED
    BY <1>2, <2>1, <2>2 DEF Start, TypeOK, Events
<1>3. CASE Resume
  BY <1>3 DEF Resume, TypeOK, Events, checkpoint, history
<1>4. CASE Crash
  <2>1. Batched \subseteq Events
    BY DEF TypeOK, Batched
  <2>2. InFlight \subseteq Events
    BY DEF TypeOK, InFlight, Chunk
  <2>3. pending' \in Seq(Position) /\ Len(pending') = 0
    BY <1>4 DEF Crash
  <2>4. records' \in Seq(SUBSET Events) /\ Len(records') = 0
    BY <1>4 DEF Crash
  <2> QED
    BY <1>4, <2>1, <2>2, <2>3, <2>4 DEF Crash, TypeOK, Events
<1>5. CASE Copy
  <2>1. files' \subseteq 0..Len(log)
    <3>1. Len(log) \in 0..Len(log) /\ files \subseteq 0..Len(log)
      BY <1>0 DEF TypeOK
    <3>2. files' = files \cup {Len(log)}
      BY <1>5 DEF Copy
    <3> QED
      BY <3>1, <3>2
  <2>2. UNCHANGED <<clock, log, pc, state, delta, checkpoint, records, crashes, history>>
    BY <1>5 DEF Copy
  <2> QED
    BY <2>1, <2>2 DEF TypeOK, Events, checkpoint, history
<1>6. ASSUME NEW n \in DOMAIN pending, Flush(n)
      PROVE  TypeOK'
  <2>1. n \in 1..Len(pending) /\ Len(pending) \in Nat
    BY DEF TypeOK
  <2>2. saved' \in Position
    BY <1>6, <2>1 DEF Flush, TypeOK
  <2>3. pending' \in Seq(Position) /\ Len(pending') <= Len(pending)
    <3>1. \A k \in (n + 1)..Len(pending) : pending[k] \in Position
      BY <2>1 DEF TypeOK
    <3> QED
      BY <1>6, <2>1, <3>1, SubSeqProperties DEF Flush
  <2>4. Len(pending') <= MaxLag
    BY <2>1, <2>3 DEF TypeOK
  <2> QED
    BY <1>6, <2>2, <2>3, <2>4 DEF Flush, TypeOK, Events, history
<1>7. ASSUME NEW n \in files, NEW k \in 0..n, Filter(n, k)
      PROVE  TypeOK'
  <2>1. delta' \subseteq Events
    BY <1>0, <1>7 DEF Filter, TypeOK
  <2> QED
    BY <1>7, <2>1 DEF Filter, TypeOK, Events, checkpoint, history
<1>8. CASE Persist
  <2>1. Last \in 1..Len(log)
    <3>1. delta # {}
      BY <1>8 DEF Persist, TypeOK
    <3> QED
      BY <3>1, ChunkOfDelta
  <2>2. log[Last] \in Times /\ Last \in 0..MaxEvents
    BY <1>0, <2>1 DEF TypeOK
  <2>3. state' \in Position
    BY <1>8, <2>2, PositionType DEF Persist
  <2>4. pending' \in Seq(Position) /\ Len(pending') <= MaxLag
    BY <1>8, <2>3, AppendProperties DEF Persist, TypeOK
  <2> QED
    BY <1>8, <2>3, <2>4 DEF Persist, TypeOK, Events, history
<1>9. CASE Send
  <2>1. Chunk \subseteq Events
    BY DEF Chunk, TypeOK
  <2>2. records' \in Seq(SUBSET Events) /\ Len(records') <= RecordsCap
    BY <1>9, <2>1, AppendProperties DEF Send, TypeOK
  <2> QED
    BY <1>9, <2>1, <2>2 DEF Send, TypeOK, Events, checkpoint
<1>10. CASE Take
  <2>1. /\ Head(records) \in SUBSET Events /\ records' \in Seq(SUBSET Events)
        /\ Len(records') <= RecordsCap
    BY <1>10, HeadTailProperties DEF Take, TypeOK
  <2> QED
    BY <1>10, <2>1 DEF Take, TypeOK, Events, checkpoint
<1>11. CASE UNCHANGED vars
  BY <1>11 DEF vars, TypeOK, Events, checkpoint, history
<1>12. Scan \/ ScanPart => TypeOK'
  <2>1. \A n \in files : n \in 0..n /\ \A k \in 0..(n - 1) : k \in 0..n
    BY <1>0 DEF TypeOK
  <2> QED
    BY <1>7, <2>1 DEF Scan, ScanPart
<1> QED
  BY <1>1, <1>2, <1>3, <1>4, <1>5, <1>6, <1>8, <1>9, <1>10, <1>11, <1>12
  DEF Next

-----------------------------------------------------------------------------
(* The invariant *)

LEMMA InitInvariant == Init => IInv
<1> SUFFICES ASSUME Init PROVE IInv
  OBVIOUS
<1>1. TypeOK
  BY InitType
<1>2. Events = {} /\ delta = {} /\ sent = {}
  BY DEF Init, Events
<1>3. Points = {}
  BY DEF Init, Points
<1> QED
  BY <1>1, <1>2, <1>3
  DEF IInv, Init, Sorted, PointsPast, Covered, NoGap, Ahead, SentBehind

\* A step that leaves the log, the positions and what was put in records as
\* they are, and takes nothing out of delta but by emptying it.
LEMMA PointsSubset ==
  ASSUME IInv, UNCHANGED <<clock, log, base>>, Points' \subseteq Points,
         Handed \cup InFlight \subseteq Handed' \cup InFlight'
  PROVE  Sorted' /\ PointsPast' /\ Covered'
<1>1. Events' = Events
  BY DEF Events
<1>2. Sorted'
  BY <1>1 DEF IInv, Sorted
<1>3. PointsPast'
  BY DEF IInv, PointsPast
<1>4. Covered'
  BY <1>1 DEF IInv, Covered
<1> QED
  BY <1>2, <1>3, <1>4

LEMMA LogInvariant ==
  ASSUME IInv, TypeOK', NEW now \in clock..MaxTime, Log(now)
  PROVE  IInv'
<1>1. /\ Len(log) \in Nat /\ Events = 1..Len(log)
      /\ clock \in Int /\ now \in Int /\ clock <= now /\ now \in Times
  BY ScanAssumption DEF IInv, TypeOK, Events, Times
<1>2. /\ Events' = 1..(Len(log) + 1) /\ Len(log') = Len(log) + 1
      /\ \A i \in Events : log'[i] = log[i]
      /\ log'[Len(log) + 1] = now
  BY <1>1, AppendProperties DEF Log, IInv, TypeOK, Events
<1>3. UNCHANGED <<files, pc, state, delta, pending, saved, records, crashes, base, sent,
                  given, lost>>
  BY DEF Log, checkpoint, history
<1>4. Points' = Points /\ Handed' = Handed /\ Chunk' = Chunk /\ InFlight' = InFlight
  BY <1>3 DEF Points, Handed, Batched, Chunk, InFlight
<1>5. \A i \in Events : log[i] \in Int
  <2>1. \A i \in 1..Len(log) : log[i] \in Times
    BY ElementOfSeq DEF IInv, TypeOK
  <2> QED
    BY <1>1, <2>1, ScanAssumption DEF Times
<1>6. Sorted'
  <2>1. \A i \in Events' : log'[i] <= now
    BY <1>1, <1>2, <1>5 DEF IInv, Sorted
  <2>2. ASSUME NEW i \in Events', NEW j \in Events', i < j
        PROVE  log'[i] <= log'[j]
    <3>1. CASE j \in Events
      BY <1>1, <1>2, <2>2, <3>1 DEF IInv, Sorted
    <3>2. CASE j = Len(log) + 1
      BY <1>2, <2>1, <3>2
    <3> QED
      BY <1>1, <1>2, <3>1, <3>2
  <2>3. clock' = now
    BY DEF Log
  <2> QED
    BY <2>1, <2>2, <2>3 DEF Sorted
<1>7. PointsPast'
  <2>1. \A p \in Points : p.time \in Int /\ p.md5 \in Int
    BY PointType DEF IInv
  <2>2. clock' = now
    BY DEF Log
  <2>3. \A p \in Points : p.time <= now /\ p.md5 \in 0..(Len(log) + 1)
    BY <1>1, <2>1 DEF IInv, PointsPast
  <2> QED
    BY <1>2, <1>4, <2>2, <2>3 DEF PointsPast
<1>8. Covered'
  <2>1. SUFFICES ASSUME NEW i \in Events', NEW p \in Points,
                        base < log'[i], log'[i] < p.time \/ i = p.md5
                 PROVE  i \in Handed \cup InFlight
    BY <1>3, <1>4 DEF Covered
  <2>2. p.time \in Int /\ p.time <= clock /\ p.md5 \in 0..Len(log)
    BY PointType DEF IInv, PointsPast
  <2>3. i # Len(log) + 1
    <3>1. CASE log'[i] < p.time
      BY <1>1, <1>2, <2>2, <3>1
    <3>2. CASE i = p.md5
      BY <1>1, <2>2, <3>2
    <3> QED
      BY <2>1, <3>1, <3>2
  <2>4. i \in Events
    BY <1>1, <1>2, <2>3
  <2> QED
    BY <1>2, <2>1, <2>4 DEF IInv, Covered
<1>9. NoGap'
  <2>1. SUFFICES ASSUME NEW d \in delta, NEW i \in Events', i < d, base < log'[i]
                 PROVE  i \in Handed \cup delta
    BY <1>3, <1>4 DEF NoGap
  <2>2. d \in 1..Len(log)
    BY <1>1 DEF IInv, TypeOK
  <2>3. i \in Events
    BY <1>1, <1>2, <2>1, <2>2
  <2> QED
    BY <1>2, <2>1, <2>3 DEF IInv, NoGap
<1>10. Ahead'
  <2>1. CASE pc = "send"
    <3>1. Last \in Events
      BY <1>1, <2>1, ChunkOfDelta DEF IInv, TypeOK
    <3>2. Last' = Last
      BY <1>4 DEF Last
    <3> QED
      BY <1>2, <1>3, <2>1, <3>1, <3>2 DEF IInv, Ahead
  <2>2. CASE pc # "send"
    BY <1>2, <1>3, <2>2 DEF IInv, TypeOK, Ahead
  <2> QED
    BY <2>1, <2>2
<1>11. SentBehind'
  BY <1>2, <1>3 DEF IInv, TypeOK, SentBehind
<1> QED
  BY <1>6, <1>7, <1>8, <1>9, <1>10, <1>11 DEF IInv

\* A first start: what is in the log already is not newer than the position.
LEMMA StartInvariant ==
  ASSUME IInv, TypeOK', NEW now \in clock..MaxTime, Start(now)
  PROVE  IInv'
<1>1. clock \in Int /\ now \in Int /\ clock <= now
  BY ScanAssumption DEF IInv, TypeOK, Times
<1>2. /\ UNCHANGED <<log, delta, saved, sent, given, lost, records>>
      /\ clock' = now /\ base' = now /\ pc = "down" /\ pc' = "idle" /\ saved = NoPosition
      /\ state' = [time |-> now, md5 |-> 0] /\ pending' = <<state'>>
  BY DEF Start
<1>3. Events' = Events /\ \A i \in Events : log[i] \in Int
  <2>1. \A i \in 1..Len(log) : log[i] \in Times
    BY ElementOfSeq DEF IInv, TypeOK
  <2> QED
    BY <1>2, <2>1, ScanAssumption DEF Events, IInv, TypeOK, Times
<1>4. \A i \in Events : log[i] <= now
  BY <1>1, <1>3 DEF IInv, Sorted
<1>5. \A p \in Points' : p = [time |-> now, md5 |-> 0]
  BY <1>2 DEF Points
<1>6. delta = {} /\ sent = {}
  BY <1>2 DEF IInv, TypeOK, SentBehind
<1>7. Sorted'
  BY <1>2, <1>3, <1>4 DEF IInv, Sorted
<1>8. PointsPast'
  <2>1. now <= now /\ 0 \in 0..Len(log)
    BY <1>1 DEF IInv, TypeOK
  <2> QED
    BY <1>2, <1>5, <2>1 DEF PointsPast
<1>9. Covered'
  <2>1. \A i \in Events : ~(now < log[i])
    BY <1>1, <1>3, <1>4
  <2> QED
    BY <1>2, <1>3, <2>1 DEF Covered
<1>10. NoGap' /\ SentBehind'
  BY <1>2, <1>6 DEF NoGap, SentBehind
<1>11. Ahead'
  <2>1. state' \in Position
    BY <1>2, <1>1, ScanAssumption DEF Position, Times, IInv, TypeOK
  <2> QED
    BY <1>2, <2>1 DEF Ahead
<1> QED
  BY <1>7, <1>8, <1>9, <1>10, <1>11 DEF IInv

LEMMA ResumeInvariant ==
  ASSUME IInv, TypeOK', Resume
  PROVE  IInv'
<1>1. /\ UNCHANGED <<clock, log, delta, pending, saved, records, base, sent, given, lost>>
      /\ pc = "down" /\ pc' = "idle" /\ saved # NoPosition /\ state' = saved
  BY DEF Resume, checkpoint, history
<1>2. Points' \subseteq Points
  BY <1>1 DEF Points
<1>3. Handed' = Handed /\ InFlight = {} /\ InFlight' = {}
  BY <1>1 DEF Handed, Batched, InFlight
<1>4. delta = {} /\ sent = {} /\ saved \in Position
  BY <1>1 DEF IInv, TypeOK, SentBehind
<1>5. Sorted' /\ PointsPast' /\ Covered'
  BY <1>1, <1>2, <1>3, PointsSubset
<1> QED
  BY <1>1, <1>4, <1>5 DEF IInv, NoGap, Ahead, SentBehind

LEMMA CrashInvariant ==
  ASSUME IInv, TypeOK', Crash
  PROVE  IInv'
<1>1. /\ UNCHANGED <<clock, log, saved, base, given>>
      /\ pc' = "down" /\ state' = NoPosition /\ delta' = {} /\ pending' = <<>>
      /\ records' = <<>> /\ sent' = {} /\ lost' = lost \cup Batched \cup InFlight
  BY DEF Crash
<1>2. Points' \subseteq Points
  BY <1>1 DEF Points
<1>3. Handed \cup InFlight \subseteq Handed' \cup InFlight'
  BY <1>1 DEF Handed
<1>4. Sorted' /\ PointsPast' /\ Covered'
  BY <1>1, <1>2, <1>3, PointsSubset
<1> QED
  BY <1>1, <1>4 DEF IInv, NoGap, Ahead, SentBehind

LEMMA CopyInvariant ==
  ASSUME IInv, TypeOK', Copy \/ UNCHANGED vars
  PROVE  IInv'
<1>1. UNCHANGED <<clock, log, pc, state, delta, pending, saved, records, base, sent,
                  given, lost>>
  BY DEF Copy, vars, checkpoint, history
<1>2. /\ Points' = Points /\ Handed' = Handed /\ Chunk' = Chunk /\ InFlight' = InFlight
      /\ Events' = Events
  BY <1>1 DEF Points, Handed, Batched, Chunk, InFlight, Events
<1>3. Last' = Last
  BY <1>2 DEF Last
<1>4. Sorted' /\ PointsPast' /\ Covered'
  BY <1>1, <1>2, PointsSubset
<1> QED
  BY <1>1, <1>2, <1>3, <1>4 DEF IInv, NoGap, Ahead, SentBehind

LEMMA FlushInvariant ==
  ASSUME IInv, TypeOK', NEW n \in DOMAIN pending, Flush(n)
  PROVE  IInv'
<1>1. /\ UNCHANGED <<clock, log, pc, state, delta, records, base, sent, given, lost>>
      /\ saved' = pending[n] /\ pending' = SubSeq(pending, n + 1, Len(pending))
  BY DEF Flush, history
<1>2. /\ Handed' = Handed /\ Chunk' = Chunk /\ InFlight' = InFlight /\ Events' = Events
  BY <1>1 DEF Handed, Batched, Chunk, InFlight, Events
<1>3. Last' = Last
  BY <1>2 DEF Last
<1>4. Points' \subseteq Points
  <2>1. n \in 1..Len(pending) /\ Len(pending) \in Nat
    BY DEF IInv, TypeOK
  <2>2. \A k \in (n + 1)..Len(pending) : pending[k] \in Position
    BY <2>1 DEF IInv, TypeOK
  <2>3. \A k \in DOMAIN pending' : k + n \in DOMAIN pending /\ pending'[k] = pending[k + n]
    <3> DEFINE q == SubSeq(pending, n + 1, Len(pending))
    <3>1. /\ q \in Seq(Position)
          /\ Len(q) = IF n + 1 <= Len(pending) THEN Len(pending) - (n + 1) + 1 ELSE 0
          /\ \A k \in 1..(Len(pending) - (n + 1) + 1) : q[k] = pending[(n + 1) + k - 1]
      BY <2>1, <2>2, SubSeqProperties
    <3>2. Len(q) = Len(pending) - n /\ DOMAIN q = 1..Len(q)
      BY <2>1, <3>1
    <3>3. DOMAIN pending = 1..Len(pending)
      BY DEF IInv, TypeOK
    <3> HIDE DEF q
    <3>4. \A k \in 1..Len(q) : q[k] = pending[k + n]
      BY <2>1, <3>1, <3>2
    <3>5. pending' = q
      BY <1>1 DEF q
    <3> QED
      BY <2>1, <3>2, <3>3, <3>4, <3>5
  <2> QED
    BY <1>1, <2>3 DEF Points
<1>5. Sorted' /\ PointsPast' /\ Covered'
  BY <1>1, <1>2, <1>4, PointsSubset
<1> QED
  BY <1>1, <1>2, <1>3, <1>5 DEF IInv, NoGap, Ahead, SentBehind

\* A scan drops what the position covers; the rest is delta.
LEMMA FilterInvariant ==
  ASSUME IInv, TypeOK', NEW n \in files, NEW k \in 0..n, Filter(n, k)
  PROVE  IInv'
<1>1. /\ UNCHANGED <<clock, log, state, pending, saved, records, base, sent, given, lost>>
      /\ pc = "idle" /\ delta' = {i \in 1..k : IsNew(i)}
      /\ pc' = IF delta' = {} THEN "idle" ELSE "persist"
  BY DEF Filter, checkpoint, history
<1>2. /\ Len(log) \in Nat /\ Events = 1..Len(log) /\ n \in Nat /\ n <= Len(log)
      /\ \A i \in Events : log[i] \in Int
  <2>1. \A i \in 1..Len(log) : log[i] \in Times
    BY ElementOfSeq DEF IInv, TypeOK
  <2>2. Len(log) \in Nat /\ n \in 0..Len(log) /\ Events = 1..Len(log)
    BY DEF IInv, TypeOK, Events
  <2> QED
    BY <2>1, <2>2, ScanAssumption DEF Times
<1>3. /\ Points' = Points /\ Handed' = Handed /\ Events' = Events
      /\ InFlight = {} /\ InFlight' = {}
  BY <1>1 DEF Points, Handed, Batched, InFlight, Events
<1>4. state \in Position /\ state \in Points /\ state.time \in Int
  BY <1>1, NoPositionAssumption, PointType DEF IInv, Ahead, Points
<1>5. Sorted' /\ PointsPast' /\ Covered'
  BY <1>1, <1>3, PointsSubset
<1>6. NoGap'
  <2>1. SUFFICES ASSUME NEW d \in delta', NEW i \in Events, i < d, base < log[i],
                        i \notin delta'
                 PROVE  i \in Handed
    BY <1>1, <1>3 DEF NoGap
  <2>2. d \in 1..k /\ i \in 1..k
    BY <1>1, <1>2, <2>1
  <2>3. ~IsNew(i)
    BY <1>1, <2>1, <2>2
  <2>4. log[i] < state.time \/ i = state.md5
    BY <1>2, <1>4, <2>3 DEF IsNew
  <2> QED
    BY <1>3, <1>4, <2>1, <2>4 DEF IInv, Covered
<1>7. Ahead'
  <2>1. \A d \in delta' : state.time <= log[d]
    <3>1. SUFFICES ASSUME NEW d \in delta' PROVE state.time <= log[d]
      OBVIOUS
    <3>2. d \in Events /\ IsNew(d)
      BY <1>1, <1>2
    <3> QED
      BY <1>2, <1>4, <3>2 DEF IsNew
  <2> QED
    BY <1>1, <1>4, <2>1 DEF Ahead
<1>8. SentBehind'
  BY <1>1 DEF IInv, SentBehind
<1> QED
  BY <1>5, <1>6, <1>7, <1>8 DEF IInv

LEMMA LogTimes ==
  ASSUME TypeOK
  PROVE  /\ Len(log) \in Nat /\ Events = 1..Len(log)
         /\ \A i \in Events : log[i] \in Int /\ i \in Int
<1>1. \A i \in 1..Len(log) : log[i] \in Times
  BY ElementOfSeq DEF TypeOK
<1>2. Len(log) \in Nat /\ Events = 1..Len(log)
  BY DEF TypeOK, Events
<1> QED
  BY <1>1, <1>2, ScanAssumption DEF Times

\* Before a position moves to the end of a chunk, all that is older is in the
\* chunk, or was put in records.
LEMMA PersistInvariant ==
  ASSUME IInv, TypeOK', Persist
  PROVE  IInv' /\ state.time <= state'.time
<1>1. /\ UNCHANGED <<clock, log, delta, saved, records, base, sent, given, lost>>
      /\ pc = "persist" /\ pc' = "send"
      /\ state' = [time |-> log[Last], md5 |-> Last]
      /\ pending' = Append(pending, state')
  BY DEF Persist, history
<1>2. delta # {}
  BY <1>1 DEF IInv, TypeOK
<1>3. /\ Last \in Chunk /\ Last \in delta /\ Last \in Events
      /\ Chunk \subseteq delta
      /\ \A i \in delta \ Chunk : Last < i
  BY <1>2, ChunkOfDelta, LogTimes DEF IInv
<1>4. /\ Handed' = Handed /\ Chunk' = Chunk /\ Last' = Last /\ Events' = Events
      /\ InFlight = {} /\ InFlight' = Chunk
  BY <1>1 DEF Handed, Batched, Chunk, Last, InFlight, Events
<1>5. /\ \A i \in Events : log[i] \in Int /\ i \in Int
      /\ state \in Position /\ state.time \in Int
  <2>1. state \in Position /\ state \in Points
    BY <1>1, NoPositionAssumption DEF IInv, Ahead, Points
  <2> QED
    BY <2>1, LogTimes, PointType DEF IInv
<1>6. state' \in Position /\ state'.time = log[Last] /\ state'.md5 = Last
  <2>1. Last \in 0..MaxEvents /\ log[Last] \in Times
    BY <1>3, LogTimes, ElementOfSeq, ScanAssumption DEF IInv, TypeOK
  <2> QED
    BY <1>1, <2>1, PositionType
<1>7. \A p \in Points' : p = state' \/ p \in Points
  <2>1. \A n \in DOMAIN pending' : pending'[n] = state' \/ \E k \in DOMAIN pending : pending'[n] = pending[k]
    BY <1>1, <1>6, AppendProperties DEF IInv, TypeOK
  <2> QED
    BY <1>1, <2>1 DEF Points
<1>8. state.time <= log[Last]
  BY <1>1, <1>3 DEF IInv, Ahead
<1>9. Sorted'
  BY <1>1, <1>4 DEF IInv, Sorted
<1>10. PointsPast'
  <2>1. log[Last] <= clock /\ Last \in 0..Len(log)
    BY <1>3, LogTimes DEF IInv, Sorted
  <2> QED
    BY <1>1, <1>6, <1>7, <2>1 DEF IInv, PointsPast
<1>11. Covered'
  <2>1. SUFFICES ASSUME NEW i \in Events, NEW p \in Points', base < log[i],
                        log[i] < p.time \/ i = p.md5
                 PROVE  i \in Handed \cup Chunk
    BY <1>1, <1>4 DEF Covered
  <2>2. CASE p \in Points
    BY <1>4, <2>1, <2>2 DEF IInv, Covered
  <2>3. CASE p = state'
    <3>1. CASE i = Last
      BY <1>3, <3>1
    <3>2. CASE i # Last
      <4>1. log[i] < log[Last]
        BY <1>6, <2>1, <2>3, <3>2
      <4>2. i < Last
        BY <1>3, <1>5, <3>2, <4>1 DEF IInv, Sorted
      <4>3. i \in Handed \cup delta
        BY <1>3, <2>1, <4>2 DEF IInv, NoGap
      <4> QED
        BY <1>3, <1>5, <4>2, <4>3
    <3> QED
      BY <3>1, <3>2
  <2> QED
    BY <1>7, <2>2, <2>3
<1>12. NoGap'
  BY <1>1, <1>4 DEF IInv, NoGap
<1>13. Ahead'
  BY <1>1, <1>4, <1>6 DEF Ahead
<1>14. SentBehind'
  <2>1. \A i \in sent : i \in Events /\ log[i] <= state.time
    BY DEF IInv, TypeOK, SentBehind
  <2>2. \A i \in sent : log[i] <= log[Last]
    BY <1>3, <1>5, <1>8, <2>1
  <2> QED
    BY <1>1, <1>6, <2>2 DEF SentBehind
<1> QED
  BY <1>6, <1>8, <1>9, <1>10, <1>11, <1>12, <1>13, <1>14 DEF IInv

LEMMA SendInvariant ==
  ASSUME IInv, TypeOK', Send
  PROVE  IInv'
<1>1. /\ UNCHANGED <<clock, log, state, pending, saved, base, given, lost>>
      /\ pc = "send" /\ pc' = IF delta' = {} THEN "idle" ELSE "persist"
      /\ records' = Append(records, Chunk) /\ sent' = sent \cup Chunk
      /\ delta' = delta \ Chunk
  BY DEF Send, checkpoint
<1>2. delta # {}
  BY <1>1 DEF IInv, TypeOK
<1>3. /\ Last \in Chunk /\ Last \in delta /\ Last \in Events
      /\ Chunk \subseteq delta /\ delta \subseteq Events
      /\ \A j \in Chunk : j <= Last
      /\ \A i \in delta \ Chunk : Last < i
  BY <1>2, ChunkOfDelta, LogTimes DEF IInv, TypeOK
<1>4. /\ \A i \in Events : log[i] \in Int /\ i \in Int
      /\ state \in Position /\ state.time = log[Last]
  BY <1>1, LogTimes DEF IInv, Ahead
<1>5. Batched' = Batched \cup Chunk
  <2>1. Chunk \in SUBSET Events
    BY <1>3
  <2>2. records \in Seq(SUBSET Events)
    BY DEF IInv, TypeOK
  <2>3. /\ Len(records') = Len(records) + 1 /\ records'[Len(records) + 1] = Chunk
        /\ \A k \in 1..Len(records) : records'[k] = records[k]
        /\ DOMAIN records' = 1..Len(records') /\ DOMAIN records = 1..Len(records)
        /\ Len(records) \in Nat
    BY <1>1, <2>1, <2>2, AppendProperties
  <2> QED
    BY <2>3 DEF Batched
<1>6. /\ Handed' = Handed \cup Chunk /\ Points' = Points /\ Events' = Events
      /\ InFlight = Chunk /\ InFlight' = {}
  BY <1>1, <1>5 DEF Handed, Points, InFlight, Events
<1>7. Sorted' /\ PointsPast' /\ Covered'
  BY <1>1, <1>6, PointsSubset
<1>8. NoGap'
  BY <1>1, <1>6 DEF IInv, NoGap
<1>9. Ahead'
  <2>1. \A d \in delta' : log[Last] <= log[d]
    BY <1>1, <1>3 DEF IInv, Sorted
  <2> QED
    BY <1>1, <1>4, <2>1 DEF Ahead
<1>10. SentBehind'
  <2>1. \A i \in Chunk : log[i] <= log[Last]
    <3>1. SUFFICES ASSUME NEW i \in Chunk PROVE log[i] <= log[Last]
      OBVIOUS
    <3>2. i = Last \/ i < Last
      BY <1>3, <1>4
    <3> QED
      BY <1>3, <1>4, <3>2 DEF IInv, Sorted
  <2> QED
    BY <1>1, <1>4, <2>1 DEF IInv, SentBehind
<1> QED
  BY <1>7, <1>8, <1>9, <1>10 DEF IInv

LEMMA TakeInvariant ==
  ASSUME IInv, TypeOK', Take
  PROVE  IInv'
<1>1. /\ UNCHANGED <<clock, log, pc, state, delta, pending, saved, base, sent, lost>>
      /\ records # <<>> /\ given' = given \cup Head(records) /\ records' = Tail(records)
  BY DEF Take, checkpoint
<1>2. Batched \subseteq Head(records) \cup Batched'
  <2>1. records \in Seq(SUBSET Events)
    BY DEF IInv, TypeOK
  <2>2. /\ Len(records) \in Nat /\ DOMAIN records = 1..Len(records)
        /\ Len(records') = Len(records) - 1 /\ DOMAIN records' = 1..(Len(records) - 1)
        /\ \A k \in 1..(Len(records) - 1) : records'[k] = records[k + 1]
        /\ Head(records) = records[1]
    BY <1>1, <2>1, HeadTailProperties
  <2>3. \A k \in DOMAIN records : k = 1 \/ (k - 1 \in DOMAIN records' /\ records'[k - 1] = records[k])
    BY <2>2
  <2> QED
    BY <2>2, <2>3 DEF Batched
<1>3. /\ Chunk' = Chunk /\ InFlight' = InFlight /\ Points' = Points /\ Events' = Events
      /\ Handed \subseteq Handed'
  BY <1>1, <1>2 DEF Chunk, InFlight, Points, Events, Handed
<1>4. Last' = Last
  BY <1>3 DEF Last
<1>5. Sorted' /\ PointsPast' /\ Covered'
  BY <1>1, <1>3, PointsSubset
<1>6. NoGap'
  BY <1>1, <1>3 DEF IInv, NoGap
<1> QED
  BY <1>1, <1>3, <1>4, <1>5, <1>6 DEF IInv, Ahead, SentBehind

LEMMA NextInvariant == IInv /\ [Next]_vars => IInv'
<1> SUFFICES ASSUME IInv, [Next]_vars PROVE IInv'
  OBVIOUS
<1>1. TypeOK'
  BY TypeStep DEF IInv
<1>2. CASE Resume
  BY <1>1, <1>2, ResumeInvariant
<1>3. CASE Crash
  BY <1>1, <1>3, CrashInvariant
<1>4. CASE Copy \/ UNCHANGED vars
  BY <1>1, <1>4, CopyInvariant
<1>5. ASSUME NEW now \in clock..MaxTime, Log(now) \/ Start(now)
      PROVE  IInv'
  BY <1>1, <1>5, LogInvariant, StartInvariant
<1>6. ASSUME NEW n \in DOMAIN pending, Flush(n)
      PROVE  IInv'
  BY <1>1, <1>6, FlushInvariant
<1>7. CASE Scan \/ ScanPart
  <2>1. \A n \in files : n \in 0..n /\ \A k \in 0..(n - 1) : k \in 0..n
    BY DEF IInv, TypeOK
  <2>2. \A n \in files : \A k \in 0..n : Filter(n, k) => IInv'
    BY <1>1, FilterInvariant
  <2> QED
    BY <1>7, <2>1, <2>2 DEF Scan, ScanPart
<1>8. CASE Persist
  BY <1>1, <1>8, PersistInvariant
<1>9. CASE Send
  BY <1>1, <1>9, SendInvariant
<1>10. CASE Take
  BY <1>1, <1>10, TakeInvariant
<1> QED
  BY <1>2, <1>3, <1>4, <1>5, <1>6, <1>7, <1>8, <1>9, <1>10 DEF Next

-----------------------------------------------------------------------------
(* The theorems *)

THEOREM Invariance == Spec => []IInv
<1>1. Init => IInv
  BY InitInvariant
<1>2. IInv /\ [Next]_vars => IInv'
  BY NextInvariant
<1> QED
  BY <1>1, <1>2, PTL DEF Spec

\* Every variable of scanXML keeps its type: no chunk is taken from an empty
\* delta, no batch enters a full channel.
THEOREM TypeCorrect == Spec => []TypeOK
<1>1. IInv => TypeOK
  BY DEF IInv
<1> QED
  BY <1>1, Invariance, PTL

\* The filter of scanXML skips no event, whatever the copies hold, in whatever
\* order they come, and whichever saved position it resumes from.
THEOREM NothingIsSkipped == Spec => []NothingSkipped
<1>1. IInv => NothingSkipped
  <2>1. InFlight \subseteq delta
    BY DEF InFlight, Chunk
  <2> QED
    BY <2>1 DEF IInv, Covered, NothingSkipped, Handed
<1> QED
  BY <1>1, Invariance, PTL

\* The position of a process never moves back.
THEOREM PositionMovesForward == Spec => PositionForward
<1>1. ASSUME IInv, [Next]_vars, pc # "down", pc' # "down"
      PROVE  state'.time >= state.time
  <2>1. state \in Position /\ state.time \in Int
    <3>1. state \in Position /\ state \in Points
      BY <1>1, NoPositionAssumption DEF IInv, Ahead, Points
    <3> QED
      BY <1>1, <3>1, PointType DEF IInv
  <2>2. state' = state => state'.time >= state.time
    BY <2>1
  <2>3. CASE Persist
    <3>1. TypeOK' /\ IInv'
      BY <1>1, NextInvariant DEF IInv
    <3>2. state.time <= state'.time
      BY <1>1, <2>3, <3>1, PersistInvariant
    <3>3. state'.time \in Int
      <4>1. state' \in Position
        BY <1>1, <3>1 DEF IInv, Ahead
      <4> QED
        BY <4>1, ScanAssumption DEF Position, Times
    <3> QED
      BY <2>1, <3>2, <3>3
  <2>4. CASE ~Persist
    <3>1. state' = state
      BY <1>1, <2>4
      DEF Next, Resume, Crash, Copy, Log, Start, Flush, Scan, ScanPart, Filter, Send, Take, vars
    <3> QED
      BY <2>2, <3>1
  <2> QED
    BY <2>3, <2>4
<1>2. IInv /\ [Next]_vars => [pc # "down" /\ pc' # "down" => state'.time >= state.time]_vars
  BY <1>1
<1> QED
  BY <1>2, Invariance, PTL DEF Spec, PositionForward

\* A process sends again only what has the timestamp of its position.
THEOREM OnlyTiesAreSentAgain == Spec => ResendsOnlyTies
<1>1. ASSUME IInv, [Next]_vars, NEW i \in (delta' \ delta) \cap sent
      PROVE  log[i] = state.time /\ i # state.md5
  <2>1. PICK n \in files : \E k \in 0..n : Filter(n, k)
    <3>1. delta' \subseteq delta \/ Scan \/ ScanPart
      BY <1>1
      DEF Next, Resume, Crash, Copy, Log, Start, Flush, Persist, Send, Take, vars
    <3>2. \A n \in files : n \in 0..n /\ \A k \in 0..(n - 1) : k \in 0..n
      BY <1>1 DEF IInv, TypeOK
    <3> QED
      BY <1>1, <3>1, <3>2 DEF Scan, ScanPart
  <2>2. IsNew(i) /\ pc = "idle"
    BY <1>1, <2>1 DEF Filter
  <2>3. log[i] <= state.time /\ i \in Events
    BY <1>1 DEF IInv, SentBehind, TypeOK
  <2>4. log[i] \in Int /\ state.time \in Int
    <3>1. state \in Points
      BY <1>1, <2>2, NoPositionAssumption DEF IInv, Ahead, Points
    <3> QED
      BY <1>1, <2>3, <3>1, LogTimes, PointType DEF IInv
  <2> QED
    BY <2>2, <2>3, <2>4 DEF IsNew
<1>2. IInv /\ [Next]_vars =>
        [\A i \in (delta' \ delta) \cap sent : log[i] = state.time /\ i # state.md5]_vars
  BY <1>1
<1> QED
  BY <1>2, Invariance, PTL DEF Spec, ResendsOnlyTies

-----------------------------------------------------------------------------
(* Without ties *)

\* No two events have one timestamp.
Untied == \A i, j \in Events : log[i] = log[j] => i = j

\* The position is the last event sent, or the end of the chunk about to be.
Once ==
  /\ delta \cap sent = {}
  /\ \A i \in sent : log[i] = state.time => i = state.md5
  /\ pc = "send" => state.md5 = Last

LEMMA OnceStep ==
  ASSUME IInv, Once, Untied', [Next]_vars
  PROVE  Once'
<1>0. TypeOK /\ delta \subseteq Events /\ sent \subseteq Events
  BY DEF IInv, TypeOK
<1>1. CASE \E now \in clock..MaxTime : Log(now)
  <2>1. PICK now \in clock..MaxTime : Log(now)
    BY <1>1
  <2>2. log \in Seq(Times) /\ now \in Times
    BY <1>0, <2>1, ScanAssumption DEF TypeOK, Times
  <2>3. \A i \in Events : log'[i] = log[i]
    BY <2>1, <2>2, AppendProperties, LenProperties DEF Log, Events
  <2> QED
    BY <1>0, <2>1, <2>3 DEF Log, Once, Last, Chunk, history
<1>2. CASE Resume \/ Crash \/ \E now \in clock..MaxTime : Start(now)
  <2>1. sent' = {} /\ delta' = {} /\ pc' # "send"
    BY <1>0, <1>2 DEF Resume, Crash, Start, IInv, TypeOK, SentBehind, history
  <2> QED
    BY <2>1 DEF Once
<1>3. CASE Copy \/ Take \/ (\E n \in DOMAIN pending : Flush(n)) \/ UNCHANGED vars
  <2>1. UNCHANGED <<log, pc, state, delta, sent>>
    BY <1>3 DEF Copy, Take, Flush, vars, history
  <2> QED
    BY <2>1 DEF Once, Last, Chunk
<1>4. CASE Scan \/ ScanPart
  <2>1. /\ UNCHANGED <<log, state, sent>> /\ pc = "idle" /\ pc' # "send"
        /\ \A i \in delta' : IsNew(i)
    BY <1>4 DEF Scan, ScanPart, Filter, history
  <2>2. ASSUME NEW i \in sent PROVE i \notin delta'
    <3>1. log[i] <= state.time /\ log[i] \in Int /\ state.time \in Int
      <4>1. state \in Points
        BY <2>1, NoPositionAssumption DEF IInv, Ahead, Points
      <4> QED
        BY <1>0, <4>1, LogTimes, PointType DEF IInv, SentBehind
    <3>2. ~IsNew(i)
      BY <3>1 DEF Once, IsNew
    <3> QED
      BY <2>1, <3>2
  <2> QED
    BY <2>1, <2>2 DEF Once
<1>5. CASE Persist
  <2>1. /\ UNCHANGED <<log, delta, sent>>
        /\ state' = [time |-> log[Last], md5 |-> Last]
    BY <1>5 DEF Persist, history
  <2>2. Last \in Events
    <3>1. delta # {} /\ delta \subseteq Events
      BY <1>0, <1>5 DEF TypeOK, Persist
    <3> QED
      BY <1>0, <3>1, ChunkOfDelta
  <2>3. \A i \in sent : log[i] = log[Last] => i = Last
    BY <1>0, <2>1, <2>2 DEF Untied, Events
  <2>4. Last' = Last
    BY <2>1 DEF Last, Chunk
  <2> QED
    BY <2>1, <2>3, <2>4 DEF Once
<1>6. CASE Send
  <2>1. /\ UNCHANGED <<log, state>> /\ sent' = sent \cup Chunk /\ delta' = delta \ Chunk
        /\ pc = "send" /\ pc' # "send"
    BY <1>6 DEF Send
  <2>2. Chunk \subseteq delta
    BY DEF Chunk
  <2>3. state.time = log[Last] /\ state.md5 = Last
    BY <2>1 DEF IInv, Ahead, Once
  <2>4. Last \in Events
    <3>1. delta # {} /\ delta \subseteq Events
      BY <1>0, <2>1 DEF TypeOK
    <3> QED
      BY <1>0, <3>1, ChunkOfDelta
  <2>5. \A i \in Chunk : log[i] = state.time => i = state.md5
    BY <1>0, <2>1, <2>2, <2>3, <2>4 DEF Untied, Events
  <2> QED
    BY <2>1, <2>2, <2>5 DEF Once
<1> QED
  BY <1>1, <1>2, <1>3, <1>4, <1>5, <1>6 DEF Next

\* What the comment on the filter promises holds of a log without ties: no
\* process sends an event twice, whatever copies it scans, in any order.  Ties
\* are all that the run that refutes SentOnce rests on.
THEOREM SentOnceWithoutTies == Spec /\ []Untied => SentOnce
<1>1. Init => Once
  BY DEF Init, Once
<1>2. IInv /\ Once /\ Untied' /\ [Next]_vars => Once'
  BY OnceStep
<1>3. IInv /\ Once /\ [Next]_vars =>
        [Len(records') > Len(records) => records'[Len(records')] \cap sent = {}]_vars
  <2> SUFFICES ASSUME IInv, Once, [Next]_vars, Len(records') > Len(records)
               PROVE  records'[Len(records')] \cap sent = {}
    OBVIOUS
  <2>1. records \in Seq(SUBSET Events) /\ Len(records) \in Nat
    BY LenProperties DEF IInv, TypeOK
  <2>2. CASE Send
    <3>1. Chunk \in SUBSET Events /\ Chunk \subseteq delta
      BY DEF Chunk, IInv, TypeOK
    <3>2. records'[Len(records')] = Chunk
      BY <2>1, <2>2, <3>1, AppendProperties DEF Send
    <3> QED
      BY <3>1, <3>2 DEF Once
  <2>3. CASE Take
    <3>1. records # <<>> /\ records' = Tail(records)
      BY <2>3 DEF Take
    <3> QED
      BY <2>1, <3>1, HeadTailProperties
  <2>4. CASE Crash
    <3>1. Len(records') = 0
      BY <2>4 DEF Crash
    <3> QED
      BY <2>1, <3>1
  <2>5. CASE ~Send /\ ~Take /\ ~Crash
    <3>1. records' = records
      BY <2>5
      DEF Next, Resume, Copy, Log, Start, Flush, Scan, ScanPart, Filter, Persist, vars
    <3> QED
      BY <2>1, <3>1
  <2> QED
    BY <2>2, <2>3, <2>4, <2>5
<1> QED
  BY <1>1, <1>2, <1>3, Invariance, PTL DEF Spec, SentOnce
=============================================================================
