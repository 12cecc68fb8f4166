------------------------- MODULE ETLPipelineProofs -------------------------
(***************************************************************************)
(* The way of a file through the reader of analytical logs, for any number *)
(* of threads, files and failures and any capacities: no copy is lost, the *)
(* sort list keeps no element nobody has, and count is what Run counts.    *)
(***************************************************************************)
EXTENDS ETLPipeline, FiniteSetTheorems, SequenceTheorems, WellFoundedInduction, TLAPS

\* Every file anywhere is a copy that has been made.
Known ==
  /\ \A f \in Files :
       f \in etlDisk \cup xmlDisk \cup copied \cup found \cup InTransfer => f <= made
  /\ looking + made <= MaxFiles
  /\ \A t \in todo : t[2] <= made
  /\ \A e \in Elements :
       e \in ToSet(xmlLogfiles) \/ e = parked \/ load[e] # "no" => e.file <= made

\* What is empty before the goroutines run, and what loadFiles has queued.
Quiet ==
  /\ up \in {"down", "init"} =>
       /\ looking = 0 /\ late = {}
       /\ copying = {} /\ held = None /\ parked = None
       /\ \A f \in Files : transfer[f] = "no"
       /\ \A e \in Elements : load[e] = "no"
  /\ up = "down" => todo = {} /\ found = {} /\ etlLogfiles = <<>> /\ xmlLogfiles = <<>>
                    /\ sortList = <<>>
  /\ up = "init" => /\ ToSet(etlLogfiles) = found
                    /\ \A e \in ToSet(xmlLogfiles) : ~e.fresh
  /\ up \in {"up", "stopping", "closed"} => todo = {}
  /\ \A f \in Files : <<"etl", f>> \in todo => f \notin found
  /\ \A f \in Files : <<"xml", f>> \in todo => Restored(f) \notin ToSet(xmlLogfiles)

\* A file is in one stage of its transfer at a time, and a copy under way in no
\* other sense known.
OneStage ==
  /\ IsInjective(etlLogfiles)
  /\ \A f \in Files :
       /\ f \in copying => /\ f \notin ToSet(etlLogfiles) /\ f # held
                           /\ transfer[f] = "no" /\ f \notin found /\ f \notin copied
       /\ f \in ToSet(etlLogfiles) => f # held /\ transfer[f] = "no"
       /\ f = held => transfer[f] = "no"

\* An element is in one stage of its loading at a time, and its file is not to
\* be transferred any more.
OneLoad ==
  /\ IsInjective(sortList) /\ IsInjective(xmlLogfiles)
  /\ \A e \in Elements :
       /\ e \in ToSet(xmlLogfiles) => e # parked /\ load[e] = "no"
       /\ e = parked => load[e] = "no"
       /\ e.fresh /\ (e \in ToSet(xmlLogfiles) \/ e = parked \/ load[e] # "no") =>
            /\ e.file \notin copying /\ e.file \notin ToSet(etlLogfiles)
            /\ e.file # held /\ transfer[e.file] \in {"no", "cleanup"}

\* Some goroutine or channel has the element e.
InHand(e) ==
  \/ e.fresh /\ (e.file = held \/ transfer[e.file] \in {"running", "pushing"})
  \/ e \in ToSet(xmlLogfiles)
  \/ e = parked
  \/ load[e] \in {"reading", "waiting"}

\* NoOrphan, element by element; what is in hand is in the list even during
\* Shutdown, and what has not been received is not.
Listed ==
  /\ \A e \in Elements :
       /\ InHand(e) => e \in ToSet(sortList)
       /\ ~Halting /\ e \in ToSet(sortList) => InHand(e)
  /\ \A f \in Files :
       f \in copying \/ f \in ToSet(etlLogfiles) \/ f > made => Fresh(f) \notin ToSet(sortList)

Accounts ==
  /\ leaked \in Nat
  /\ ~Halting => count = Cardinality(InTransfer \ found) + leaked
                           - Cardinality(found \ InTransfer)

\* The files that CopyKept speaks of no longer.
Excused == settled \cup spoiled

\* A file that is to be transferred is there as .etl, and one that has been as
\* complete .xml.
Forms ==
  /\ \A f \in Files :
       /\ \/ <<"etl", f>> \in todo \/ f \in copying \/ f \in ToSet(etlLogfiles)
          \/ f = held \/ transfer[f] = "running"
          => f \in etlDisk
       /\ transfer[f] \in {"pushing", "cleanup"} => f \in (xmlDisk \ torn) \cup Excused
       /\ <<"xml", f>> \in todo => f \in xmlDisk

\* An element whose file is gone, or that did not parse, is of a file that is
\* spoken of no longer.
Reads ==
  /\ \A e \in Elements :
       /\ e \in ToSet(xmlLogfiles) \/ e = parked \/ load[e] = "reading" =>
            e.file \in xmlDisk \cup Excused
       /\ load[e] = "failed" => e.file \in Excused
  /\ \A e \in ToSet(events) : e \in ToSet(entered) \/ e.file \in Excused

Kept == Forms /\ Reads /\ CopyKept

Typed ==
  /\ TypeOK
  /\ found \subseteq Files /\ copied \subseteq Files /\ entered \in Seq(Elements)

IInv == Typed /\ Known /\ Quiet /\ OneStage /\ OneLoad /\ Listed /\ Accounts /\ Kept

\* d was appended to sortList before e.
Earlier(d, e) == \E k, l \in DOMAIN order : order[k] = d /\ order[l] = e /\ k < l

\* The .etl file of f is still to be received.
Waits(f) == <<"etl", f>> \in todo \/ f \in copying \/ f \in ToSet(etlLogfiles)

Sending(e) == load[e] = "sending"

\* sortList is what is left of order.
Ranked ==
  /\ order \in Seq(Elements) /\ entered \in Seq(Elements)
  /\ ToSet(sortList) \subseteq ToSet(order) /\ ToSet(entered) \subseteq ToSet(order)
  /\ \A e \in Elements : Sending(e) => e \in ToSet(order)
  /\ \A i, j \in DOMAIN sortList : i < j => ~Earlier(sortList[j], sortList[i])

\* What is still to be appended has not been.
Unranked ==
  /\ \A f \in Files : Waits(f) \/ f > made => Fresh(f) \notin ToSet(order)
  /\ \A f \in Files : <<"xml", f>> \in todo => Restored(f) \notin ToSet(order)
  /\ \A f \in Files : Restored(f) \in ToSet(order) => f <= made
  /\ up = "down" => order = <<>> /\ entered = <<>>

\* Only a file found in both forms has, or will have, two elements.
Twins ==
  \A f \in Files :
    /\ <<"xml", f>> \in todo \/ Restored(f) \in ToSet(order)
    /\ Waits(f) \/ Fresh(f) \in ToSet(order)
    => f \in both

\* Who has had its turn had it before the others in the list, or has a twin, or
\* did not wait for it because of stop.
FirstOnly ==
  \A e \in Elements : e \in ToSet(entered) \/ Sending(e) =>
    \A d \in ToSet(sortList) : Earlier(d, e) => e.file \in both \/ e \in hurried

Turns == Ranked /\ Unranked /\ Twins /\ FirstOnly

LEMMA Sizes ==
  /\ Threads \in Nat /\ Threads > 0 /\ LoadThreads \in Nat /\ LoadThreads > 0
  /\ EtlCap \in Nat \ {0} /\ XmlCap \in Nat \ {0} /\ EventsCap \in Nat \ {0}
  /\ MaxCount \in Nat /\ MaxFiles \in Nat /\ MaxJobs \in Nat /\ MaxCrashes \in Nat /\ MaxFaults \in Nat
BY SizesAssumption DEF LoadThreads

USE Sizes

-----------------------------------------------------------------------------
(* Elements, sequences and counts *)

LEMMA ElementFacts ==
  /\ None \notin Files /\ None \notin Elements
  /\ \A e \in Elements : e.file \in Files /\ e.fresh \in BOOLEAN
  /\ \A f \in Files : Fresh(f) \in Elements /\ Restored(f) \in Elements
  /\ \A f \in Files : Fresh(f).file = f /\ Fresh(f).fresh
  /\ \A f \in Files : Restored(f).file = f /\ ~Restored(f).fresh
  /\ \A e \in Elements : e.fresh => e = Fresh(e.file)
  /\ \A e \in Elements : ~e.fresh => e = Restored(e.file)
<1>1. None \notin Files /\ None \notin Elements
  BY NoneAssumption DEF Files
<1> QED
  BY <1>1 DEF Elements, Fresh, Restored

LEMMA EmptyFacts ==
  ASSUME NEW S
  PROVE  <<>> \in Seq(S) /\ Len(<<>>) = 0 /\ ToSet(<<>>) = {} /\ IsInjective(<<>>)
BY DEF ToSet, IsInjective

LEMMA AppendFacts ==
  ASSUME NEW S, NEW s \in Seq(S), NEW e \in S
  PROVE  /\ Append(s, e) \in Seq(S) /\ Len(Append(s, e)) = Len(s) + 1
         /\ ToSet(Append(s, e)) = ToSet(s) \cup {e}
         /\ IsInjective(s) /\ e \notin ToSet(s) => IsInjective(Append(s, e))
<1>1. /\ Append(s, e) \in Seq(S) /\ Len(Append(s, e)) = Len(s) + 1
      /\ \A i \in 1..Len(s) : Append(s, e)[i] = s[i]
      /\ Append(s, e)[Len(s) + 1] = e
      /\ DOMAIN s = 1..Len(s) /\ DOMAIN Append(s, e) = 1..(Len(s) + 1)
      /\ Len(s) \in Nat
  BY AppendProperties, LenProperties
<1>2. ToSet(Append(s, e)) = ToSet(s) \cup {e}
  BY <1>1 DEF ToSet
<1>3. IsInjective(s) /\ e \notin ToSet(s) => IsInjective(Append(s, e))
  BY <1>1 DEF ToSet, IsInjective
<1> QED
  BY <1>1, <1>2, <1>3

LEMMA TailFacts ==
  ASSUME NEW S, NEW s \in Seq(S), s # <<>>
  PROVE  /\ Tail(s) \in Seq(S) /\ Len(Tail(s)) = Len(s) - 1 /\ Len(s) \in Nat
         /\ Head(s) \in S /\ Head(s) \in ToSet(s)
         /\ ToSet(s) = ToSet(Tail(s)) \cup {Head(s)}
         /\ IsInjective(s) => IsInjective(Tail(s)) /\ Head(s) \notin ToSet(Tail(s))
<1>1. /\ Tail(s) \in Seq(S) /\ Len(Tail(s)) = Len(s) - 1 /\ Len(s) \in Nat
      /\ Head(s) \in S /\ Head(s) = s[1] /\ Len(s) > 0
      /\ \A i \in 1..(Len(s) - 1) : Tail(s)[i] = s[i + 1]
      /\ DOMAIN s = 1..Len(s) /\ DOMAIN Tail(s) = 1..(Len(s) - 1)
  BY HeadTailProperties, LenProperties
<1>2. Head(s) \in ToSet(s)
  BY <1>1 DEF ToSet
<1>3. ToSet(s) = ToSet(Tail(s)) \cup {Head(s)}
  <2>1. ASSUME NEW i \in 1..Len(s)
        PROVE  s[i] = Head(s) \/ \E k \in 1..(Len(s) - 1) : s[i] = Tail(s)[k]
    <3>1. CASE i = 1
      BY <1>1, <3>1
    <3>2. CASE i # 1
      <4>1. i - 1 \in 1..(Len(s) - 1) /\ s[i] = Tail(s)[i - 1]
        BY <1>1, <3>2
      <4> QED
        BY <4>1
    <3> QED
      BY <3>1, <3>2
  <2>2. ASSUME NEW k \in 1..(Len(s) - 1)
        PROVE  \E i \in 1..Len(s) : Tail(s)[k] = s[i]
    <3>1. k + 1 \in 1..Len(s) /\ Tail(s)[k] = s[k + 1]
      BY <1>1
    <3> QED
      BY <3>1
  <2>3. ToSet(s) \subseteq ToSet(Tail(s)) \cup {Head(s)}
    <3> SUFFICES ASSUME NEW i \in 1..Len(s)
                 PROVE  s[i] \in ToSet(Tail(s)) \cup {Head(s)}
      BY <1>1 DEF ToSet
    <3> QED
      BY <1>1, <2>1 DEF ToSet
  <2>4. ToSet(Tail(s)) \subseteq ToSet(s)
    BY <1>1, <2>2 DEF ToSet
  <2> QED
    BY <1>2, <2>3, <2>4
<1>4. IsInjective(s) => IsInjective(Tail(s)) /\ Head(s) \notin ToSet(Tail(s))
  BY <1>1 DEF ToSet, IsInjective
<1> QED
  BY <1>1, <1>2, <1>3, <1>4

LEMMA LeastIndex ==
  ASSUME NEW I \in SUBSET Nat, I # {}
  PROVE  Min(I) \in I
<1>1. PICK m \in I : \A n \in I : <<n, m>> \notin OpToRel(<, Nat)
  BY WFMin, NatLessThanWellFounded
<1>2. \A n \in I : <<n, m>> \in Nat \X Nat => ~(n < m)
  <2>1. OpToRel(<, Nat) = {t \in Nat \X Nat : t[1] < t[2]}
    BY Zenon DEF OpToRel
  <2> QED
    BY <1>1, <2>1
<1>3. ASSUME NEW n \in I PROVE m =< n
  <2>1. n \in Nat /\ m \in Nat
    BY <1>1
  <2>2. ~(n < m)
    BY <1>2, <2>1
  <2> QED
    BY <2>1, <2>2
<1> QED
  BY <1>3, Zenon DEF Min

LEMMA RemoveIs ==
  ASSUME NEW S, NEW s \in Seq(S), NEW e
  PROVE  \/ e \notin ToSet(s) /\ RemoveFirst(s, e) = s
         \/ \E k \in 1..Len(s) :
              s[k] = e /\ RemoveFirst(s, e) = SubSeq(s, 1, k - 1) \o SubSeq(s, k + 1, Len(s))
<1>0. DOMAIN s = 1..Len(s) /\ Len(s) \in Nat
  BY LenProperties
<1>1. CASE ~(\E i \in 1..Len(s) : s[i] = e)
  BY <1>0, <1>1 DEF RemoveFirst, ToSet
<1>2. CASE \E i \in 1..Len(s) : s[i] = e
  <2> DEFINE k == SelectInSeq(s, LAMBDA v : v = e)
             I == {i \in 1..Len(s) : s[i] = e}
  <2>1. k = Min(I)
    BY <1>2 DEF SelectInSeq
  <2>2. I \in SUBSET Nat /\ I # {}
    BY <1>2
  <2>3. k \in I
    BY <2>1, <2>2, LeastIndex
  <2>4. RemoveFirst(s, e) = SubSeq(s, 1, k - 1) \o SubSeq(s, k + 1, Len(s))
    BY <1>2 DEF RemoveFirst, RemoveAt
  <2> QED
    BY <2>3, <2>4
<1> QED
  BY <1>1, <1>2

\* What is left when the element of place k is removed.
LEMMA RemoveShape ==
  ASSUME NEW S, NEW s \in Seq(S), NEW e
  PROVE  \/ e \notin ToSet(s) /\ RemoveFirst(s, e) = s
         \/ \E k \in 1..Len(s) :
              /\ s[k] = e /\ RemoveFirst(s, e) \in Seq(S)
              /\ DOMAIN RemoveFirst(s, e) = 1..(Len(s) - 1)
              /\ \A i \in 1..(Len(s) - 1) :
                   RemoveFirst(s, e)[i] = IF i < k THEN s[i] ELSE s[i + 1]
<1>0. DOMAIN s = 1..Len(s) /\ Len(s) \in Nat /\ \A i \in 1..Len(s) : s[i] \in S
  BY LenProperties, ElementOfSeq
<1>2. ASSUME NEW k \in 1..Len(s), s[k] = e,
             RemoveFirst(s, e) = SubSeq(s, 1, k - 1) \o SubSeq(s, k + 1, Len(s))
      PROVE  /\ RemoveFirst(s, e) \in Seq(S)
             /\ DOMAIN RemoveFirst(s, e) = 1..(Len(s) - 1)
             /\ \A i \in 1..(Len(s) - 1) :
                  RemoveFirst(s, e)[i] = IF i < k THEN s[i] ELSE s[i + 1]
  <2>0. k \in 1..Len(s)
    BY <1>2
  <2> DEFINE a == SubSeq(s, 1, k - 1)
             b == SubSeq(s, k + 1, Len(s))
             r == a \o b
  <2>1. /\ a \in Seq(S) /\ Len(a) = k - 1
        /\ \A i \in 1..(k - 1) : a[i] = s[i]
    <3>1. \A i \in 1..(k - 1) : s[i] \in S
      BY <1>0
    <3> QED
      BY <1>0, <3>1, SubSeqProperties
  <2>2. /\ b \in Seq(S) /\ Len(b) = Len(s) - k
        /\ \A i \in 1..(Len(s) - k) : b[i] = s[k + i]
    <3>1. \A i \in (k + 1)..Len(s) : s[i] \in S
      BY <1>0
    <3>2. /\ b \in Seq(S)
          /\ Len(b) = IF k + 1 <= Len(s) THEN Len(s) - (k + 1) + 1 ELSE 0
          /\ \A i \in 1..(Len(s) - (k + 1) + 1) : b[i] = s[(k + 1) + i - 1]
      <4>1. k + 1 \in Int /\ Len(s) \in Int
        BY <1>0, <2>0
      <4> QED
        BY <3>1, <4>1, SubSeqProperties
    <3> HIDE DEF b
    <3>3. Len(b) = Len(s) - k
      <4>1. CASE k = Len(s)
        BY <1>0, <3>2, <4>1
      <4>2. CASE k + 1 <= Len(s)
        BY <1>0, <3>2, <4>2
      <4>3. k = Len(s) \/ k + 1 <= Len(s)
        <5>1. Len(s) \in Nat
          BY <1>0
        <5>2. k \in Nat /\ k <= Len(s)
          BY <2>0, <5>1
        <5> QED
          BY <5>1, <5>2
      <4> QED
        BY <4>1, <4>2, <4>3
    <3>4. ASSUME NEW i \in 1..(Len(s) - k) PROVE b[i] = s[k + i]
      <4>1. i \in 1..(Len(s) - (k + 1) + 1) /\ (k + 1) + i - 1 = k + i
        BY <1>0, <2>0
      <4> QED
        BY <3>2, <4>1
    <3> QED
      BY <3>2, <3>3, <3>4
  <2> HIDE DEF a, b
  <2>3. /\ r \in Seq(S) /\ Len(r) = Len(s) - 1 /\ DOMAIN r = 1..(Len(s) - 1)
        /\ \A i \in 1..(Len(s) - 1) : r[i] = IF i < k THEN s[i] ELSE s[i + 1]
    <3>1. /\ r \in Seq(S) /\ Len(r) = Len(a) + Len(b)
          /\ \A i \in 1..(Len(a) + Len(b)) :
               r[i] = IF i <= Len(a) THEN a[i] ELSE b[i - Len(a)]
      BY <2>1, <2>2, ConcatProperties
    <3> HIDE DEF r
    <3>2. Len(r) = Len(s) - 1
      BY <1>0, <2>1, <2>2, <3>1
    <3>3. ASSUME NEW i \in 1..(Len(s) - 1)
          PROVE  r[i] = IF i < k THEN s[i] ELSE s[i + 1]
      <4>1. CASE i < k
        <5>1. i \in 1..(k - 1) /\ i \in 1..(Len(a) + Len(b)) /\ i <= Len(a)
          BY <1>0, <1>2, <2>1, <2>2, <4>1
        <5> QED
          BY <2>1, <3>1, <4>1, <5>1
      <4>2. CASE ~(i < k)
        <5>1. i - (k - 1) \in 1..(Len(s) - k) /\ k + (i - (k - 1)) = i + 1
          BY <1>0, <4>2
        <5>2. b[i - (k - 1)] = s[i + 1]
          BY <2>2, <5>1
        <5>3. r[i] = b[i - (k - 1)]
          <6>1. /\ i \in 1..(Len(a) + Len(b)) /\ ~(i <= Len(a))
                /\ i - Len(a) = i - (k - 1)
            BY <1>0, <1>2, <2>1, <2>2, <4>2
          <6> QED
            BY <3>1, <6>1
        <5> QED
          BY <4>2, <5>2, <5>3
      <4> QED
        BY <4>1, <4>2
    <3> QED
      BY <3>1, <3>2, <3>3, LenProperties
  <2> HIDE DEF r
  <2>4. RemoveFirst(s, e) = r
    BY <1>2 DEF r, a, b
  <2> QED
    BY <2>3, <2>4
<1>3. CASE e \notin ToSet(s) /\ RemoveFirst(s, e) = s
  BY <1>3, Zenon
<1>4. CASE \E k \in 1..Len(s) :
             s[k] = e /\ RemoveFirst(s, e) = SubSeq(s, 1, k - 1) \o SubSeq(s, k + 1, Len(s))
  <2>1. PICK k \in 1..Len(s) :
          s[k] = e /\ RemoveFirst(s, e) = SubSeq(s, 1, k - 1) \o SubSeq(s, k + 1, Len(s))
    BY <1>4, Zenon
  <2>2. /\ RemoveFirst(s, e) \in Seq(S)
        /\ DOMAIN RemoveFirst(s, e) = 1..(Len(s) - 1)
        /\ \A i \in 1..(Len(s) - 1) :
             RemoveFirst(s, e)[i] = IF i < k THEN s[i] ELSE s[i + 1]
    BY <1>2, <2>1, Zenon
  <2> QED
    BY <2>1, <2>2, Zenon
<1> QED
  BY <1>3, <1>4, RemoveIs, Zenon

LEMMA RemoveFacts ==
  ASSUME NEW S, NEW s \in Seq(S), IsInjective(s), NEW e
  PROVE  /\ RemoveFirst(s, e) \in Seq(S)
         /\ ToSet(RemoveFirst(s, e)) = ToSet(s) \ {e}
         /\ IsInjective(RemoveFirst(s, e))
<1>0. DOMAIN s = 1..Len(s) /\ Len(s) \in Nat /\ \A i \in 1..Len(s) : s[i] \in S
  BY LenProperties, ElementOfSeq
<1>1. CASE e \notin ToSet(s) /\ RemoveFirst(s, e) = s
  BY <1>1
<1> DEFINE r == RemoveFirst(s, e)
<1>2. ASSUME NEW k \in 1..Len(s), s[k] = e, r \in Seq(S),
             DOMAIN r = 1..(Len(s) - 1),
             \A i \in 1..(Len(s) - 1) : r[i] = IF i < k THEN s[i] ELSE s[i + 1]
      PROVE  ToSet(r) = ToSet(s) \ {e} /\ IsInjective(r)
  <2>0. k \in 1..Len(s)
    BY <1>2
  <2>3. /\ r \in Seq(S) /\ DOMAIN r = 1..(Len(s) - 1)
        /\ \A i \in 1..(Len(s) - 1) : r[i] = IF i < k THEN s[i] ELSE s[i + 1]
    BY <1>2
  <2> HIDE DEF r
  <2>4. \A i \in 1..Len(s) : s[i] # e => \E j \in 1..(Len(s) - 1) : r[j] = s[i]
    <3> SUFFICES ASSUME NEW i \in 1..Len(s), s[i] # e
                 PROVE  \E j \in 1..(Len(s) - 1) : r[j] = s[i]
      OBVIOUS
    <3>1. CASE i < k
      BY <1>0, <2>3, <3>1
    <3>2. CASE i > k
      <4>1. i - 1 \in 1..(Len(s) - 1) /\ r[i - 1] = s[i]
        BY <1>0, <2>3, <3>2
      <4> QED
        BY <4>1
    <3> QED
      BY <1>2, <3>1, <3>2
  <2>5. \A j \in 1..(Len(s) - 1) : r[j] # e /\ \E i \in 1..Len(s) : r[j] = s[i]
    <3> SUFFICES ASSUME NEW j \in 1..(Len(s) - 1)
                 PROVE  r[j] # e /\ \E i \in 1..Len(s) : r[j] = s[i]
      OBVIOUS
    <3>1. PICK i \in 1..Len(s) : i # k /\ r[j] = s[i]
      <4>1. CASE j < k
        BY <1>0, <2>3, <4>1
      <4>2. CASE ~(j < k)
        <5>1. j + 1 \in 1..Len(s) /\ j + 1 # k /\ r[j] = s[j + 1]
          BY <1>0, <2>0, <2>3, <4>2
        <5> QED
          BY <5>1
      <4> QED
        BY <4>1, <4>2
    <3>2. s[i] # s[k]
      BY <1>0, <2>0, <3>1 DEF IsInjective
    <3> QED
      BY <1>2, <3>1, <3>2
  <2>6. ToSet(r) = ToSet(s) \ {e}
    <3>1. ToSet(r) = {r[j] : j \in 1..(Len(s) - 1)} /\ ToSet(s) = {s[i] : i \in 1..Len(s)}
      BY <1>0, <2>3 DEF ToSet
    <3>2. ToSet(r) \subseteq ToSet(s) \ {e}
      BY <2>5, <3>1
    <3>3. ToSet(s) \ {e} \subseteq ToSet(r)
      BY <2>4, <3>1
    <3> QED
      BY <3>2, <3>3
  <2>7. IsInjective(r)
    <3> DEFINE at(i) == IF i < k THEN i ELSE i + 1
    <3>1. ASSUME NEW i \in 1..(Len(s) - 1)
          PROVE  at(i) \in 1..Len(s) /\ r[i] = s[at(i)]
      BY <1>0, <2>3
    <3>2. \A i, j \in 1..(Len(s) - 1) : at(i) = at(j) => i = j
      BY <1>0
    <3> HIDE DEF at
    <3>3. \A i, j \in 1..Len(s) : s[i] = s[j] => i = j
      BY <1>0 DEF IsInjective
    <3>4. \A i, j \in 1..(Len(s) - 1) : r[i] = r[j] => i = j
      BY <3>1, <3>2, <3>3
    <3> QED
      BY <2>3, <3>4, Zenon DEF IsInjective
  <2> QED
    BY <2>6, <2>7
<1> QED
  BY <1>1, <1>2, RemoveShape

\* The elements that are left keep their order.
LEMMA RemoveOrder ==
  ASSUME NEW S, NEW s \in Seq(S), NEW e
  PROVE  \A i, j \in DOMAIN RemoveFirst(s, e) : i < j =>
           \E k, l \in DOMAIN s :
             k < l /\ RemoveFirst(s, e)[i] = s[k] /\ RemoveFirst(s, e)[j] = s[l]
<1>0. DOMAIN s = 1..Len(s) /\ Len(s) \in Nat
  BY LenProperties
<1> DEFINE r == RemoveFirst(s, e)
<1>1. CASE r = s
  BY <1>1
<1>2. ASSUME NEW n \in 1..Len(s), DOMAIN r = 1..(Len(s) - 1),
             \A i \in 1..(Len(s) - 1) : r[i] = IF i < n THEN s[i] ELSE s[i + 1]
      PROVE  \A i, j \in DOMAIN r : i < j =>
               \E k, l \in DOMAIN s : k < l /\ r[i] = s[k] /\ r[j] = s[l]
  <2> DEFINE at(i) == IF i < n THEN i ELSE i + 1
  <2>1. ASSUME NEW i \in 1..(Len(s) - 1) PROVE at(i) \in 1..Len(s) /\ r[i] = s[at(i)]
    BY <1>0, <1>2
  <2>2. \A i, j \in 1..(Len(s) - 1) : i < j => at(i) < at(j)
    BY <1>0
  <2> HIDE DEF at
  <2> QED
    BY <1>0, <1>2, <2>1, <2>2
<1> QED
  BY <1>1, <1>2, RemoveShape

\* The sets that are counted are finite.
LEMMA CountFacts ==
  ASSUME Typed
  PROVE  /\ IsFiniteSet(InTransfer \ found) /\ IsFiniteSet(found \ InTransfer)
         /\ IsFiniteSet(Transferring) /\ IsFiniteSet(Files)
         /\ Cardinality(InTransfer \ found) \in Nat
         /\ Cardinality(found \ InTransfer) \in Nat
         /\ Cardinality(Transferring) \in Nat
         /\ InTransfer \subseteq Files
<1>1. IsFiniteSet(Files)
  BY FS_Interval DEF Files
<1>2. ToSet(etlLogfiles) \subseteq Files
  BY ElementOfSeq, LenProperties DEF Typed, TypeOK, ToSet
<1>3. InTransfer \subseteq Files
  BY <1>2 DEF Typed, TypeOK, InTransfer, Transferring
<1>4. /\ InTransfer \ found \in SUBSET Files /\ found \ InTransfer \in SUBSET Files
      /\ Transferring \in SUBSET Files
  BY <1>3 DEF Typed, Transferring
<1>5. IsFiniteSet(InTransfer \ found) /\ IsFiniteSet(found \ InTransfer)
      /\ IsFiniteSet(Transferring)
  BY <1>1, <1>4, FS_Subset
<1> QED
  BY <1>1, <1>3, <1>5, FS_CardinalityType

LEMMA OneMore ==
  ASSUME NEW S, IsFiniteSet(S), NEW x, x \notin S
  PROVE  Cardinality(S \cup {x}) = Cardinality(S) + 1
BY FS_AddElement, Zenon

LEMMA OneLess ==
  ASSUME NEW S, IsFiniteSet(S), NEW x, x \in S
  PROVE  Cardinality(S \ {x}) = Cardinality(S) - 1
BY FS_RemoveElement, Zenon

LEMMA LoadingFinite == IsFiniteSet(Loading) /\ Cardinality(Loading) \in Nat
<1> DEFINE F == {e \in Elements : e.fresh}
           R == {e \in Elements : ~e.fresh}
<1>1. IsFiniteSet(Files)
  BY FS_Interval DEF Files
<1>2. IsFiniteSet(F)
  <2>1. [f \in Files |-> Fresh(f)] \in Surjection(Files, F)
    BY ElementFacts DEF Surjection
  <2> QED
    BY <1>1, <2>1, FS_Surjection
<1>3. IsFiniteSet(R)
  <2>1. [f \in Files |-> Restored(f)] \in Surjection(Files, R)
    BY ElementFacts DEF Surjection
  <2> QED
    BY <1>1, <2>1, FS_Surjection
<1>4. IsFiniteSet(F \cup R) /\ Loading \in SUBSET (F \cup R)
  BY <1>2, <1>3, FS_Union DEF Loading
<1> QED
  BY <1>4, FS_Subset, FS_CardinalityType

LEMMA Members ==
  /\ \A f \in Files : f \in InTransfer <=>
       f \in copying \/ f \in ToSet(etlLogfiles) \/ f = held \/ transfer[f] # "no"
  /\ \A f \in Files : f \in InTransfer' <=>
       f \in copying' \/ f \in ToSet(etlLogfiles') \/ f = held' \/ transfer'[f] # "no"
BY ElementFacts DEF InTransfer, Transferring

\* Files and elements in the channels are files and elements.
LEMMA InChannels ==
  ASSUME Typed
  PROVE  /\ ToSet(etlLogfiles) \subseteq Files
         /\ ToSet(xmlLogfiles) \subseteq Elements
         /\ ToSet(sortList) \subseteq Elements
         /\ ToSet(events) \subseteq Elements
BY ElementOfSeq, LenProperties DEF Typed, TypeOK, ToSet

LEMMA InitEstablishes == Init => IInv
<1> SUFFICES ASSUME Init PROVE IInv
  OBVIOUS
<1> USE DEF Init
<1>1. InTransfer = {} /\ Transferring = {} /\ Loading = {}
  BY EmptyFacts DEF InTransfer, Transferring, Loading
<1>2. Typed
  <2>1. /\ transfer \in [Files -> {"no", "running", "pushing", "cleanup"}]
        /\ load \in [Elements -> {"no", "reading", "waiting", "sending", "failed"}]
    OBVIOUS
  <2>2. Cardinality(Transferring) <= Threads /\ Cardinality(Loading) <= LoadThreads
    BY <1>1, FS_EmptySet
  <2>3. /\ etlLogfiles \in Seq(Files) /\ sortList \in Seq(Elements)
        /\ xmlLogfiles \in Seq(Elements) /\ Len(xmlLogfiles) <= XmlCap
        /\ events \in Seq(Elements) /\ Len(events) <= EventsCap
    BY EmptyFacts
  <2> QED
    BY <2>1, <2>2, <2>3 DEF Typed, TypeOK
<1>3. Known /\ Quiet
  BY <1>1, EmptyFacts, ElementFacts DEF Known, Quiet
<1>4. OneStage /\ OneLoad /\ Listed
  BY EmptyFacts, ElementFacts DEF OneStage, OneLoad, Listed, InHand
<1>5. Accounts
  BY <1>1, FS_EmptySet DEF Accounts
<1>6. Kept
  BY EmptyFacts, ElementFacts DEF Kept, Forms, Reads, CopyKept
<1> QED
  BY <1>2, <1>3, <1>4, <1>5, <1>6 DEF IInv

USE DEF disk, copier, stages, history, passed, census, fates, bounds

-----------------------------------------------------------------------------
(* The process *)

LEMMA StartKeeps ==
  ASSUME IInv, Start
  PROVE  IInv'
<1> USE DEF Start
<1>1. Typed'
  BY DEF IInv, Typed, TypeOK, Transferring, Loading
<1>2. Known'
  <2>1. \A t \in todo' : t[2] <= made
    BY DEF IInv, Typed, TypeOK, Known
  <2> QED
    BY <2>1 DEF IInv, Known, InTransfer, Transferring
<1>3. Quiet'
  BY EmptyFacts DEF IInv, Quiet
<1>4. OneStage' /\ OneLoad' /\ Listed'
  BY DEF IInv, OneStage, OneLoad, Listed, InHand, Halting
<1>5. Accounts' /\ Kept'
  BY DEF IInv, Accounts, Halting, Kept, Forms, Reads, Excused, CopyKept, InTransfer, Transferring
<1> QED
  BY <1>1, <1>2, <1>3, <1>4, <1>5 DEF IInv

LEMMA LoadEtlKeeps ==
  ASSUME IInv, NEW f \in Files, LoadEtl(f)
  PROVE  IInv'
<1> USE DEF LoadEtl
<1>0. /\ etlLogfiles' \in Seq(Files)
      /\ ToSet(etlLogfiles') = ToSet(etlLogfiles) \cup {f}
      /\ f \notin found /\ ToSet(etlLogfiles) = found
      /\ f \notin ToSet(etlLogfiles)
      /\ IsInjective(etlLogfiles')
  BY AppendFacts DEF IInv, Typed, TypeOK, Quiet, OneStage
<1>e. /\ held = None /\ parked = None /\ copying = {}
      /\ \A g \in Files : transfer[g] = "no"
      /\ \A e \in Elements : load[e] = "no"
      /\ \A e \in ToSet(xmlLogfiles) : ~e.fresh
  BY DEF IInv, Quiet
<1>t. InTransfer' = InTransfer \cup {f}
  BY <1>0 DEF InTransfer, Transferring
<1>1. Typed'
  <2>1. found' \subseteq Files
    BY DEF IInv, Typed
  <2> QED
    BY <1>0, <2>1 DEF IInv, Typed, TypeOK, Transferring, Loading
<1>2. Known'
  <2>1. f <= made
    BY DEF IInv, Known
  <2> QED
    BY <1>t, <2>1 DEF IInv, Known
<1>3. Quiet'
  BY <1>0 DEF IInv, Quiet
<1>4. OneStage' /\ OneLoad' /\ Listed'
  BY <1>0, <1>e, ElementFacts DEF IInv, OneStage, OneLoad, Listed, InHand, Halting
<1>5. Accounts'
  <2>1. InTransfer' \ found' = InTransfer \ found /\ found' \ InTransfer' = found \ InTransfer
    <3>1. f \notin InTransfer
      BY <1>0, <1>e, Members, ElementFacts
    <3> QED
      BY <1>0, <1>t, <3>1
  <2> QED
    BY <2>1 DEF IInv, Accounts, Halting
<1>6. Kept'
  BY <1>0, <1>e DEF IInv, Kept, Forms, Reads, Excused, CopyKept
<1> QED
  BY <1>1, <1>2, <1>3, <1>4, <1>5, <1>6 DEF IInv

LEMMA LoadXmlKeeps ==
  ASSUME IInv, NEW f \in Files, LoadXml(f)
  PROVE  IInv'
<1> USE DEF LoadXml
<1>e. /\ held = None /\ parked = None /\ copying = {}
      /\ \A g \in Files : transfer[g] = "no"
      /\ \A e \in Elements : load[e] = "no"
      /\ \A e \in ToSet(xmlLogfiles) : ~e.fresh
  BY DEF IInv, Quiet
<1>r. /\ Restored(f) \in Elements /\ ~Restored(f).fresh /\ Restored(f).file = f
      /\ None # Restored(f) /\ \A g \in Files : Fresh(g) # Restored(f)
      /\ Restored(f) \notin ToSet(xmlLogfiles) /\ Restored(f) \notin ToSet(sortList)
  <2>1. /\ Restored(f) \in Elements /\ ~Restored(f).fresh /\ Restored(f).file = f
        /\ None # Restored(f) /\ \A g \in Files : Fresh(g) # Restored(f)
        /\ Restored(f) \notin ToSet(xmlLogfiles)
    BY ElementFacts DEF IInv, Quiet
  <2>2. ~InHand(Restored(f)) /\ ~Halting
    BY <1>e, <2>1 DEF InHand, Halting
  <2> QED
    BY <2>1, <2>2 DEF IInv, Listed
<1>0. /\ xmlLogfiles' \in Seq(Elements) /\ Len(xmlLogfiles') <= XmlCap
      /\ ToSet(xmlLogfiles') = ToSet(xmlLogfiles) \cup {Restored(f)}
      /\ IsInjective(xmlLogfiles')
  <2>1. xmlLogfiles \in Seq(Elements) /\ Len(xmlLogfiles) \in Nat /\ IsInjective(xmlLogfiles)
    BY LenProperties DEF IInv, Typed, TypeOK, OneLoad
  <2> QED
    BY <1>r, <2>1, AppendFacts
<1>s. /\ sortList' \in Seq(Elements)
      /\ ToSet(sortList') = ToSet(sortList) \cup {Restored(f)}
      /\ IsInjective(sortList')
  BY <1>r, AppendFacts DEF IInv, Typed, TypeOK, OneLoad
<1>1. Typed'
  BY <1>0, <1>s DEF IInv, Typed, TypeOK, Transferring, Loading
<1>2. Known'
  <2>1. f <= made
    BY DEF IInv, Known
  <2> QED
    BY <1>0, <1>r, <2>1 DEF IInv, Known, InTransfer, Transferring
<1>3. Quiet'
  <2>1. \A g \in Files : <<"xml", g>> \in todo' => Restored(g) # Restored(f)
    BY ElementFacts
  <2> QED
    BY <1>0, <1>r, <2>1 DEF IInv, Quiet
<1>4. OneStage' /\ OneLoad'
  BY <1>0, <1>s, <1>r, <1>e DEF IInv, OneStage, OneLoad
<1>5. Listed'
  BY <1>0, <1>s, <1>r, <1>e DEF IInv, Listed, InHand, Halting
<1>6. Accounts'
  BY DEF IInv, Accounts, Halting, InTransfer, Transferring
<1>7. Kept'
  BY <1>0, <1>r, <1>e DEF IInv, Kept, Forms, Reads, Excused, CopyKept
<1> QED
  BY <1>1, <1>2, <1>3, <1>4, <1>5, <1>6, <1>7 DEF IInv

LEMMA ReadyShutdownKeeps ==
  ASSUME IInv, Ready \/ Shutdown \/ Close
  PROVE  IInv'
<1>1. /\ up' \in {"up", "stopping", "closed"} /\ late' \subseteq {"transferETL", "unmarshalETL", "scanXML"}
      /\ up' = "up" => up = "init"
      /\ up \notin {"up", "stopping"} => todo = {}
      /\ UNCHANGED <<disk, todo, copier, stages, bounds, history>>
  BY DEF Ready, Shutdown, Close, IInv, Typed, TypeOK
<1>2. Typed' /\ Known'
  BY <1>1 DEF IInv, Typed, TypeOK, Known, InTransfer, Transferring, Loading
<1>3. Quiet'
  BY <1>1 DEF IInv, Quiet
<1>4. OneStage' /\ OneLoad' /\ Listed'
  BY <1>1 DEF IInv, OneStage, OneLoad, Listed, InHand, Halting
<1>5. Accounts' /\ Kept'
  BY <1>1 DEF IInv, Accounts, Halting, Kept, Forms, Reads, Excused, CopyKept, InTransfer,
     Transferring
<1> QED
  BY <1>2, <1>3, <1>4, <1>5 DEF IInv

LEMMA CrashKeeps ==
  ASSUME IInv, Crash
  PROVE  IInv'
<1> USE DEF Crash
<1>1. InTransfer' = {} /\ Transferring' = {} /\ Loading' = {}
  BY EmptyFacts DEF InTransfer, Transferring, Loading
<1>2. Typed'
  <2>1. /\ transfer' \in [Files -> {"no", "running", "pushing", "cleanup"}]
        /\ load' \in [Elements -> {"no", "reading", "waiting", "sending", "failed"}]
    OBVIOUS
  <2>2. Cardinality(Transferring') <= Threads /\ Cardinality(Loading') <= LoadThreads
    BY <1>1, FS_EmptySet
  <2>3. /\ etlLogfiles' \in Seq(Files) /\ sortList' \in Seq(Elements)
        /\ xmlLogfiles' \in Seq(Elements) /\ Len(xmlLogfiles') <= XmlCap
        /\ events' \in Seq(Elements) /\ Len(events') <= EventsCap
    BY EmptyFacts
  <2> QED
    BY <2>1, <2>2, <2>3 DEF IInv, Typed, TypeOK
<1>3. Known' /\ Quiet'
  <2>1. looking' + made' <= MaxFiles
    BY DEF IInv, Typed, TypeOK
  <2> QED
    BY <1>1, <2>1, EmptyFacts, ElementFacts DEF IInv, Known, Quiet
<1>4. OneStage' /\ OneLoad' /\ Listed'
  BY EmptyFacts, ElementFacts DEF OneStage, OneLoad, Listed, InHand, Halting
<1>5. Accounts'
  BY <1>1, FS_EmptySet DEF Accounts
<1>6. Kept'
  BY EmptyFacts, ElementFacts DEF IInv, Kept, Forms, Reads, Excused, CopyKept
<1> QED
  BY <1>2, <1>3, <1>4, <1>5, <1>6 DEF IInv

-----------------------------------------------------------------------------
(* Run *)

LEMMA LookKeeps ==
  ASSUME IInv, Look
  PROVE  IInv'
<1> USE DEF Look
<1>1. Typed' /\ Known'
  <2>1. looking' \in 0..MaxJobs /\ looking' + made' <= MaxFiles
    BY DEF IInv, Typed, TypeOK
  <2> QED
    BY <2>1 DEF IInv, Typed, TypeOK, Known, InTransfer, Transferring, Loading
<1>2. Quiet' /\ OneStage' /\ OneLoad' /\ Listed'
  BY DEF IInv, Quiet, OneStage, OneLoad, Listed, InHand, Halting
<1>3. Accounts' /\ Kept'
  BY DEF IInv, Accounts, Halting, Kept, Forms, Reads, Excused, CopyKept, InTransfer,
     Transferring
<1> QED
  BY <1>1, <1>2, <1>3 DEF IInv

LEMMA RunKeeps ==
  ASSUME IInv, Run
  PROVE  IInv'
<1> USE DEF Run
<1>0. /\ made' \in Files /\ made' <= MaxFiles /\ made' = made + 1 /\ made \in Nat
      /\ made' \notin InTransfer /\ made' \notin found /\ made' \notin copied
      /\ made' # None
      /\ \A e \in Elements :
           e \in ToSet(xmlLogfiles) \/ e = parked \/ load[e] # "no" => e.file # made'
  <2>1. made' \in Files /\ made' = made + 1 /\ made \in Nat
    <3>1. looking \in Nat /\ made \in Nat /\ looking + made <= MaxFiles
      BY DEF IInv, Typed, TypeOK, Known
    <3> QED
      BY <3>1 DEF Files
  <2> QED
    BY <2>1, ElementFacts DEF IInv, Known, Files
<1>m. /\ made' \notin copying /\ made' \notin ToSet(etlLogfiles) /\ made' # held
      /\ transfer[made'] = "no"
  BY <1>0, Members
<1>t. InTransfer' = InTransfer \cup {made'}
  BY DEF InTransfer, Transferring
<1>j. /\ looking' \in 0..MaxJobs /\ looking' + made' <= MaxFiles /\ made' \in 0..MaxFiles
      /\ up \in {"up", "stopping", "closed"}
  <2>1. /\ looking \in Nat /\ looking <= MaxJobs /\ made \in Nat
        /\ looking + made <= MaxFiles
    BY DEF IInv, Typed, TypeOK, Known
  <2>2. up \in {"up", "stopping", "closed"}
    BY DEF IInv, Typed, TypeOK, Quiet
  <2> QED
    BY <2>1, <2>2
<1>1. Typed'
  BY <1>j, <1>0 DEF IInv, Typed, TypeOK, Transferring, Loading
<1>2. Known'
  <2>1. \A f \in Files : f <= made => f <= made'
    BY <1>0 DEF Files
  <2>2. \A e \in Elements : e.file \in Files
    BY ElementFacts
  <2>3. todo' = {}
    BY <1>j DEF IInv, Quiet
  <2>4. ASSUME NEW f \in Files,
               f \in etlDisk' \cup xmlDisk' \cup copied' \cup found' \cup InTransfer'
        PROVE  f <= made'
    <3>1. CASE f = made'
      BY <1>0, <3>1
    <3>2. CASE f # made'
      <4>1. f \in etlDisk \cup xmlDisk \cup copied \cup found \cup InTransfer
        BY <1>t, <2>4, <3>2
      <4> QED
        BY <2>1, <4>1 DEF IInv, Known
    <3> QED
      BY <3>1, <3>2
  <2>5. ASSUME NEW e \in Elements,
               e \in ToSet(xmlLogfiles') \/ e = parked' \/ load'[e] # "no"
        PROVE  e.file <= made'
    BY <2>1, <2>2, <2>5 DEF IInv, Known
  <2> QED
    BY <1>j, <2>3, <2>4, <2>5 DEF Known
<1>3. Quiet'
  BY <1>j DEF IInv, Quiet
<1>4. OneStage'
  BY <1>0, <1>m DEF IInv, OneStage
<1>5. OneLoad' /\ Listed'
  BY <1>0, <1>m DEF IInv, OneLoad, Listed, InHand, Halting
<1>6. Accounts'
  <2>1. /\ InTransfer' \ found' = (InTransfer \ found) \cup {made'}
        /\ found' \ InTransfer' = found \ InTransfer
        /\ made' \notin InTransfer \ found
    BY <1>0, <1>t
  <2>2. Cardinality(InTransfer' \ found') = Cardinality(InTransfer \ found) + 1
    BY <2>1, CountFacts, OneMore, Zenon DEF IInv
  <2>3. /\ leaked \in Nat
        /\ Cardinality(InTransfer \ found) \in Nat /\ Cardinality(found \ InTransfer) \in Nat
    BY CountFacts DEF IInv, Accounts, Halting
  <2>4. Cardinality(found' \ InTransfer') = Cardinality(found \ InTransfer)
    BY <2>1
  <2> QED
    BY <2>2, <2>3, <2>4 DEF IInv, Accounts, Halting
<1>7. Kept'
  BY <1>0, <1>m DEF IInv, Kept, Forms, Reads, Excused, CopyKept
<1> QED
  BY <1>1, <1>2, <1>3, <1>4, <1>5, <1>6, <1>7 DEF IInv

LEMMA CopyFailsKeeps ==
  ASSUME IInv, NEW f \in Files, CopyFails(f)
  PROVE  IInv'
<1> USE DEF CopyFails
<1>m. /\ f \notin ToSet(etlLogfiles) /\ f # held /\ transfer[f] = "no"
      /\ f \notin found /\ f \notin copied
  BY DEF IInv, OneStage
<1>t. InTransfer' = InTransfer \ {f} /\ f \in InTransfer
  BY <1>m DEF InTransfer, Transferring
<1>1. Typed'
  BY DEF IInv, Typed, TypeOK, Transferring, Loading
<1>2. Known'
  BY <1>t DEF IInv, Known
<1>3. Quiet' /\ OneStage' /\ OneLoad' /\ Listed'
  BY DEF IInv, Quiet, OneStage, OneLoad, Listed, InHand, Halting
<1>4. Accounts'
  <2>1. /\ InTransfer' \ found' = (InTransfer \ found) \ {f}
        /\ found' \ InTransfer' = found \ InTransfer
        /\ f \in InTransfer \ found
    BY <1>m, <1>t
  <2>2. Cardinality(InTransfer' \ found') = Cardinality(InTransfer \ found) - 1
    BY <2>1, CountFacts, OneLess, Zenon DEF IInv
  <2>3. /\ leaked \in Nat
        /\ Cardinality(InTransfer \ found) \in Nat /\ Cardinality(found \ InTransfer) \in Nat
    BY CountFacts DEF IInv, Accounts, Halting
  <2>4. Cardinality(found' \ InTransfer') = Cardinality(found \ InTransfer)
    BY <2>1
  <2> QED
    BY <2>2, <2>3, <2>4 DEF IInv, Accounts, Halting
<1>5. Kept'
  <2>1. todo = {}
    BY DEF IInv, Typed, TypeOK, Quiet
  <2> QED
    BY <1>m, <2>1 DEF IInv, Kept, Forms, Reads, Excused, CopyKept
<1> QED
  BY <1>1, <1>2, <1>3, <1>4, <1>5 DEF IInv

LEMMA CopyDoneKeeps ==
  ASSUME IInv, NEW f \in Files, CopyDone(f)
  PROVE  IInv'
<1> USE DEF CopyDone
<1>m. /\ f \notin ToSet(etlLogfiles) /\ f # held /\ transfer[f] = "no"
      /\ f \notin found /\ f \notin copied
  BY DEF IInv, OneStage
<1>0. /\ etlLogfiles' \in Seq(Files)
      /\ ToSet(etlLogfiles') = ToSet(etlLogfiles) \cup {f}
      /\ IsInjective(etlLogfiles')
  BY <1>m, AppendFacts DEF IInv, Typed, TypeOK, OneStage
<1>t. InTransfer' = InTransfer /\ f \in InTransfer
  BY <1>0 DEF InTransfer, Transferring
<1>1. Typed'
  BY <1>0 DEF IInv, Typed, TypeOK, Transferring, Loading
<1>2. Known'
  BY <1>t DEF IInv, Known
<1>3. Quiet'
  BY DEF IInv, Quiet
<1>4. OneStage' /\ OneLoad' /\ Listed'
  BY <1>0, <1>m DEF IInv, OneStage, OneLoad, Listed, InHand, Halting
<1>5. Accounts'
  BY <1>t DEF IInv, Accounts, Halting
<1>6. Kept'
  <2>1. f \in etlDisk
    BY DEF IInv, Kept, Forms
  <2> QED
    BY <1>0, <2>1 DEF IInv, Kept, Forms, Reads, Excused, CopyKept
<1> QED
  BY <1>1, <1>2, <1>3, <1>4, <1>5, <1>6 DEF IInv

-----------------------------------------------------------------------------
(* transferETL and its workers *)

LEMMA ReceiveEtlKeeps ==
  ASSUME IInv, ReceiveEtl
  PROVE  IInv'
<1> USE DEF ReceiveEtl
<1>u. up \in {"up", "stopping", "closed"}
  BY DEF Looping, IInv, Typed, TypeOK, Quiet
<1>0. /\ held' \in Files /\ held' \in ToSet(etlLogfiles)
      /\ etlLogfiles' \in Seq(Files) /\ IsInjective(etlLogfiles')
      /\ ToSet(etlLogfiles) = ToSet(etlLogfiles') \cup {held'}
      /\ held' \notin ToSet(etlLogfiles')
  BY TailFacts DEF IInv, Typed, TypeOK, OneStage
<1>m. /\ transfer[held'] = "no" /\ held' \notin copying
      /\ Fresh(held') \in Elements /\ Fresh(held').fresh /\ Fresh(held').file = held'
      /\ held # held'
  BY <1>0, ElementFacts DEF IInv, OneStage
<1>n. /\ Fresh(held') \notin ToSet(xmlLogfiles) /\ Fresh(held') # parked
      /\ load[Fresh(held')] = "no"
  BY <1>0, <1>m DEF IInv, OneLoad
<1>s. /\ sortList' \in Seq(Elements) /\ IsInjective(sortList')
      /\ ToSet(sortList') = ToSet(sortList) \cup {Fresh(held')}
  <2>1. Fresh(held') \notin ToSet(sortList)
    BY <1>0 DEF IInv, Listed
  <2> QED
    BY <1>m, <2>1, AppendFacts DEF IInv, Typed, TypeOK, OneLoad
<1>t. InTransfer' = InTransfer
  BY <1>0, ElementFacts DEF InTransfer, Transferring
<1>1. Typed'
  BY <1>0, <1>s DEF IInv, Typed, TypeOK, Transferring, Loading
<1>2. Known'
  BY <1>t DEF IInv, Known
<1>3. Quiet'
  BY <1>u DEF IInv, Quiet
<1>4. OneStage'
  BY <1>0, <1>m DEF IInv, OneStage
<1>5. OneLoad'
  BY <1>0, <1>s DEF IInv, OneLoad
<1>6. Listed'
  <2>1. \A e \in Elements : e.fresh /\ e.file = held' <=> e = Fresh(held')
    BY <1>m, ElementFacts
  <2>2. \A e \in Elements : e.file # held
    BY ElementFacts
  <2>3. ASSUME NEW e \in Elements
        PROVE  /\ InHand(e)' => e \in ToSet(sortList')
               /\ ~Halting' /\ e \in ToSet(sortList') => InHand(e)'
    <3>1. InHand(e)' <=> InHand(e) \/ e = Fresh(held')
      BY <1>n, <1>m, <2>1, <2>2 DEF InHand
    <3> QED
      BY <1>s, <3>1 DEF IInv, Listed, Halting
  <2>4. ASSUME NEW f \in Files, f \in copying' \/ f \in ToSet(etlLogfiles') \/ f > made'
        PROVE  Fresh(f) \notin ToSet(sortList')
    <3>1. held' <= made
      BY <1>0, Members DEF IInv, Known
    <3>2. f # held'
      <4>1. f > made => ~(f <= made)
        BY DEF IInv, Typed, TypeOK, Files
      <4> QED
        BY <1>0, <1>m, <2>4, <3>1, <4>1
    <3>3. Fresh(f) # Fresh(held')
      BY <1>m, <3>2, ElementFacts
    <3>4. Fresh(f) \notin ToSet(sortList)
      BY <1>0, <2>4 DEF IInv, Listed
    <3> QED
      BY <1>s, <3>3, <3>4
  <2> QED
    BY <2>3, <2>4 DEF Listed
<1>7. Accounts' /\ Kept'
  BY <1>0, <1>m, <1>t DEF IInv, Accounts, Halting, Kept, Forms, Reads, Excused, CopyKept
<1> QED
  BY <1>1, <1>2, <1>3, <1>4, <1>5, <1>6, <1>7 DEF IInv

LEMMA SubmitTransferKeeps ==
  ASSUME IInv, SubmitTransfer
  PROVE  IInv'
<1> USE DEF SubmitTransfer
<1>0. /\ held \in Files /\ transfer[held] = "no" /\ transfer'[held] = "running"
      /\ held \notin copying /\ held \notin ToSet(etlLogfiles)
      /\ \A f \in Files : f # held => transfer'[f] = transfer[f]
      /\ \A f \in Files : f # held'
  BY ElementFacts DEF IInv, Typed, TypeOK, OneStage
<1>c. Cardinality(Transferring') <= Threads
  <2>1. Transferring' = Transferring \cup {held} /\ held \notin Transferring
    BY <1>0 DEF Transferring
  <2>2. Cardinality(Transferring') = Cardinality(Transferring) + 1
    BY <2>1, CountFacts, OneMore, Zenon DEF IInv
  <2>3. Cardinality(Transferring) \in Nat /\ Cardinality(Transferring) < Threads
    BY CountFacts DEF IInv
  <2> QED
    BY <2>2, <2>3
<1>t. InTransfer' = InTransfer
  <2>1. InTransfer \subseteq Files /\ InTransfer' \subseteq Files
    BY <1>0, CountFacts, InChannels DEF IInv, InTransfer, Transferring
  <2> QED
    BY <1>0, <2>1, Members
<1>1. Typed'
  BY <1>c DEF IInv, Typed, TypeOK, Loading
<1>2. Known' /\ Quiet'
  BY <1>t DEF IInv, Known, Quiet
<1>3. OneStage'
  BY <1>0 DEF IInv, OneStage
<1>4. OneLoad' /\ Listed'
  <2>1. \A e \in Elements : e.file \in Files
    BY ElementFacts
  <2> QED
    BY <1>0, <2>1 DEF IInv, OneLoad, Listed, InHand, Halting
<1>5. Accounts'
  BY <1>t DEF IInv, Accounts, Halting
<1>6. Kept'
  BY <1>0 DEF IInv, Kept, Forms, Reads, Excused, CopyKept
<1> QED
  BY <1>1, <1>2, <1>3, <1>4, <1>5, <1>6 DEF IInv

LEMMA WriteXmlKeeps ==
  ASSUME IInv, NEW f \in Files, WriteXml(f)
  PROVE  IInv'
<1> USE DEF WriteXml
<1>0. f <= made
  BY Members DEF IInv, Known
<1>1. Typed'
  BY DEF IInv, Typed, TypeOK, Transferring, Loading
<1>2. Known'
  BY <1>0 DEF IInv, Known, InTransfer, Transferring
<1>3. Quiet' /\ OneStage' /\ OneLoad' /\ Listed'
  BY DEF IInv, Quiet, OneStage, OneLoad, Listed, InHand, Halting
<1>4. Accounts' /\ Kept'
  BY DEF IInv, Accounts, Halting, Kept, Forms, Reads, Excused, CopyKept, InTransfer, Transferring
<1> QED
  BY <1>1, <1>2, <1>3, <1>4 DEF IInv

\* A worker goes on with its file.
LEMMA WorkerStays ==
  ASSUME IInv, NEW f \in Files, transfer[f] \in {"running", "pushing"},
         NEW t \in {"pushing", "cleanup"}, transfer' = [transfer EXCEPT ![f] = t],
         UNCHANGED <<todo, copier, etlLogfiles, held, found, copied, leaked>>, up' = up
  PROVE  /\ Transferring' = Transferring /\ InTransfer' = InTransfer
         /\ \A g \in Files : g # f => transfer'[g] = transfer[g]
         /\ transfer'[f] = t
         /\ ~Halting => up = "up"
         /\ OneStage' /\ Accounts' /\ f <= made
<1>1. /\ Transferring' = Transferring /\ transfer'[f] = t
      /\ \A g \in Files : g # f => transfer'[g] = transfer[g]
  BY DEF IInv, Typed, TypeOK, Transferring
<1>2. InTransfer' = InTransfer
  BY <1>1 DEF InTransfer
<1>3. OneStage'
  BY <1>1 DEF IInv, OneStage
<1>4. Accounts'
  BY <1>2 DEF IInv, Accounts, Halting
<1>5. f <= made
  BY Members DEF IInv, Known
<1>6. ~Halting => up = "up"
  BY DEF Halting, IInv, Typed, TypeOK, Quiet
<1> QED
  BY <1>1, <1>2, <1>3, <1>4, <1>5, <1>6

LEMMA TransferDoneKeeps ==
  ASSUME IInv, NEW f \in Files, TransferDone(f)
  PROVE  IInv'
<1> USE DEF TransferDone
<1>0. /\ Transferring' = Transferring /\ InTransfer' = InTransfer
      /\ \A g \in Files : g # f => transfer'[g] = transfer[g]
      /\ transfer'[f] = "pushing" /\ f <= made
      /\ OneStage' /\ Accounts'
      /\ ~Halting => up = "up"
  BY WorkerStays
<1>1. Typed'
  BY <1>0 DEF IInv, Typed, TypeOK, Loading
<1>2. Known' /\ Quiet'
  BY <1>0 DEF IInv, Known, Quiet
<1>3. OneLoad' /\ Listed'
  BY <1>0, ElementFacts DEF IInv, OneLoad, Listed, InHand, Halting
<1>4. Kept'
  BY <1>0 DEF IInv, Kept, Forms, Reads, Excused, CopyKept
<1> QED
  BY <1>0, <1>1, <1>2, <1>3, <1>4 DEF IInv

LEMMA TransferFailsKeeps ==
  ASSUME IInv, NEW f \in Files, TransferFails(f)
  PROVE  IInv'
<1> USE DEF TransferFails
<1>0. /\ Transferring' = Transferring /\ InTransfer' = InTransfer
      /\ \A g \in Files : g # f => transfer'[g] = transfer[g]
      /\ transfer'[f] = "cleanup" /\ f <= made
      /\ OneStage' /\ Accounts'
      /\ ~Halting => up = "up"
  BY WorkerStays
<1>s. /\ sortList' \in Seq(Elements) /\ IsInjective(sortList')
      /\ ToSet(sortList') = ToSet(sortList) \ {Fresh(f)}
  <2>1. sortList \in Seq(Elements) /\ IsInjective(sortList)
        /\ sortList' = RemoveFirst(sortList, Fresh(f))
    BY DEF IInv, Typed, TypeOK, OneLoad
  <2>2. /\ RemoveFirst(sortList, Fresh(f)) \in Seq(Elements)
        /\ ToSet(RemoveFirst(sortList, Fresh(f))) = ToSet(sortList) \ {Fresh(f)}
        /\ IsInjective(RemoveFirst(sortList, Fresh(f)))
    BY <2>1, RemoveFacts, Zenon
  <2> QED
    BY <2>1, <2>2
<1>e. /\ Fresh(f) \in Elements /\ Fresh(f).fresh /\ Fresh(f).file = f
      /\ \A e \in Elements : e.fresh /\ e.file = f <=> e = Fresh(f)
      /\ \A e \in Elements : e.file \in Files
  BY ElementFacts
<1>1. Typed'
  BY <1>0, <1>s DEF IInv, Typed, TypeOK, Loading
<1>2. Known' /\ Quiet'
  BY <1>0 DEF IInv, Known, Quiet
<1>3. OneLoad'
  BY <1>0, <1>s, <1>e DEF IInv, OneLoad
<1>4. Listed'
  <2>1. /\ Fresh(f) \notin ToSet(xmlLogfiles) /\ Fresh(f) # parked
        /\ load[Fresh(f)] = "no" /\ f # held
    BY <1>e DEF IInv, OneLoad, OneStage
  <2> QED
    BY <1>0, <1>s, <1>e, <2>1 DEF IInv, Listed, InHand, Halting
<1>5. Kept'
  BY <1>0 DEF IInv, Kept, Forms, Reads, Excused, CopyKept, Unconverted
<1> QED
  BY <1>0, <1>1, <1>2, <1>3, <1>4, <1>5 DEF IInv

LEMMA PushXmlKeeps ==
  ASSUME IInv, NEW f \in Files, PushXml(f)
  PROVE  IInv'
<1> USE DEF PushXml
<1>0. /\ Transferring' = Transferring /\ InTransfer' = InTransfer
      /\ \A g \in Files : g # f => transfer'[g] = transfer[g]
      /\ transfer'[f] = "cleanup" /\ f <= made
      /\ OneStage' /\ Accounts'
  BY WorkerStays
<1>e. /\ Fresh(f) \in Elements /\ Fresh(f).fresh /\ Fresh(f).file = f
      /\ \A e \in Elements : e.fresh /\ e.file = f <=> e = Fresh(f)
      /\ \A e \in Elements : e.file \in Files
      /\ Fresh(f) # None
  BY ElementFacts
<1>m. /\ Fresh(f) \notin ToSet(xmlLogfiles) /\ Fresh(f) # parked
      /\ load[Fresh(f)] = "no" /\ f # held
      /\ f \notin copying /\ f \notin ToSet(etlLogfiles)
  BY <1>e DEF IInv, OneLoad, OneStage
<1>x. /\ xmlLogfiles' \in Seq(Elements) /\ Len(xmlLogfiles') <= XmlCap
      /\ ToSet(xmlLogfiles') = ToSet(xmlLogfiles) \cup {Fresh(f)}
      /\ IsInjective(xmlLogfiles')
  <2>1. xmlLogfiles \in Seq(Elements) /\ Len(xmlLogfiles) \in Nat /\ IsInjective(xmlLogfiles)
    BY LenProperties DEF IInv, Typed, TypeOK, OneLoad
  <2> QED
    BY <1>e, <1>m, <2>1, AppendFacts
<1>1. Typed'
  BY <1>0, <1>x DEF IInv, Typed, TypeOK, Loading
<1>2. Known' /\ Quiet'
  <2>1. up \in {"up", "stopping"}
    BY DEF Open
  <2> QED
    BY <1>0, <1>e, <1>x, <2>1 DEF IInv, Known, Quiet
<1>3. OneLoad'
  BY <1>0, <1>m, <1>x, <1>e DEF IInv, OneLoad
<1>4. Listed'
  BY <1>0, <1>m, <1>x, <1>e DEF IInv, Listed, InHand, Halting
<1>5. Kept'
  <2>1. f \in xmlDisk \cup Excused
    BY DEF IInv, Kept, Forms
  <2> QED
    BY <1>0, <1>x, <1>e, <2>1 DEF IInv, Kept, Forms, Reads, Excused, CopyKept
<1> QED
  BY <1>0, <1>1, <1>2, <1>3, <1>4, <1>5 DEF IInv

LEMMA PushPanicsKeeps ==
  ASSUME IInv, NEW f \in Files, PushPanics(f)
  PROVE  IInv'
<1> USE DEF PushPanics
<1>0. /\ Transferring' = Transferring /\ InTransfer' = InTransfer
      /\ \A g \in Files : g # f => transfer'[g] = transfer[g]
      /\ transfer'[f] = "cleanup" /\ f <= made
      /\ OneStage' /\ Accounts'
  BY WorkerStays
<1>1. Typed'
  BY <1>0 DEF IInv, Typed, TypeOK, Loading
<1>2. Known' /\ Quiet'
  BY <1>0 DEF IInv, Known, Quiet
<1>3. OneLoad' /\ Listed'
  BY <1>0, ElementFacts DEF IInv, OneLoad, Listed, InHand, Halting
<1>4. Kept'
  BY <1>0 DEF IInv, Kept, Forms, Reads, Excused, CopyKept
<1> QED
  BY <1>0, <1>1, <1>2, <1>3, <1>4 DEF IInv

\* The end of a transfer takes the file off the account.
LEMMA CleanupKeeps ==
  ASSUME IInv, NEW f \in Files, Cleanup(f)
  PROVE  IInv'
<1> USE DEF Cleanup
<1>0. /\ transfer'[f] = "no" /\ \A g \in Files : g # f => transfer'[g] = transfer[g]
      /\ f \notin copying /\ f \notin ToSet(etlLogfiles) /\ f # held
  BY DEF IInv, Typed, TypeOK, OneStage
<1>t. InTransfer' = InTransfer \ {f} /\ f \in InTransfer /\ Transferring' = Transferring \ {f}
  <2>1. Transferring' = Transferring \ {f} /\ f \in Transferring
    BY <1>0 DEF Transferring
  <2> QED
    BY <1>0, <2>1 DEF InTransfer
<1>c. Cardinality(Transferring') <= Threads
  <2>1. Cardinality(Transferring') <= Cardinality(Transferring)
        /\ Cardinality(Transferring') \in Nat
    BY <1>t, CountFacts, FS_Subset, FS_CardinalityType DEF IInv
  <2> QED
    BY <2>1, CountFacts DEF IInv, Typed, TypeOK
<1>a. Accounts'
  <2>1. /\ leaked \in Nat
        /\ Cardinality(InTransfer \ found) \in Nat /\ Cardinality(found \ InTransfer) \in Nat
    BY CountFacts DEF IInv, Accounts, Halting
  <2>2. CASE f \in found
    <3>1. /\ InTransfer' \ found' = InTransfer \ found
          /\ found' \ InTransfer' = (found \ InTransfer) \cup {f}
          /\ f \notin found \ InTransfer
      BY <1>t, <2>2
    <3>2. Cardinality(found' \ InTransfer') = Cardinality(found \ InTransfer) + 1
      BY <3>1, CountFacts, OneMore, Zenon DEF IInv
    <3>3. Cardinality(InTransfer' \ found') = Cardinality(InTransfer \ found)
      BY <3>1
    <3> QED
      BY <2>1, <3>2, <3>3 DEF IInv, Accounts, Halting
  <2>3. CASE f \notin found
    <3>1. /\ InTransfer' \ found' = (InTransfer \ found) \ {f}
          /\ found' \ InTransfer' = found \ InTransfer
          /\ f \in InTransfer \ found
      BY <1>t, <2>3
    <3>2. Cardinality(InTransfer' \ found') = Cardinality(InTransfer \ found) - 1
      BY <3>1, CountFacts, OneLess, Zenon DEF IInv
    <3>3. Cardinality(found' \ InTransfer') = Cardinality(found \ InTransfer)
      BY <3>1
    <3> QED
      BY <2>1, <3>2, <3>3 DEF IInv, Accounts, Halting
  <2> QED
    BY <2>2, <2>3
<1>1. Typed'
  <2>1. count' \in Int
    BY DEF IInv, Typed, TypeOK
  <2>2. etlDisk' \subseteq Files
    BY DEF IInv, Typed, TypeOK
  <2>3. transfer' \in [Files -> {"no", "running", "pushing", "cleanup"}]
    BY DEF IInv, Typed, TypeOK
  <2> QED
    BY <1>c, <2>1, <2>2, <2>3 DEF IInv, Typed, TypeOK, Loading
<1>2. Known'
  BY <1>t DEF IInv, Known
<1>3. Quiet'
  BY <1>0 DEF IInv, Quiet
<1>4. OneStage'
  BY <1>0 DEF IInv, OneStage
<1>5. OneLoad' /\ Listed'
  BY <1>0, ElementFacts DEF IInv, OneLoad, Listed, InHand, Halting
<1>6. Kept'
  <2>1. todo = {}
    BY DEF IInv, Typed, TypeOK, Quiet
  <2> QED
    BY <1>0, <2>1 DEF IInv, Kept, Forms, Reads, Excused, CopyKept
<1> QED
  BY <1>a, <1>1, <1>2, <1>3, <1>4, <1>5, <1>6 DEF IInv

-----------------------------------------------------------------------------
(* unmarshalETL, its workers, and scanXML *)

\* What a step of the second half leaves alone.
LEMMA LoadFrame ==
  ASSUME IInv,
         UNCHANGED <<up, copier, etlLogfiles, held, transfer, copied, found,
                     leaked>>
  PROVE  /\ Transferring' = Transferring /\ InTransfer' = InTransfer
         /\ OneStage' /\ Accounts'
<1>1. Transferring' = Transferring /\ InTransfer' = InTransfer
  BY DEF InTransfer, Transferring
<1> QED
  BY <1>1 DEF IInv, OneStage, Accounts, Halting

LEMMA ReceiveXmlKeeps ==
  ASSUME IInv, ReceiveXml
  PROVE  IInv'
<1> USE DEF ReceiveXml
<1>0. /\ Transferring' = Transferring /\ InTransfer' = InTransfer
      /\ OneStage' /\ Accounts'
  BY LoadFrame
<1>x. /\ parked' \in Elements /\ parked' \in ToSet(xmlLogfiles)
      /\ xmlLogfiles' \in Seq(Elements) /\ Len(xmlLogfiles') <= XmlCap
      /\ ToSet(xmlLogfiles) = ToSet(xmlLogfiles') \cup {parked'}
      /\ IsInjective(xmlLogfiles') /\ parked' \notin ToSet(xmlLogfiles')
  <2>1. xmlLogfiles \in Seq(Elements) /\ IsInjective(xmlLogfiles) /\ xmlLogfiles # <<>>
    BY DEF IInv, Typed, TypeOK, OneLoad
  <2>2. Len(xmlLogfiles) <= XmlCap
    BY DEF IInv, Typed, TypeOK
  <2> QED
    BY <2>1, <2>2, TailFacts
<1>e. \A e \in Elements : e # parked
  BY ElementFacts
<1>1. Typed'
  BY <1>0, <1>x DEF IInv, Typed, TypeOK, Loading
<1>2. Known'
  BY <1>0, <1>x DEF IInv, Known
<1>3. Quiet'
  <2>1. up \in {"up", "stopping", "closed"}
    BY DEF Looping, IInv, Typed, TypeOK, Quiet
  <2> QED
    BY <1>x, <2>1 DEF IInv, Quiet
<1>6. Kept'
  BY <1>x DEF IInv, Kept, Forms, Reads, Excused, CopyKept
<1>4. OneLoad'
  BY <1>x DEF IInv, OneLoad
<1>5. Listed'
  BY <1>x, <1>e DEF IInv, Listed, InHand, Halting
<1> QED
  BY <1>0, <1>1, <1>2, <1>3, <1>4, <1>5, <1>6 DEF IInv

LEMMA SubmitLoadKeeps ==
  ASSUME IInv, SubmitLoad
  PROVE  IInv'
<1> USE DEF SubmitLoad
<1>0. /\ Transferring' = Transferring /\ InTransfer' = InTransfer
      /\ OneStage' /\ Accounts'
  BY LoadFrame
<1>p. /\ parked \in Elements /\ load[parked] = "no" /\ load'[parked] = "reading"
      /\ \A e \in Elements : e # parked => load'[e] = load[e]
      /\ \A e \in Elements : e # parked'
      /\ load' \in [Elements -> {"no", "reading", "waiting", "sending", "failed"}]
  BY ElementFacts DEF IInv, Typed, TypeOK, OneLoad
<1>c. Cardinality(Loading') <= LoadThreads
  <2>1. Loading' = Loading \cup {parked} /\ parked \notin Loading
    BY <1>p DEF Loading
  <2>2. Cardinality(Loading') = Cardinality(Loading) + 1
    BY <2>1, LoadingFinite, OneMore, Zenon
  <2> QED
    BY <2>2, LoadingFinite
<1>1. Typed'
  BY <1>0, <1>p, <1>c DEF IInv, Typed, TypeOK
<1>2. Known'
  BY <1>0, <1>p DEF IInv, Known
<1>3. Quiet'
  BY DEF IInv, Quiet
<1>4. OneLoad'
  BY <1>p DEF IInv, OneLoad
<1>5. Listed'
  BY <1>p DEF IInv, Listed, InHand, Halting
<1>6. Kept'
  BY <1>p DEF IInv, Kept, Forms, Reads, Excused, CopyKept
<1> QED
  BY <1>0, <1>1, <1>2, <1>3, <1>4, <1>5, <1>6 DEF IInv

\* A worker goes on with its element, or is through with it.
LEMMA LoadStays ==
  ASSUME IInv, NEW e \in Elements, load[e] # "no",
         NEW t \in {"no", "waiting", "sending", "failed"},
         load' = [load EXCEPT ![e] = t]
  PROVE  /\ load' \in [Elements -> {"no", "reading", "waiting", "sending", "failed"}]
         /\ load'[e] = t /\ \A d \in Elements : d # e => load'[d] = load[d]
         /\ Cardinality(Loading') <= LoadThreads
         /\ up \notin {"down", "init"}
<1>1. /\ load' \in [Elements -> {"no", "reading", "waiting", "sending", "failed"}]
      /\ load'[e] = t /\ \A d \in Elements : d # e => load'[d] = load[d]
  BY DEF IInv, Typed, TypeOK
<1>2. Loading' \in SUBSET Loading
  BY <1>1 DEF Loading
<1>3. Cardinality(Loading') <= Cardinality(Loading) /\ Cardinality(Loading') \in Nat
  BY <1>2, LoadingFinite, FS_Subset, FS_CardinalityType
<1>4. Cardinality(Loading') <= LoadThreads
  BY <1>3, LoadingFinite DEF IInv, Typed, TypeOK
<1>5. up \notin {"down", "init"}
  BY DEF IInv, Quiet
<1> QED
  BY <1>1, <1>4, <1>5

LEMMA ReadXmlKeeps ==
  ASSUME IInv, NEW e \in Elements, ReadXml(e)
  PROVE  IInv'
<1> USE DEF ReadXml
<1>0. /\ Transferring' = Transferring /\ InTransfer' = InTransfer
      /\ OneStage' /\ Accounts'
  BY LoadFrame
<1>l. /\ load' \in [Elements -> {"no", "reading", "waiting", "sending", "failed"}]
      /\ load'[e] = "waiting" /\ \A d \in Elements : d # e => load'[d] = load[d]
      /\ Cardinality(Loading') <= LoadThreads
      /\ up \notin {"down", "init"}
  BY LoadStays
<1>1. Typed'
  BY <1>0, <1>l DEF IInv, Typed, TypeOK
<1>2. Known'
  BY <1>0, <1>l DEF IInv, Known
<1>3. Quiet'
  BY <1>l DEF IInv, Quiet
<1>4. OneLoad'
  BY <1>l DEF IInv, OneLoad
<1>5. Listed'
  BY <1>l DEF IInv, Listed, InHand, Halting
<1>6. Kept'
  BY <1>l DEF IInv, Kept, Forms, Reads, Excused, CopyKept
<1> QED
  BY <1>0, <1>1, <1>2, <1>3, <1>4, <1>5, <1>6 DEF IInv

\* An element leaves the list: its turn has come, or it could not be read.
LEMMA LeavesKeeps ==
  ASSUME IInv, NEW e \in Elements, ReadFails(e) \/ Turn(e)
  PROVE  IInv'
<1>a. /\ load[e] \in {"reading", "waiting"}
      /\ \E t \in {"sending", "failed"} : load' = [load EXCEPT ![e] = t]
      /\ sortList' = RemoveFirst(sortList, e)
      /\ settled \subseteq settled' /\ spoiled \subseteq spoiled'
      /\ load'[e] = "failed" /\ e.file \in xmlDisk => e.file \in settled' \cup spoiled'
      /\ load'[e] = "failed" => load[e] = "reading"
      /\ UNCHANGED <<up, late, disk, todo, copier, etlLogfiles, held, transfer, xmlLogfiles,
                     parked, events, crashes, leaked, found, both, copied, entered>>
  BY DEF ReadFails, Unreadable, Turn, IInv, Typed, TypeOK
<1>f. faults' \in 0..MaxFaults
  BY DEF ReadFails, Unreadable, Turn, IInv, Typed, TypeOK
<1>0. /\ Transferring' = Transferring /\ InTransfer' = InTransfer
      /\ OneStage' /\ Accounts'
  BY <1>a, LoadFrame
<1>l. /\ load' \in [Elements -> {"no", "reading", "waiting", "sending", "failed"}]
      /\ load'[e] \in {"sending", "failed"}
      /\ \A d \in Elements : d # e => load'[d] = load[d]
      /\ Cardinality(Loading') <= LoadThreads
      /\ up \notin {"down", "init"}
  BY <1>a, LoadStays
<1>s. /\ sortList' \in Seq(Elements) /\ IsInjective(sortList')
      /\ ToSet(sortList') = ToSet(sortList) \ {e}
  <2>1. sortList \in Seq(Elements) /\ IsInjective(sortList)
    BY DEF IInv, Typed, TypeOK, OneLoad
  <2> QED
    BY <1>a, <2>1, RemoveFacts, Zenon
<1>1. Typed'
  BY <1>a, <1>f, <1>0, <1>l, <1>s DEF IInv, Typed, TypeOK
<1>2. Known'
  BY <1>a, <1>0, <1>l DEF IInv, Known
<1>3. Quiet'
  BY <1>a, <1>l DEF IInv, Quiet
<1>4. OneLoad'
  BY <1>a, <1>l, <1>s DEF IInv, OneLoad
<1>5. Listed'
  <2>1. /\ e \notin ToSet(xmlLogfiles) /\ e # parked
        /\ e.fresh => e.file # held /\ transfer[e.file] \notin {"running", "pushing"}
    BY <1>a DEF IInv, OneLoad
  <2> QED
    BY <1>a, <1>l, <1>s, <2>1 DEF IInv, Listed, InHand, Halting
<1>6. Kept'
  <2>1. load'[e] = "failed" => e.file \in Excused'
    BY <1>a DEF IInv, Kept, Reads, Excused
  <2>2. Excused \subseteq Excused'
    BY <1>a DEF Excused
  <2>3. Forms' /\ CopyKept'
    BY <1>a, <2>2 DEF IInv, Kept, Forms, CopyKept, Excused
  <2>4. Reads'
    BY <1>a, <1>l, <2>1, <2>2 DEF IInv, Kept, Reads
  <2> QED
    BY <2>3, <2>4 DEF Kept
<1> QED
  BY <1>0, <1>1, <1>2, <1>3, <1>4, <1>5, <1>6 DEF IInv

\* The worker is through with its element.
LEMMA EnterKeeps ==
  ASSUME IInv, NEW e \in Elements, Enter(e) \/ EnterPanics(e)
  PROVE  IInv'
<1>a. /\ load[e] \in {"sending", "failed"} /\ load' = [load EXCEPT ![e] = "no"]
      /\ UNCHANGED <<up, late, disk, todo, copier, etlLogfiles, held, transfer, sortList,
                     xmlLogfiles, parked, bounds, leaked, found, both, fates>>
  BY DEF Enter, EnterPanics
<1>0. /\ Transferring' = Transferring /\ InTransfer' = InTransfer
      /\ OneStage' /\ Accounts'
  BY <1>a, LoadFrame
<1>l. /\ load' \in [Elements -> {"no", "reading", "waiting", "sending", "failed"}]
      /\ load'[e] = "no" /\ \A d \in Elements : d # e => load'[d] = load[d]
      /\ Cardinality(Loading') <= LoadThreads
      /\ up \notin {"down", "init"}
  BY <1>a, LoadStays
<1>e. events' \in Seq(Elements) /\ Len(events') <= EventsCap
  <2>1. events \in Seq(Elements) /\ Len(events) <= EventsCap /\ Len(events) \in Nat
    BY LenProperties DEF IInv, Typed, TypeOK
  <2> QED
    BY <2>1, AppendFacts DEF Enter, EnterPanics
<1>n. /\ entered' \in Seq(Elements) /\ ToSet(entered) \subseteq ToSet(entered')
      /\ load[e] = "sending" /\ events' # events => e \in ToSet(entered')
      /\ \/ ToSet(events') = ToSet(events) \cup {e}
         \/ events' = events
  <2>1. events \in Seq(Elements) /\ entered \in Seq(Elements)
    BY DEF IInv, Typed, TypeOK
  <2>2. ToSet(Append(events, e)) = ToSet(events) \cup {e}
    BY <2>1, AppendFacts
  <2>3. Append(entered, e) \in Seq(Elements) /\ ToSet(Append(entered, e)) = ToSet(entered) \cup {e}
    BY <2>1, AppendFacts
  <2>4. CASE Enter(e)
    BY <2>1, <2>2, <2>3, <2>4 DEF Enter
  <2>5. CASE EnterPanics(e)
    BY <2>1, <2>5 DEF EnterPanics
  <2> QED
    BY <2>4, <2>5
<1>1. Typed'
  BY <1>a, <1>n, <1>0, <1>l, <1>e DEF IInv, Typed, TypeOK
<1>2. Known'
  BY <1>a, <1>0, <1>l DEF IInv, Known
<1>3. Quiet'
  BY <1>a, <1>l DEF IInv, Quiet
<1>4. OneLoad'
  BY <1>a, <1>l DEF IInv, OneLoad
<1>5. Listed'
  BY <1>a, <1>l DEF IInv, Listed, InHand, Halting
<1>6. Kept'
  <2>1. \A d \in ToSet(events') : d \in ToSet(entered') \/ d.file \in Excused
    <3>1. CASE events' = events
      BY <1>n, <3>1 DEF IInv, Kept, Reads
    <3>2. CASE events' # events
      <4>1. e \in ToSet(entered') \/ e.file \in Excused
        BY <1>a, <1>n, <3>2 DEF IInv, Kept, Reads
      <4> QED
        BY <1>n, <3>2, <4>1 DEF IInv, Kept, Reads
    <3> QED
      BY <3>1, <3>2
  <2> QED
    BY <1>a, <1>l, <2>1 DEF IInv, Kept, Forms, Reads, Excused, CopyKept
<1> QED
  BY <1>0, <1>1, <1>2, <1>3, <1>4, <1>5, <1>6 DEF IInv

LEMMA ScanKeeps ==
  ASSUME IInv, Scan
  PROVE  IInv'
<1>a. /\ UNCHANGED <<up, etlDisk, todo, copier, etlLogfiles, held, transfer, sortList,
                     xmlLogfiles, parked, load, bounds, passed, census, copied, spoiled>>
      /\ events # <<>> /\ events' = Tail(events)
      /\ late' = late \ {"scanXML"} /\ Looping("scanXML")
  BY DEF Scan
<1>0. /\ Transferring' = Transferring /\ InTransfer' = InTransfer
      /\ OneStage' /\ Accounts'
  BY <1>a, LoadFrame
<1>e. /\ events' \in Seq(Elements) /\ Len(events') <= EventsCap
      /\ ToSet(events') \subseteq ToSet(events)
  <2>1. events \in Seq(Elements) /\ Len(events) <= EventsCap
    BY DEF IInv, Typed, TypeOK
  <2> QED
    BY <1>a, <2>1, TailFacts
<1>h. PICK e \in Elements : e = Head(events) /\ e \in ToSet(events)
  BY <1>a, TailFacts DEF IInv, Typed, TypeOK
<1>d. /\ \/ xmlDisk' = xmlDisk \ {e.file} /\ torn' = torn \ {e.file}
         \/ xmlDisk' = xmlDisk /\ torn' = torn
      /\ settled' = IF e \in ToSet(entered) THEN settled \cup {e.file} ELSE settled
  BY <1>h DEF Scan
<1>1. Typed'
  BY <1>a, <1>0, <1>d, <1>e DEF IInv, Typed, TypeOK, Loading
<1>2. Known'
  BY <1>a, <1>0, <1>d DEF IInv, Known
<1>3. Quiet'
  <2>1. up \notin {"down", "init"}
    BY <1>a DEF Looping, IInv, Quiet
  <2> QED
    BY <1>a, <2>1 DEF IInv, Quiet
<1>4. OneLoad' /\ Listed'
  BY <1>a DEF IInv, OneLoad, Listed, InHand, Halting
<1>5. Kept'
  <2>1. e.file \in Excused' /\ Excused \subseteq Excused'
    BY <1>a, <1>d, <1>h DEF IInv, Kept, Reads, Excused
  <2>2. todo = {}
    BY <1>a DEF Looping, IInv, Typed, TypeOK, Quiet
  <2>3. Forms'
    BY <1>a, <1>d, <2>1, <2>2 DEF IInv, Kept, Forms
  <2>4. Reads'
    BY <1>a, <1>d, <1>e, <2>1 DEF IInv, Kept, Reads
  <2>5. CopyKept'
    BY <1>a, <1>d, <2>1 DEF IInv, Kept, CopyKept, Excused
  <2> QED
    BY <2>3, <2>4, <2>5 DEF Kept
<1> QED
  BY <1>0, <1>1, <1>2, <1>3, <1>4, <1>5 DEF IInv

\* The pools have been released: what they refuse is in nobody's hands.
LEMMA RefuseKeeps ==
  ASSUME IInv, RefuseTransfer \/ RefuseLoad
  PROVE  IInv'
<1>a. /\ Halting /\ Halting' /\ held' \in {held, None} /\ parked' \in {parked, None}
      /\ UNCHANGED <<up, late, disk, todo, copier, etlLogfiles, transfer, sortList,
                     xmlLogfiles, load, events, bounds, history>>
  BY DEF RefuseTransfer, RefuseLoad, Halting
<1>n. None \notin Files /\ None \notin Elements /\ \A e \in Elements : e.file \in Files
  BY ElementFacts
<1>1. Typed'
  BY <1>a DEF IInv, Typed, TypeOK, Transferring, Loading
<1>2. Known'
  BY <1>a, <1>n, Members DEF IInv, Known
<1>3. Quiet'
  BY <1>a DEF IInv, Quiet, Halting
<1>4. OneStage' /\ OneLoad'
  BY <1>a, <1>n DEF IInv, OneStage, OneLoad
<1>5. Listed'
  BY <1>a, <1>n DEF IInv, Listed, InHand
<1>6. Accounts'
  BY <1>a DEF IInv, Accounts
<1>7. Kept'
  BY <1>a, <1>n DEF IInv, Kept, Forms, Reads, Excused, CopyKept
<1> QED
  BY <1>1, <1>2, <1>3, <1>4, <1>5, <1>6, <1>7 DEF IInv

-----------------------------------------------------------------------------

LEMMA StepPreserves == IInv /\ [Next]_vars => IInv'
<1> SUFFICES ASSUME IInv, [Next]_vars PROVE IInv'
  OBVIOUS
<1>1. CASE Start \/ Ready \/ Shutdown \/ Close \/ Crash \/ Look \/ Run
  BY <1>1, StartKeeps, ReadyShutdownKeeps, CrashKeeps, LookKeeps, RunKeeps
<1>2. CASE TransferLoop \/ RefuseTransfer \/ UnmarshalLoop \/ RefuseLoad \/ Scan
  BY <1>2, ReceiveEtlKeeps, SubmitTransferKeeps, ReceiveXmlKeeps, SubmitLoadKeeps,
     ScanKeeps, RefuseKeeps DEF TransferLoop, UnmarshalLoop
<1>3. ASSUME NEW f \in Files,
             LoadEtl(f) \/ LoadXml(f) \/ CopyEnds(f) \/ WriteXml(f) \/ TransferWorker(f)
      PROVE  IInv'
  <2>1. CASE LoadEtl(f) \/ LoadXml(f) \/ CopyEnds(f) \/ WriteXml(f)
    BY <2>1, LoadEtlKeeps, LoadXmlKeeps, CopyFailsKeeps, CopyDoneKeeps, WriteXmlKeeps
       DEF CopyEnds
  <2>2. CASE TransferWorker(f)
    BY <2>2, TransferDoneKeeps, TransferFailsKeeps, PushXmlKeeps, PushPanicsKeeps,
       CleanupKeeps DEF TransferWorker
  <2> QED
    BY <1>3, <2>1, <2>2
<1>4. ASSUME NEW e \in Elements, LoadWorker(e)
      PROVE  IInv'
  BY <1>4, ReadXmlKeeps, LeavesKeeps, EnterKeeps DEF LoadWorker
<1>5. CASE UNCHANGED vars
  <2> USE <1>5 DEF vars
  <2>1. Typed' /\ Known'
    BY DEF IInv, Typed, TypeOK, Known, InTransfer, Transferring, Loading
  <2>2. Quiet' /\ OneStage' /\ OneLoad' /\ Listed'
    BY DEF IInv, Quiet, OneStage, OneLoad, Listed, InHand, Halting
  <2>3. Accounts' /\ Kept'
    BY DEF IInv, Accounts, Halting, Kept, Forms, Reads, Excused, CopyKept, InTransfer, Transferring
  <2> QED
    BY <2>1, <2>2, <2>3 DEF IInv
<1> QED
  BY <1>1, <1>2, <1>3, <1>4, <1>5 DEF Next

LEMMA Invariance == Spec => []IInv
BY InitEstablishes, StepPreserves, PTL DEF Spec

\* Every variable keeps its type; no pool has more workers than it is made for,
\* and no channel more elements.
THEOREM TypeCorrect == Spec => []TypeOK
<1>1. IInv => TypeOK
  BY DEF IInv, Typed
<1> QED
  BY <1>1, Invariance, PTL

\* count is what the comment on CountAccounts says, in every state.
THEOREM CountCorrect == Spec => []CountAccounts
<1>1. IInv => CountAccounts
  BY DEF IInv, Accounts, Halting, CountAccounts
<1> QED
  BY <1>1, Invariance, PTL

\* No element of sortList is without a goroutine or a channel that has it.
THEOREM NoOrphanCorrect == Spec => []NoOrphan
<1>1. IInv => NoOrphan
  <2> SUFFICES ASSUME IInv, ~Halting
               PROVE  ToSet(sortList) =
                      {Fresh(f) : f \in ({held} \ {None}) \cup
                                        {g \in Files : transfer[g] \in {"running", "pushing"}}}
                        \cup ToSet(xmlLogfiles) \cup ({parked} \ {None})
                        \cup {e \in Elements : load[e] \in {"reading", "waiting"}}
    BY DEF NoOrphan
  <2> DEFINE Held == ({held} \ {None}) \cup
                     {g \in Files : transfer[g] \in {"running", "pushing"}}
             HeldElements == {Fresh(f) : f \in Held}
             Rest == ToSet(xmlLogfiles) \cup ({parked} \ {None})
                       \cup {e \in Elements : load[e] \in {"reading", "waiting"}}
  <2>1. /\ ToSet(sortList) \subseteq Elements /\ ToSet(xmlLogfiles) \subseteq Elements
        /\ Held \subseteq Files /\ Rest \subseteq Elements
    BY InChannels DEF IInv, Typed, TypeOK
  <2>2. \A e \in Elements : e \in HeldElements <=> e.fresh /\ e.file \in Held
    BY <2>1, ElementFacts
  <2>3. HeldElements \subseteq Elements
    BY <2>1, ElementFacts
  <2>4. \A e \in Elements : e \in ToSet(sortList) <=> e \in HeldElements \/ e \in Rest
    BY <2>2, ElementFacts DEF IInv, Listed, InHand
  <2> QED
    BY <2>1, <2>3, <2>4
<1> QED
  BY <1>1, Invariance, PTL

\* No complete copy is lost before it has been scanned.
THEOREM CopyKeptCorrect == Spec => []CopyKept
<1>1. IInv => CopyKept
  BY DEF IInv, Kept
<1> QED
  BY <1>1, Invariance, PTL
-----------------------------------------------------------------------------
(* The order of the logs *)

LEMMA EarlierIn ==
  ASSUME NEW d, NEW e, Earlier(d, e)
  PROVE  d \in ToSet(order) /\ e \in ToSet(order)
BY DEF Earlier, ToSet

\* An element appended for the first time is earlier than no other.
LEMMA EarlierAppend ==
  ASSUME order \in Seq(Elements), NEW x \in Elements, x \notin ToSet(order),
         order' = Append(order, x),
         NEW d, NEW e, Earlier(d, e)', e # x
  PROVE  Earlier(d, e)
<1>1. PICK k, l \in DOMAIN order' : order'[k] = d /\ order'[l] = e /\ k < l
  BY DEF Earlier
<1>2. /\ \A i \in 1..Len(order) : order'[i] = order[i]
      /\ order'[Len(order) + 1] = x
      /\ DOMAIN order = 1..Len(order) /\ DOMAIN order' = 1..(Len(order) + 1)
      /\ Len(order) \in Nat
  BY AppendProperties, LenProperties
<1>3. l # Len(order) + 1
  BY <1>1, <1>2
<1>4. k \in 1..Len(order) /\ l \in 1..Len(order)
  BY <1>1, <1>2, <1>3
<1> QED
  BY <1>1, <1>2, <1>4 DEF Earlier

LEMMA TurnsStart == Init => Turns
<1> SUFFICES ASSUME Init PROVE Turns
  OBVIOUS
<1>1. /\ order = <<>> /\ entered = <<>> /\ sortList = <<>> /\ ToSet(<<>>) = {}
      /\ <<>> \in Seq(Elements) /\ DOMAIN sortList = {} /\ todo = {}
      /\ up = "down" /\ \A e \in Elements : load[e] = "no"
  BY EmptyFacts DEF Init
<1>2. Ranked /\ FirstOnly
  BY <1>1 DEF Ranked, FirstOnly, Sending
<1>3. Unranked /\ Twins
  BY <1>1 DEF Unranked, Twins
<1> QED
  BY <1>2, <1>3 DEF Turns

\* A step that appends nothing: who gets its turn is first, or has a twin.
LEMMA TurnsKept ==
  ASSUME IInv, Turns, UNCHANGED <<order, both>>, up' # "down",
         hurried \subseteq hurried',
         entered' \in Seq(Elements), todo' \subseteq todo,
         \A f \in Files : f > made' => f > made,
         \A f \in Files : f <= made => f <= made',
         \A f \in Files : Waits(f)' => Waits(f) \/ f > made,
         ToSet(sortList') \subseteq ToSet(sortList),
         \A i, j \in DOMAIN sortList' : i < j =>
           \E k, l \in DOMAIN sortList :
             k < l /\ sortList'[i] = sortList[k] /\ sortList'[j] = sortList[l],
         ToSet(entered') \subseteq Elements,
         \A e \in Elements : e \in ToSet(entered') \/ Sending(e)' =>
           \/ e \in ToSet(entered) \/ Sending(e)
           \/ /\ e \in ToSet(order)
              /\ \A d \in ToSet(sortList') : Earlier(d, e) => e.file \in both \/ e \in hurried'
  PROVE  Turns'
<1>e. \A d, e : Earlier(d, e)' <=> Earlier(d, e)
  BY DEF Earlier
<1>1. Ranked'
  <2>1. \A e \in Elements : e \in ToSet(entered') \/ Sending(e)' => e \in ToSet(order')
    BY DEF Turns, Ranked
  <2>2. ToSet(entered') \subseteq ToSet(order')
    BY <2>1
  <2>3. ToSet(sortList') \subseteq ToSet(order') /\ order' \in Seq(Elements)
    BY DEF Turns, Ranked
  <2>4. ASSUME NEW i \in DOMAIN sortList', NEW j \in DOMAIN sortList', i < j
        PROVE  ~Earlier(sortList'[j], sortList'[i])
    <3>1. PICK k, l \in DOMAIN sortList :
            k < l /\ sortList'[i] = sortList[k] /\ sortList'[j] = sortList[l]
      BY <2>4
    <3>2. ~Earlier(sortList[l], sortList[k])
      BY <3>1 DEF Turns, Ranked
    <3> QED
      BY <3>1, <3>2
  <2>5. \A i, j \in DOMAIN sortList' : i < j =>
          ~(\E k, l \in DOMAIN order' :
              order'[k] = sortList'[j] /\ order'[l] = sortList'[i] /\ k < l)
    BY <2>4 DEF Earlier
  <2> QED
    BY <2>1, <2>2, <2>3, <2>5 DEF Ranked, Earlier
<1>2. Unranked'
  BY DEF Turns, Unranked
<1>3. Twins'
  <2> SUFFICES ASSUME NEW f \in Files,
                      <<"xml", f>> \in todo' \/ Restored(f) \in ToSet(order'),
                      Waits(f)' \/ Fresh(f) \in ToSet(order')
               PROVE  f \in both'
    BY DEF Twins
  <2>1. <<"xml", f>> \in todo \/ Restored(f) \in ToSet(order)
    OBVIOUS
  <2>2. ~(f > made)
    <3>1. f <= made
      BY <2>1 DEF Turns, Unranked, IInv, Known
    <3> QED
      BY <3>1 DEF IInv, Typed, TypeOK, Files
  <2>3. Waits(f) \/ Fresh(f) \in ToSet(order)
    BY <2>2
  <2> QED
    BY <2>1, <2>3 DEF Turns, Twins
<1>4. FirstOnly'
  <2> SUFFICES ASSUME NEW e \in Elements, e \in ToSet(entered') \/ Sending(e)',
                      NEW d \in ToSet(sortList'), Earlier(d, e)'
               PROVE  e.file \in both' \/ e \in hurried'
    BY DEF FirstOnly
  <2>1. Earlier(d, e) /\ d \in ToSet(sortList)
    BY <1>e
  <2> QED
    BY <2>1 DEF Turns, FirstOnly
<1> QED
  BY <1>1, <1>2, <1>3, <1>4 DEF Turns

\* A step that appends x to the list: x has not been there, and nobody gets
\* its turn.
LEMMA TurnsGrow ==
  ASSUME IInv, Turns, NEW x \in Elements, x \notin ToSet(order),
         order' = Append(order, x), sortList' = Append(sortList, x),
         UNCHANGED <<up, made, load, entered, hurried, both>>, up # "down",
         todo' \subseteq todo,
         \A f \in Files : Waits(f)' => Waits(f) /\ x # Fresh(f),
         \A f \in Files : x = Fresh(f) => Waits(f),
         \A f \in Files : x = Restored(f) => <<"xml", f>> \in todo \ todo'
  PROVE  Turns'
<1>o. /\ order' \in Seq(Elements) /\ ToSet(order') = ToSet(order) \cup {x}
      /\ ToSet(sortList') = ToSet(sortList) \cup {x}
      /\ order \in Seq(Elements) /\ sortList \in Seq(Elements)
  BY AppendFacts DEF IInv, Typed, TypeOK, Turns, Ranked
<1>e. \A d, e : Earlier(d, e)' /\ e # x => Earlier(d, e)
  BY <1>o, EarlierAppend
<1>x. \A e : ~Earlier(x, e)
  BY EarlierIn
<1>f. \A f \in Files : Fresh(f) \in Elements /\ Restored(f) \in Elements
                       /\ \A g \in Files : Fresh(f) # Restored(g)
  BY ElementFacts
<1>m. \A f \in Files : x \in {Fresh(f), Restored(f)} => f <= made /\ ~(f > made)
  <2> SUFFICES ASSUME NEW f \in Files, x \in {Fresh(f), Restored(f)}
               PROVE  f <= made
    BY DEF IInv, Typed, TypeOK, Files
  <2>1. <<"xml", f>> \in todo \/ Waits(f)
    OBVIOUS
  <2>2. f \in InTransfer => f <= made
    BY DEF IInv, Known
  <2>3. f \in copying \/ f \in ToSet(etlLogfiles) => f \in InTransfer
    BY Members
  <2> QED
    BY <2>1, <2>2, <2>3 DEF IInv, Known, Waits
<1>1. Ranked'
  <2>1. /\ ToSet(sortList') \subseteq ToSet(order') /\ entered' \in Seq(Elements)
        /\ ToSet(entered') \subseteq ToSet(order')
    BY <1>o DEF Turns, Ranked
  <2>2. \A e \in Elements : Sending(e)' => e \in ToSet(order')
    BY <1>o DEF Turns, Ranked, Sending
  <2>3. ASSUME NEW i \in DOMAIN sortList', NEW j \in DOMAIN sortList', i < j,
               NEW a, a = sortList'[i], NEW b, b = sortList'[j]
        PROVE  ~Earlier(b, a)'
    <3>1. /\ \A n \in 1..Len(sortList) : sortList'[n] = sortList[n]
          /\ sortList'[Len(sortList) + 1] = x
          /\ DOMAIN sortList = 1..Len(sortList)
          /\ DOMAIN sortList' = 1..(Len(sortList) + 1)
          /\ Len(sortList) \in Nat
      BY <1>o, AppendProperties, LenProperties
    <3>2. i \in DOMAIN sortList /\ a = sortList[i]
      BY <2>3, <3>1
    <3>3. a \in ToSet(sortList)
      BY <3>2 DEF ToSet
    <3>4. a # x
      BY <3>3 DEF Turns, Ranked
    <3>5. ~Earlier(b, a)
      <4>1. CASE j = Len(sortList) + 1
        BY <1>x, <2>3, <3>1, <4>1
      <4>2. CASE j # Len(sortList) + 1
        <5>1. j \in DOMAIN sortList /\ b = sortList[j]
          BY <2>3, <3>1, <4>2
        <5> QED
          BY <2>3, <3>2, <5>1 DEF Turns, Ranked
      <4> QED
        BY <4>1, <4>2
    <3> QED
      BY <1>e, <3>4, <3>5
  <2>4. \A i, j \in DOMAIN sortList' : i < j =>
          ~(\E k, l \in DOMAIN order' :
              order'[k] = sortList'[j] /\ order'[l] = sortList'[i] /\ k < l)
    BY <2>3 DEF Earlier
  <2> QED
    BY <1>o, <2>1, <2>2, <2>4 DEF Ranked, Earlier
<1>2. Unranked'
  <2>1. \A f \in Files : (Waits(f) \/ f > made)' => Fresh(f) \notin ToSet(order')
    <3> SUFFICES ASSUME NEW f \in Files, Waits(f)' \/ f > made
                 PROVE  Fresh(f) \notin ToSet(order')
      OBVIOUS
    <3>1. x # Fresh(f)
      BY <1>m
    <3>2. Fresh(f) \notin ToSet(order)
      BY DEF Turns, Unranked
    <3> QED
      BY <1>o, <3>1, <3>2
  <2>2. \A f \in Files : <<"xml", f>> \in todo' => Restored(f) \notin ToSet(order')
    BY <1>o DEF Turns, Unranked
  <2>3. \A f \in Files : Restored(f) \in ToSet(order') => f <= made'
    BY <1>o, <1>m DEF Turns, Unranked
  <2> QED
    BY <2>1, <2>2, <2>3 DEF Unranked
<1>3. Twins'
  <2> SUFFICES ASSUME NEW f \in Files,
                      <<"xml", f>> \in todo' \/ Restored(f) \in ToSet(order'),
                      Waits(f)' \/ Fresh(f) \in ToSet(order')
               PROVE  f \in both'
    BY DEF Twins
  <2>1. <<"xml", f>> \in todo \/ Restored(f) \in ToSet(order)
    BY <1>o
  <2>2. Waits(f) \/ Fresh(f) \in ToSet(order)
    BY <1>o
  <2> QED
    BY <2>1, <2>2 DEF Turns, Twins
<1>4. FirstOnly'
  <2> SUFFICES ASSUME NEW e \in Elements, e \in ToSet(entered') \/ Sending(e)',
                      NEW d \in ToSet(sortList'), Earlier(d, e)'
               PROVE  e.file \in both' \/ e \in hurried'
    BY DEF FirstOnly
  <2>1. e \in ToSet(entered) \/ Sending(e)
    BY DEF Sending
  <2>2. e # x
    BY <2>1 DEF Turns, Ranked
  <2>3. Earlier(d, e)
    BY <1>e, <2>2
  <2>4. d \in ToSet(sortList)
    BY <1>o, <1>x, <2>3
  <2> QED
    BY <2>1, <2>3, <2>4 DEF Turns, FirstOnly
<1> QED
  BY <1>1, <1>2, <1>3, <1>4 DEF Turns

\* A step that leaves the list as it is.
LEMMA TurnsIdle ==
  ASSUME IInv, Turns, UNCHANGED <<order, both, entered, hurried, sortList>>, up' # "down",
         todo' \subseteq todo, made' = made \/ made' = made + 1,
         \A f \in Files : Waits(f)' => Waits(f) \/ f > made,
         \A e \in Elements : Sending(e)' => Sending(e)
  PROVE  Turns'
<1>1. made \in Nat /\ Files \subseteq Nat
  BY DEF IInv, Typed, TypeOK, Files
<1>2. /\ \A f \in Files : f > made' => f > made
      /\ \A f \in Files : f <= made => f <= made'
  BY <1>1
<1>3. entered' \in Seq(Elements) /\ ToSet(entered') \subseteq Elements
  BY ElementOfSeq, LenProperties DEF Turns, Ranked, ToSet
<1>4. \A i, j \in DOMAIN sortList' : i < j =>
        \E k, l \in DOMAIN sortList :
          k < l /\ sortList'[i] = sortList[k] /\ sortList'[j] = sortList[l]
  OBVIOUS
<1>5. \A e \in Elements : e \in ToSet(entered') \/ Sending(e)' =>
        e \in ToSet(entered) \/ Sending(e)
  OBVIOUS
<1>6. ToSet(sortList') \subseteq ToSet(sortList)
  OBVIOUS
<1> QED
  BY <1>2, <1>3, <1>4, <1>5, <1>6, TurnsKept

LEMMA ProcessTurns ==
  ASSUME IInv, Turns, Start \/ Ready \/ Shutdown \/ Close \/ Crash \/ Look \/ Run
  PROVE  Turns'
<1>1. CASE Start
  <2> USE <1>1 DEF Start
  <2>1. /\ order = <<>> /\ entered = <<>> /\ sortList = <<>> /\ ToSet(<<>>) = {}
        /\ <<>> \in Seq(Elements) /\ DOMAIN sortList = {}
        /\ copying = {} /\ etlLogfiles = <<>> /\ \A e \in Elements : load[e] = "no"
    BY EmptyFacts DEF Turns, Unranked, IInv, Quiet
  <2>2. Ranked' /\ FirstOnly'
    BY <2>1 DEF Ranked, FirstOnly, Sending
  <2>3. Unranked' /\ Twins'
    BY <2>1 DEF Unranked, Twins, Waits
  <2> QED
    BY <2>2, <2>3 DEF Turns
<1>2. CASE Ready \/ Shutdown \/ Close
  <2>1. UNCHANGED <<disk, todo, copier, stages, bounds, history>> /\ up' # "down"
    BY <1>2 DEF Ready, Shutdown, Close
  <2>2. \A f \in Files : Waits(f)' => Waits(f)
    BY <2>1 DEF Waits
  <2>3. \A e \in Elements : Sending(e)' => Sending(e)
    BY <2>1 DEF Sending
  <2> QED
    BY <2>1, <2>2, <2>3, TurnsIdle
<1>3. CASE Crash
  <2> USE <1>3 DEF Crash
  <2>1. /\ order' = <<>> /\ entered' = <<>> /\ sortList' = <<>> /\ ToSet(<<>>) = {}
        /\ <<>> \in Seq(Elements) /\ DOMAIN sortList' = {}
        /\ todo' = {} /\ copying' = {} /\ etlLogfiles' = <<>>
        /\ \A e \in Elements : load'[e] = "no"
    BY EmptyFacts
  <2>2. Ranked' /\ FirstOnly'
    BY <2>1 DEF Ranked, FirstOnly, Sending
  <2>3. Unranked' /\ Twins'
    BY <2>1 DEF Unranked, Twins, Waits
  <2> QED
    BY <2>2, <2>3 DEF Turns
<1>4. CASE Look
  <2>1. UNCHANGED <<todo, made, copying, stages, history>> /\ up' # "down"
    BY <1>4 DEF Look
  <2>2. \A f \in Files : Waits(f)' => Waits(f)
    BY <2>1 DEF Waits
  <2>3. \A e \in Elements : Sending(e)' => Sending(e)
    BY <2>1 DEF Sending
  <2> QED
    BY <2>1, <2>2, <2>3, TurnsIdle
<1>5. CASE Run
  <2> USE <1>5 DEF Run
  <2>1. \A f \in Files : Waits(f)' => Waits(f) \/ f > made
    <3>1. made' > made
      BY DEF IInv, Typed, TypeOK
    <3> QED
      BY <3>1 DEF Waits
  <2>2. \A e \in Elements : Sending(e)' => Sending(e)
    BY DEF Sending
  <2>3. up' # "down"
    BY DEF IInv, Typed, TypeOK, Quiet
  <2> QED
    BY <2>1, <2>2, <2>3, TurnsIdle
<1> QED
  BY <1>1, <1>2, <1>3, <1>4, <1>5

\* The steps that touch neither the list nor its history.
LEMMA OthersTurns ==
  ASSUME IInv, Turns,
         \/ SubmitTransfer \/ RefuseTransfer \/ ReceiveXml \/ SubmitLoad \/ RefuseLoad
         \/ Scan
         \/ \E f \in Files :
              \/ LoadEtl(f) \/ CopyEnds(f) \/ WriteXml(f) \/ TransferDone(f)
              \/ PushXml(f) \/ PushPanics(f) \/ Cleanup(f)
         \/ \E e \in Elements : ReadXml(e) \/ EnterPanics(e)
  PROVE  Turns'
<1>1. CASE \/ SubmitTransfer \/ RefuseTransfer \/ ReceiveXml \/ SubmitLoad \/ RefuseLoad
           \/ Scan
           \/ \E f \in Files : \/ WriteXml(f) \/ TransferDone(f)
                               \/ PushXml(f) \/ PushPanics(f) \/ Cleanup(f)
           \/ \E e \in Elements : ReadXml(e) \/ EnterPanics(e)
  <2>1. /\ UNCHANGED <<up, todo, made, copying, etlLogfiles, sortList, order, entered, hurried,
                   both>>
        /\ up # "down"
    <3>1. UNCHANGED <<up, todo, made, copying, etlLogfiles, sortList, order, entered, hurried,
                   both>>
      BY <1>1 DEF SubmitTransfer, RefuseTransfer, ReceiveXml, SubmitLoad, RefuseLoad, Scan,
         WriteXml, TransferDone, PushXml, PushPanics, Cleanup, ReadXml, EnterPanics
    <3>2. up # "down"
      BY <1>1 DEF IInv, Quiet, Looping, Halting, SubmitTransfer, RefuseTransfer,
         ReceiveXml, SubmitLoad, RefuseLoad, Scan, WriteXml, TransferDone, PushXml, PushPanics, Cleanup, ReadXml, EnterPanics
    <3> QED
      BY <3>1, <3>2
  <2>2. \A f \in Files : Waits(f)' => Waits(f)
    BY <2>1 DEF Waits
  <2>3. \A e \in Elements : Sending(e)' => Sending(e)
    <3>1. load \in [Elements -> {"no", "reading", "waiting", "sending", "failed"}]
      BY DEF IInv, Typed, TypeOK
    <3>2. \A e \in Elements : load'[e] = "sending" => load[e] = "sending"
      BY <1>1, <3>1 DEF SubmitTransfer, RefuseTransfer, ReceiveXml, SubmitLoad, RefuseLoad,
         Scan, WriteXml, TransferDone, PushXml, PushPanics, Cleanup, ReadXml, EnterPanics
    <3> QED
      BY <2>1, <3>2 DEF Sending
  <2> QED
    BY <2>1, <2>2, <2>3, TurnsIdle
<1>2. ASSUME NEW f \in Files, LoadEtl(f) \/ CopyEnds(f)
      PROVE  Turns'
  <2>1. /\ UNCHANGED <<up, made, load, sortList, order, entered, hurried,
                   both>> /\ up # "down"
        /\ todo' \subseteq todo
    BY <1>2 DEF LoadEtl, CopyEnds, CopyFails, CopyDone, IInv, Quiet, Open
  <2>2. \A g \in Files : Waits(g)' => Waits(g)
    <3>1. etlLogfiles \in Seq(Files)
      BY DEF IInv, Typed, TypeOK
    <3>2. ToSet(Append(etlLogfiles, f)) = ToSet(etlLogfiles) \cup {f}
      BY <3>1, AppendFacts
    <3>3. CASE LoadEtl(f)
      BY <3>2, <3>3 DEF Waits, LoadEtl
    <3>4. CASE CopyFails(f)
      BY <3>4 DEF Waits, CopyFails
    <3>5. CASE CopyDone(f)
      BY <3>2, <3>5 DEF Waits, CopyDone
    <3> QED
      BY <1>2, <3>3, <3>4, <3>5 DEF CopyEnds
  <2>3. \A e \in Elements : Sending(e)' => Sending(e)
    BY <2>1 DEF Sending
  <2> QED
    BY <2>1, <2>2, <2>3, TurnsIdle
<1> QED
  BY <1>1, <1>2

LEMMA AppendTurns ==
  ASSUME IInv, Turns, ReceiveEtl \/ \E f \in Files : LoadXml(f)
  PROVE  Turns'
<1>1. CASE ReceiveEtl
  <2> USE <1>1 DEF ReceiveEtl
  <2>1. PICK f \in Files : f = Head(etlLogfiles)
    BY TailFacts DEF IInv, Typed, TypeOK
  <2>2. /\ f \in ToSet(etlLogfiles) /\ ToSet(etlLogfiles) = ToSet(etlLogfiles') \cup {f}
        /\ f \notin ToSet(etlLogfiles')
    BY <2>1, TailFacts DEF IInv, Typed, TypeOK, OneStage
  <2>3. Waits(f) /\ Fresh(f) \notin ToSet(order)
    BY <2>2 DEF Waits, Turns, Unranked
  <2>4. \A g \in Files : Fresh(f) = Fresh(g) => f = g
    BY ElementFacts
  <2>5. \A g \in Files : Waits(g)' => Waits(g) /\ Fresh(f) # Fresh(g)
    <3>1. f \notin copying /\ todo = {}
      BY <2>2 DEF IInv, Typed, TypeOK, OneStage, Quiet, Looping
    <3> QED
      BY <2>2, <2>4, <3>1 DEF Waits
  <2>6. Fresh(f) \in Elements /\ \A g \in Files : Fresh(f) # Restored(g)
    BY ElementFacts
  <2>7. order' = Append(order, Fresh(f)) /\ sortList' = Append(sortList, Fresh(f))
    BY <2>1
  <2>8. \A g \in Files : Fresh(f) = Fresh(g) => Waits(g)
    BY <2>3, <2>4
  <2>9. up # "down"
    BY DEF IInv, Quiet, Looping
  <2> QED
    BY <2>3, <2>5, <2>6, <2>7, <2>8, <2>9, TurnsGrow
<1>2. ASSUME NEW f \in Files, LoadXml(f)
      PROVE  Turns'
  <2> USE <1>2 DEF LoadXml
  <2>1. Restored(f) \notin ToSet(order)
    BY DEF Turns, Unranked
  <2>2. Restored(f) \in Elements /\ \A g \in Files : Restored(f) # Fresh(g)
    BY ElementFacts
  <2>3. \A g \in Files : Waits(g)' => Waits(g) /\ Restored(f) # Fresh(g)
    BY <2>2 DEF Waits
  <2>4. \A g \in Files : Restored(f) = Restored(g) => <<"xml", g>> \in todo \ todo'
    <3>1. \A g \in Files : Restored(f) = Restored(g) => f = g
      BY ElementFacts
    <3> QED
      BY <3>1
  <2> QED
    BY <2>1, <2>2, <2>3, <2>4, TurnsGrow
<1> QED
  BY <1>1, <1>2

\* An element leaves the list: its turn has come, or its file could not be read.
LEMMA LeaveTurns ==
  ASSUME IInv, Turns,
         \/ \E f \in Files : TransferFails(f)
         \/ \E e \in Elements : ReadFails(e) \/ Turn(e)
  PROVE  Turns'
<1>1. PICK x \in Elements :
        /\ sortList' = RemoveFirst(sortList, x)
        /\ \/ \E f \in Files : TransferFails(f)
           \/ ReadFails(x)
           \/ Turn(x)
  BY ElementFacts DEF TransferFails, ReadFails, Turn
<1>2. /\ UNCHANGED <<up, todo, made, copying, etlLogfiles, order, entered, both>>
      /\ up # "down" /\ hurried \subseteq hurried'
  BY <1>1 DEF TransferFails, ReadFails, Turn, IInv, Quiet
<1>3. sortList \in Seq(Elements) /\ IsInjective(sortList)
  BY DEF IInv, Typed, TypeOK, OneLoad
<1>4. ToSet(sortList') = ToSet(sortList) \ {x}
  BY <1>1, <1>3, RemoveFacts, Zenon
<1>5. \A i, j \in DOMAIN sortList' : i < j =>
        \E k, l \in DOMAIN sortList :
          k < l /\ sortList'[i] = sortList[k] /\ sortList'[j] = sortList[l]
  <2>1. \A i, j \in DOMAIN RemoveFirst(sortList, x) : i < j =>
          \E k, l \in DOMAIN sortList :
            k < l /\ RemoveFirst(sortList, x)[i] = sortList[k]
                  /\ RemoveFirst(sortList, x)[j] = sortList[l]
    BY <1>3, RemoveOrder
  <2>2. sortList' = RemoveFirst(sortList, x)
    BY <1>1
  <2> QED
    BY <2>1, <2>2
<1>6. \A e \in Elements : Sending(e)' =>
        \/ Sending(e)
        \/ e = x /\ Turn(x)
  <2>1. load \in [Elements -> {"no", "reading", "waiting", "sending", "failed"}]
    BY DEF IInv, Typed, TypeOK
  <2> QED
    BY <1>1, <1>2, <2>1 DEF Sending, TransferFails, ReadFails, Turn
<1>7. ASSUME Turn(x)
      PROVE  /\ x \in ToSet(order)
             /\ \A d \in ToSet(sortList') : Earlier(d, x) => x.file \in both \/ x \in hurried'
  <2>1. /\ x \in ToSet(sortList) /\ x \in ToSet(order)
        /\ Head(sortList).file = x.file \/ x \in hurried'
    BY <1>7 DEF Turn, IInv, Listed, InHand, Turns, Ranked
  <2>2. PICK h \in Elements : h = Head(sortList) /\ h \in ToSet(sortList) /\ h = sortList[1]
    <3>1. sortList # <<>>
      BY <2>1, EmptyFacts
    <3> QED
      BY <1>3, <3>1, TailFacts, HeadTailProperties
  <2>3. CASE h = x
    <3> SUFFICES ASSUME NEW d \in ToSet(sortList') PROVE ~Earlier(d, x)
      BY <2>1
    <3>1. d \in ToSet(sortList) /\ d # x
      BY <1>4
    <3>2. PICK j \in DOMAIN sortList : sortList[j] = d
      BY <3>1 DEF ToSet
    <3>3. j \in Nat /\ j > 1 /\ 1 \in DOMAIN sortList
      <4>1. DOMAIN sortList = 1..Len(sortList) /\ Len(sortList) \in Nat
        BY <1>3, LenProperties
      <4>2. j # 1
        BY <2>2, <2>3, <3>1, <3>2
      <4> QED
        BY <4>1, <4>2
    <3> QED
      BY <2>2, <2>3, <3>2, <3>3 DEF Turns, Ranked
  <2>4. CASE x \in hurried'
    BY <2>1, <2>4
  <2>5. CASE h # x /\ x \notin hurried'
    <3>1. h.file = x.file /\ x.file \in Files
      BY <2>1, <2>2, <2>5, ElementFacts
    <3>2. {h, x} = {Fresh(x.file), Restored(x.file)}
      BY <2>5, <3>1, ElementFacts
    <3>3. Fresh(x.file) \in ToSet(order) /\ Restored(x.file) \in ToSet(order)
      BY <2>1, <2>2, <3>2 DEF Turns, Ranked
    <3>4. x.file \in both
      BY <3>1, <3>3 DEF Turns, Twins
    <3> QED
      BY <2>1, <3>4
  <2> QED
    BY <2>3, <2>4, <2>5
<1>8. \A e \in Elements : e \in ToSet(entered') \/ Sending(e)' =>
        \/ e \in ToSet(entered) \/ Sending(e)
        \/ /\ e \in ToSet(order)
           /\ \A d \in ToSet(sortList') : Earlier(d, e) => e.file \in both \/ e \in hurried'
  BY <1>2, <1>6, <1>7
<1>9. /\ \A f \in Files : Waits(f)' => Waits(f)
      /\ entered' \in Seq(Elements) /\ ToSet(entered') \subseteq Elements
  <2>1. entered \in Seq(Elements)
    BY DEF Turns, Ranked
  <2> QED
    BY <1>2, <2>1, ElementOfSeq, LenProperties DEF Waits, ToSet
<1> QED
  BY <1>2, <1>4, <1>5, <1>8, <1>9, TurnsKept

\* Who enters the channel had its turn before.
LEMMA EnterTurns ==
  ASSUME IInv, Turns, NEW x \in Elements, Enter(x)
  PROVE  Turns'
<1>1. /\ UNCHANGED <<up, todo, made, copying, etlLogfiles, order, hurried, both,
                   sortList>>
      /\ up # "down" /\ load' = [load EXCEPT ![x] = "no"]
      /\ \/ entered' = Append(entered, x) /\ Sending(x)
         \/ entered' = entered
  BY DEF Enter, Open, Sending
<1>2. /\ entered' \in Seq(Elements)
      /\ \A e \in ToSet(entered') : e \in ToSet(entered) \/ (e = x /\ Sending(x))
  <2>1. /\ entered \in Seq(Elements) /\ Append(entered, x) \in Seq(Elements)
        /\ ToSet(Append(entered, x)) = ToSet(entered) \cup {x}
    BY AppendFacts DEF Turns, Ranked
  <2>2. CASE entered' = Append(entered, x) /\ Sending(x)
    BY <2>1, <2>2
  <2>3. CASE entered' = entered
    BY <2>1, <2>3
  <2> QED
    BY <1>1, <2>2, <2>3
<1>3. ToSet(entered') \subseteq Elements
  BY <1>2, ElementOfSeq, LenProperties DEF ToSet
<1>4. \A e \in Elements : Sending(e)' => Sending(e)
  BY <1>1 DEF Sending, IInv, Typed, TypeOK
<1>5. \A e \in Elements : e \in ToSet(entered') \/ Sending(e)' =>
        e \in ToSet(entered) \/ Sending(e)
  BY <1>2, <1>4
<1>6. \A f \in Files : Waits(f)' => Waits(f)
  BY <1>1 DEF Waits
<1>7. \A i, j \in DOMAIN sortList' : i < j =>
        \E k, l \in DOMAIN sortList :
          k < l /\ sortList'[i] = sortList[k] /\ sortList'[j] = sortList[l]
  BY <1>1
<1>8. ToSet(sortList') \subseteq ToSet(sortList)
  BY <1>1
<1> QED
  BY <1>1, <1>2, <1>3, <1>5, <1>6, <1>7, <1>8, TurnsKept

LEMMA TurnsStep == IInv /\ Turns /\ [Next]_vars => Turns'
<1> SUFFICES ASSUME IInv, Turns, [Next]_vars PROVE Turns'
  OBVIOUS
<1>1. CASE Start \/ Ready \/ Shutdown \/ Close \/ Crash \/ Look \/ Run
  BY <1>1, ProcessTurns
<1>2. CASE TransferLoop \/ RefuseTransfer \/ UnmarshalLoop \/ RefuseLoad \/ Scan
  BY <1>2, AppendTurns, OthersTurns DEF TransferLoop, UnmarshalLoop
<1>3. ASSUME NEW f \in Files,
             LoadEtl(f) \/ LoadXml(f) \/ CopyEnds(f) \/ WriteXml(f) \/ TransferWorker(f)
      PROVE  Turns'
  BY <1>3, AppendTurns, OthersTurns, LeaveTurns DEF TransferWorker
<1>4. ASSUME NEW e \in Elements, LoadWorker(e)
      PROVE  Turns'
  BY <1>4, OthersTurns, LeaveTurns, EnterTurns DEF LoadWorker
<1>5. CASE UNCHANGED vars
  <2>1. UNCHANGED <<up, todo, made, copying, etlLogfiles, sortList, load, order,
                    entered, hurried, both>>
    BY <1>5 DEF vars
  <2>2. Ranked' /\ FirstOnly'
    BY <2>1 DEF Turns, Ranked, FirstOnly, Sending, Earlier
  <2>3. Unranked' /\ Twins'
    BY <2>1 DEF Turns, Unranked, Twins, Waits
  <2> QED
    BY <2>2, <2>3 DEF Turns
<1> QED
  BY <1>1, <1>2, <1>3, <1>4, <1>5 DEF Next

\* A file overtakes, on its way from the list into the channel, no file that is
\* still in the list, unless loadFiles found it in both forms, or it left the list
\* out of turn because Shutdown had set stop.
THEOREM OvertakesCorrect == Spec => []OvertakesOnlySending
<1>1. Turns => OvertakesOnlySending
  <2> SUFFICES ASSUME Turns,
                      NEW e \in ToSet(entered), NEW d \in ToSet(order),
                      Index(d) < Index(e), d \in ToSet(sortList)
               PROVE  e.file \in both \/ e \in hurried
    BY DEF OvertakesOnlySending
  <2>1. e \in ToSet(order) /\ e \in Elements
    BY ElementOfSeq, LenProperties DEF Turns, Ranked, ToSet
  <2>2. /\ Index(d) \in DOMAIN order /\ order[Index(d)] = d
        /\ Index(e) \in DOMAIN order /\ order[Index(e)] = e
    BY <2>1 DEF Index, ToSet
  <2>3. Earlier(d, e)
    BY <2>2 DEF Earlier
  <2> QED
    BY <2>1, <2>3 DEF Turns, FirstOnly
<1> QED
  BY <1>1, TurnsStart, TurnsStep, Invariance, PTL DEF Spec

-----------------------------------------------------------------------------
(* One at a time *)

\* No file was found in both forms, none left the list out of turn because of
\* stop, and no two workers are at once between the removal of their element from
\* the list and the channel.
OneSends ==
  both = {} /\ hurried = {} /\ \A d, e \in Elements : Sending(d) /\ Sending(e) => d = e

\* The channel has had the files in order, and they come before the one being
\* sent, which comes before those in the list.
Lined ==
  /\ IsInjective(order)
  /\ \A i, j \in DOMAIN entered : i < j => Earlier(entered[i], entered[j])
  /\ \A d \in ToSet(entered), e \in Elements :
       e \in ToSet(sortList) \/ Sending(e) => Earlier(d, e)
  /\ \A d \in Elements, e \in ToSet(sortList) : Sending(d) => Earlier(d, e)

LEMMA EarlierTotal ==
  ASSUME order \in Seq(Elements), NEW d \in ToSet(order), NEW e \in ToSet(order), d # e
  PROVE  Earlier(d, e) \/ Earlier(e, d)
<1>1. PICK k \in DOMAIN order : order[k] = d
  BY DEF ToSet
<1>2. PICK l \in DOMAIN order : order[l] = e
  BY DEF ToSet
<1>3. k \in Int /\ l \in Int /\ k # l
  <2>1. DOMAIN order = 1..Len(order) /\ Len(order) \in Nat
    BY LenProperties
  <2> QED
    BY <1>1, <1>2, <2>1
<1>4. k < l \/ l < k
  BY <1>3
<1> QED
  BY <1>1, <1>2, <1>4 DEF Earlier

LEMMA LinedNothing ==
  ASSUME order = <<>>, entered = <<>>, sortList = <<>>
  PROVE  Lined
<1>1. ToSet(<<>>) = {} /\ IsInjective(<<>>) /\ DOMAIN entered = {}
  BY EmptyFacts
<1> QED
  BY <1>1 DEF Lined

LEMMA LinedShrinks ==
  ASSUME Lined, UNCHANGED <<order, entered>>, ToSet(sortList') \subseteq ToSet(sortList),
         \A e \in Elements : Sending(e)' => Sending(e)
  PROVE  Lined'
<1>e. \A d, e : Earlier(d, e)' <=> Earlier(d, e)
  BY DEF Earlier
<1>1. IsInjective(order')
  BY DEF Lined
<1>2. \A i, j \in DOMAIN entered' : i < j =>
        \E k, l \in DOMAIN order' :
          order'[k] = entered'[i] /\ order'[l] = entered'[j] /\ k < l
  BY DEF Lined, Earlier
<1>3. ASSUME NEW d \in ToSet(entered'), NEW e \in Elements,
             e \in ToSet(sortList') \/ Sending(e)'
      PROVE  Earlier(d, e)'
  <2>1. d \in ToSet(entered) /\ (e \in ToSet(sortList) \/ Sending(e))
    BY <1>3
  <2> QED
    BY <1>e, <2>1 DEF Lined
<1>4. ASSUME NEW d \in Elements, NEW e \in ToSet(sortList'), Sending(d)'
      PROVE  Earlier(d, e)'
  <2>1. e \in ToSet(sortList) /\ Sending(d)
    BY <1>4
  <2> QED
    BY <1>e, <2>1 DEF Lined
<1> QED
  BY <1>1, <1>2, <1>3, <1>4 DEF Lined, Earlier

LEMMA LinedGrows ==
  ASSUME IInv, Turns, Lined, NEW x \in Elements, x \notin ToSet(order),
         order' = Append(order, x), sortList' = Append(sortList, x),
         UNCHANGED <<up, load, entered>>
  PROVE  Lined'
<1>o. /\ order \in Seq(Elements) /\ sortList \in Seq(Elements)
      /\ ToSet(sortList') = ToSet(sortList) \cup {x} /\ IsInjective(order')
  BY AppendFacts DEF IInv, Typed, TypeOK, Turns, Ranked, Lined
<1>a. /\ \A i \in DOMAIN order : order'[i] = order[i] /\ i < Len(order) + 1
      /\ order'[Len(order) + 1] = x
      /\ DOMAIN order \subseteq DOMAIN order' /\ Len(order) + 1 \in DOMAIN order'
  <2>1. DOMAIN order = 1..Len(order) /\ Len(order) \in Nat
    BY <1>o, LenProperties
  <2>2. /\ \A i \in 1..Len(order) : order'[i] = order[i]
        /\ order'[Len(order) + 1] = x /\ DOMAIN order' = 1..(Len(order) + 1)
    BY <1>o, AppendProperties, LenProperties
  <2> QED
    BY <2>1, <2>2
<1>e. \A d, e : Earlier(d, e) => Earlier(d, e)'
  BY <1>a DEF Earlier
<1>x. \A d \in ToSet(order) : Earlier(d, x)'
  BY <1>a DEF Earlier, ToSet
<1>2. \A i, j \in DOMAIN entered' : i < j =>
        \E k, l \in DOMAIN order' :
          order'[k] = entered'[i] /\ order'[l] = entered'[j] /\ k < l
  <2> SUFFICES ASSUME NEW i \in DOMAIN entered, NEW j \in DOMAIN entered, i < j
               PROVE  \E k, l \in DOMAIN order' :
                        order'[k] = entered[i] /\ order'[l] = entered[j] /\ k < l
    OBVIOUS
  <2>1. PICK k, l \in DOMAIN order : order[k] = entered[i] /\ order[l] = entered[j] /\ k < l
    BY DEF Lined, Earlier
  <2> QED
    BY <1>a, <2>1
<1>3. ASSUME NEW d \in ToSet(entered'), NEW e \in Elements,
             e \in ToSet(sortList') \/ Sending(e)'
      PROVE  Earlier(d, e)'
  <2>1. d \in ToSet(entered) /\ d \in ToSet(order)
    BY DEF Turns, Ranked
  <2>2. e \in ToSet(sortList) \/ Sending(e) \/ e = x
    BY <1>o, <1>3 DEF Sending
  <2> QED
    BY <1>e, <1>x, <2>1, <2>2 DEF Lined
<1>4. ASSUME NEW d \in Elements, NEW e \in ToSet(sortList'), Sending(d)'
      PROVE  Earlier(d, e)'
  <2>1. Sending(d) /\ d \in ToSet(order)
    BY <1>4 DEF Sending, Turns, Ranked
  <2>2. e \in ToSet(sortList) \/ e = x
    BY <1>o
  <2> QED
    BY <1>e, <1>x, <2>1, <2>2 DEF Lined
<1> QED
  BY <1>o, <1>2, <1>3, <1>4 DEF Lined, Earlier

\* The turn of x comes: x is the first of the list.
LEMMA LinedTurn ==
  ASSUME IInv, Turns, Lined, OneSends, OneSends', NEW x \in Elements, Turn(x)
  PROVE  Lined'
<1>1. /\ UNCHANGED <<up, order, entered>> /\ load[x] = "waiting"
      /\ sortList' = RemoveFirst(sortList, x) /\ load' = [load EXCEPT ![x] = "sending"]
  BY DEF Turn
<1>2. sortList \in Seq(Elements) /\ IsInjective(sortList)
  BY DEF IInv, Typed, TypeOK, OneLoad
<1>3. ToSet(sortList') = ToSet(sortList) \ {x}
  BY <1>1, <1>2, RemoveFacts, Zenon
<1>4. \A e \in Elements : Sending(e)' => Sending(e) \/ e = x
  BY <1>1 DEF Sending, IInv, Typed, TypeOK
<1>e. \A d, e : Earlier(d, e)' <=> Earlier(d, e)
  BY <1>1 DEF Earlier
<1>6. Lined'
  <2>1. x \in ToSet(sortList) /\ x \in ToSet(order)
    BY <1>1 DEF IInv, Listed, InHand, Turns, Ranked
  <2>2. \A e \in ToSet(sortList') : Earlier(x, e)
    <3> SUFFICES ASSUME NEW e \in ToSet(sortList') PROVE Earlier(x, e)
      OBVIOUS
    <3>1. e \in ToSet(sortList) /\ e # x /\ e \in ToSet(order)
      BY <1>3 DEF Turns, Ranked
    <3>2. ~Earlier(e, x)
      <4>1. Turns' /\ both' = {} /\ hurried' = {}
        BY LeaveTurns DEF OneSends
      <4>2. Sending(x)'
        BY <1>1 DEF Sending, IInv, Typed, TypeOK
      <4>3. Earlier(e, x)' => x.file \in both' \/ x \in hurried'
        BY <4>1, <4>2 DEF Turns, FirstOnly
      <4> QED
        BY <1>e, <4>1, <4>3
    <3> QED
      BY <2>1, <3>1, <3>2, EarlierTotal DEF Turns, Ranked
  <2>3. IsInjective(order')
    BY <1>1 DEF Lined
  <2>4. \A i, j \in DOMAIN entered' : i < j =>
          \E k, l \in DOMAIN order' :
            order'[k] = entered'[i] /\ order'[l] = entered'[j] /\ k < l
    BY <1>1 DEF Lined, Earlier
  <2>5. ASSUME NEW d \in ToSet(entered'), NEW e \in Elements,
               e \in ToSet(sortList') \/ Sending(e)'
        PROVE  Earlier(d, e)'
    <3>1. d \in ToSet(entered) /\ (e \in ToSet(sortList) \/ Sending(e))
      BY <1>1, <1>3, <1>4, <2>1, <2>5
    <3> QED
      BY <1>e, <3>1 DEF Lined
  <2>6. ASSUME NEW d \in Elements, NEW e \in ToSet(sortList'), Sending(d)'
        PROVE  Earlier(d, e)'
    <3>1. e \in ToSet(sortList) /\ (Sending(d) \/ d = x)
      BY <1>3, <1>4, <2>6
    <3> QED
      BY <1>e, <2>2, <3>1 DEF Lined
  <2> QED
    BY <2>3, <2>4, <2>5, <2>6 DEF Lined, Earlier
<1> QED
  BY <1>6

\* The one element that is being sent enters the channel.
LEMMA LinedEnter ==
  ASSUME IInv, Turns, Lined, OneSends, NEW x \in Elements, Enter(x)
  PROVE  Lined'
<1>1. /\ UNCHANGED <<up, order, sortList>> /\ load' = [load EXCEPT ![x] = "no"]
      /\ \/ entered' = Append(entered, x) /\ Sending(x)
         \/ entered' = entered
  BY DEF Enter, Sending
<1>2. \A e \in Elements : Sending(e)' => Sending(e) /\ e # x
  BY <1>1 DEF Sending, IInv, Typed, TypeOK
<1>e. \A d, e : Earlier(d, e)' <=> Earlier(d, e)
  BY <1>1 DEF Earlier
<1>3. CASE entered' = entered
  BY <1>1, <1>2, <1>3, LinedShrinks
<1>4. CASE entered' = Append(entered, x) /\ Sending(x)
  <2>1. /\ entered \in Seq(Elements) /\ ToSet(entered') = ToSet(entered) \cup {x}
    BY <1>4, AppendFacts DEF Turns, Ranked
  <2>2. /\ \A i \in 1..Len(entered) : entered'[i] = entered[i]
        /\ entered'[Len(entered) + 1] = x
        /\ DOMAIN entered = 1..Len(entered) /\ DOMAIN entered' = 1..(Len(entered) + 1)
        /\ Len(entered) \in Nat
    BY <1>4, <2>1, AppendProperties, LenProperties
  <2>3. IsInjective(order')
    BY <1>1 DEF Lined
  <2>4. ASSUME NEW i \in DOMAIN entered', NEW j \in DOMAIN entered', i < j
        PROVE  Earlier(entered'[i], entered'[j])
    <3>1. i \in DOMAIN entered /\ entered'[i] = entered[i]
      BY <2>2, <2>4
    <3>2. CASE j = Len(entered) + 1
      <4>1. entered[i] \in ToSet(entered) /\ entered'[j] = x
        BY <2>2, <3>1, <3>2 DEF ToSet
      <4> QED
        BY <1>4, <3>1, <4>1 DEF Lined
    <3>3. CASE j # Len(entered) + 1
      <4>1. j \in DOMAIN entered /\ entered'[j] = entered[j]
        BY <2>2, <3>3
      <4> QED
        BY <2>4, <3>1, <4>1 DEF Lined
    <3> QED
      BY <3>2, <3>3
  <2>5. \A i, j \in DOMAIN entered' : i < j =>
          \E k, l \in DOMAIN order' :
            order'[k] = entered'[i] /\ order'[l] = entered'[j] /\ k < l
    BY <1>1, <2>4 DEF Earlier
  <2>6. ASSUME NEW d \in ToSet(entered'), NEW e \in Elements,
               e \in ToSet(sortList') \/ Sending(e)'
        PROVE  Earlier(d, e)'
    <3>1. e \in ToSet(sortList)
      BY <1>1, <1>2, <1>4, <2>6 DEF OneSends
    <3>2. CASE d = x
      BY <1>4, <1>e, <3>1, <3>2 DEF Lined
    <3>3. CASE d \in ToSet(entered)
      BY <1>e, <3>1, <3>3 DEF Lined
    <3> QED
      BY <2>1, <3>2, <3>3
  <2>7. ASSUME NEW d \in Elements, NEW e \in ToSet(sortList'), Sending(d)'
        PROVE  Earlier(d, e)'
    BY <1>1, <1>2, <1>e, <2>7 DEF Lined
  <2> QED
    BY <2>3, <2>5, <2>6, <2>7 DEF Lined, Earlier
<1> QED
  BY <1>1, <1>3, <1>4

LEMMA LinedStep ==
  ASSUME IInv, Turns, Lined, OneSends, OneSends', [Next]_vars
  PROVE  Lined'
<1>1. CASE Start \/ Crash
  <2>1. order' = <<>> /\ entered' = <<>> /\ sortList' = <<>>
    BY <1>1 DEF Start, Crash, Turns, Unranked, IInv, Quiet
  <2>2. ToSet(<<>>) = {} /\ IsInjective(<<>>) /\ DOMAIN entered' = {}
    BY <2>1, EmptyFacts
  <2> QED
    BY <2>1, <2>2 DEF Lined
<1>2. CASE ReceiveEtl
  <2> USE <1>2 DEF ReceiveEtl
  <2>1. PICK f \in Files : f = Head(etlLogfiles) /\ f \in ToSet(etlLogfiles)
    BY TailFacts DEF IInv, Typed, TypeOK
  <2>2. Fresh(f) \notin ToSet(order) /\ Fresh(f) \in Elements
    BY <2>1, ElementFacts DEF Waits, Turns, Unranked
  <2>3. order' = Append(order, Fresh(f)) /\ sortList' = Append(sortList, Fresh(f))
    BY <2>1
  <2> QED
    BY <2>2, <2>3, LinedGrows
<1>3. ASSUME NEW f \in Files, LoadXml(f)
      PROVE  Lined'
  <2> USE <1>3 DEF LoadXml
  <2>1. Restored(f) \notin ToSet(order) /\ Restored(f) \in Elements
    BY ElementFacts DEF Turns, Unranked
  <2> QED
    BY <2>1, LinedGrows
<1>4. ASSUME NEW e \in Elements, Turn(e) \/ Enter(e)
      PROVE  Lined'
  BY <1>4, LinedTurn, LinedEnter
<1>5. CASE Ready \/ Shutdown \/ Close \/ Look \/ Run
  <2>1. UNCHANGED <<load, sortList, order, entered>>
    BY <1>5 DEF Ready, Shutdown, Close, Look, Run
  <2>2. \A e \in Elements : Sending(e)' => Sending(e)
    BY <2>1 DEF Sending
  <2> QED
    BY <2>1, <2>2, LinedShrinks
<1>6. CASE \/ SubmitTransfer \/ RefuseTransfer \/ ReceiveXml \/ SubmitLoad \/ RefuseLoad
           \/ Scan \/ UNCHANGED vars
           \/ \E f \in Files :
                \/ LoadEtl(f) \/ CopyEnds(f) \/ WriteXml(f) \/ TransferDone(f)
                \/ PushXml(f) \/ PushPanics(f) \/ Cleanup(f)
           \/ \E e \in Elements : ReadXml(e) \/ EnterPanics(e)
  <2>1. UNCHANGED <<up, sortList, order, entered>>
    BY <1>6 DEF SubmitTransfer, RefuseTransfer, ReceiveXml, SubmitLoad, RefuseLoad, Scan,
       LoadEtl, CopyEnds, CopyFails,
       CopyDone, WriteXml, TransferDone, PushXml, PushPanics, Cleanup, ReadXml,
       EnterPanics, vars
  <2>2. \A e \in Elements : load'[e] = "sending" => load[e] = "sending"
    <3>1. load \in [Elements -> {"no", "reading", "waiting", "sending", "failed"}]
      BY DEF IInv, Typed, TypeOK
    <3> QED
      BY <1>6, <3>1 DEF SubmitTransfer, RefuseTransfer, ReceiveXml, SubmitLoad, RefuseLoad,
         Scan, LoadEtl, CopyEnds,
         CopyFails, CopyDone, WriteXml, TransferDone, PushXml, PushPanics, Cleanup, ReadXml,
         EnterPanics, vars
  <2>3. \A e \in Elements : Sending(e)' => Sending(e)
    BY <2>1, <2>2 DEF Sending
  <2> QED
    BY <2>1, <2>3, LinedShrinks
<1>7. CASE \/ \E f \in Files : TransferFails(f)
           \/ \E e \in Elements : ReadFails(e)
  <2>1. PICK x \in Elements :
          /\ sortList' = RemoveFirst(sortList, x) /\ UNCHANGED <<up, order, entered>>
          /\ (\E f \in Files : TransferFails(f)) \/ ReadFails(x)
    BY <1>7, ElementFacts DEF TransferFails, ReadFails
  <2>2. ToSet(sortList') \subseteq ToSet(sortList)
    <3>1. sortList \in Seq(Elements) /\ IsInjective(sortList)
      BY DEF IInv, Typed, TypeOK, OneLoad
    <3>2. ToSet(sortList') = ToSet(sortList) \ {x}
      BY <2>1, <3>1, RemoveFacts, Zenon
    <3> QED
      BY <3>2
  <2>3. \A e \in Elements : Sending(e)' => Sending(e)
    BY <2>1 DEF Sending, TransferFails, ReadFails, IInv, Typed, TypeOK
  <2> QED
    BY <2>1, <2>2, <2>3, LinedShrinks
<1> QED
  BY <1>1, <1>2, <1>3, <1>4, <1>5, <1>6, <1>7 DEF Next, TransferLoop, UnmarshalLoop,
     TransferWorker, LoadWorker

\* What the comment in wait promises holds while no two workers are at once between
\* leaving the list and entering the channel, no file has two elements, and nobody
\* leaves the list out of turn because Shutdown has set stop: the channel has the
\* files in the order of the list.  So these three are its only exceptions.
THEOREM OrderKeptOneByOne == Spec /\ []OneSends => []OrderKept
<1>1. Init => Lined
  <2> SUFFICES ASSUME Init PROVE Lined
    OBVIOUS
  <2> QED
    BY LinedNothing DEF Init
<1>2. IInv /\ Turns /\ Lined /\ OneSends /\ OneSends' /\ [Next]_vars => Lined'
  BY LinedStep
<1>3. Turns /\ Lined => OrderKept
  <2> SUFFICES ASSUME Turns, Lined,
                      NEW i \in DOMAIN entered, NEW j \in DOMAIN entered, i < j
               PROVE  Index(entered[i]) < Index(entered[j])
    BY DEF OrderKept
  <2>1. PICK k, l \in DOMAIN order : order[k] = entered[i] /\ order[l] = entered[j] /\ k < l
    BY DEF Lined, Earlier
  <2>2. \A n \in DOMAIN order : Index(order[n]) = n
    BY DEF Index, Lined, IsInjective
  <2> QED
    BY <2>1, <2>2
<1> QED
  BY <1>1, <1>2, <1>3, Invariance, TurnsStart, TurnsStep, PTL DEF Spec
=============================================================================
