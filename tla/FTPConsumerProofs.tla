-------------------------- MODULE FTPConsumerProofs --------------------------
(***************************************************************************)
(* No record is lost between the shared file, the archive and the servers, *)
(* but in the ways named at RecordKept, for any number of FTP consumers,   *)
(* records, rotations and failures, and any number of archived files kept. *)
(***************************************************************************)
EXTENDS FTPConsumer, FiniteSetTheorems, TLAPS

\* The handlers that may still move the file under the common name: those that
\* have a file open which may be found too long, and those that have found one.
Movers == {f \in Consumers : \/ pc[f] = "write" /\ fd[f] <= MaxLong
                             \/ pc[f] = "rename"}

\* After the last file that is found too long, each new file takes one of them.
Room ==
  created > MaxLong =>
    created + Cardinality(Movers) + (IF current = None THEN 1 ELSE 0)
      <= MaxLong + Cardinality(Consumers) + 1

\* The file of number n had the common name, and has it no more.
Moved(n) == n \in Numbers /\ n <= created /\ n # current

\* What the archive, the zip writers and the checks are at has been moved, and
\* only that is packed.
Archived ==
  /\ \A x \in dir : Moved(x.n)
  /\ \A f \in Consumers : pc[f] \in {"pack", "close"} => Moved(fd[f])
  /\ \A f \in Consumers : check[f] = "remove" => at[f] \in Files /\ Moved(at[f].n)
  /\ \A n \in Numbers : packed[n] # {} => Moved(n)

\* A batch is written to a file.
Opened == \A f \in Consumers : pc[f] = "write" => fd[f] # None

\* A file is packed by the consumer that moved it.
OnePacker ==
  \A f, g \in Consumers :
    pc[f] \in {"pack", "close"} /\ pc[g] \in {"pack", "close"} /\ fd[f] = fd[g] => f = g

\* Until its log is read the zip file is empty, and in the archive unless it is
\* spoiled; a check that is to remove it has spoiled it.
Packable ==
  \A f \in Consumers : pc[f] = "pack" =>
    /\ packed[fd[f]] = {}
    /\ Zip(fd[f]) \in dir \/ fd[f] \in spoiled
    /\ \A g \in Consumers : check[g] = "remove" /\ at[g] = Zip(fd[f]) => fd[f] \in spoiled

\* What a check is to remove is on the server.
Uploaded == \A f \in Consumers : check[f] = "remove" => Holds(at[f]) \subseteq stored \cup excused

IInv == /\ TypeOK /\ Room /\ Archived /\ Opened /\ OnePacker /\ Packable
        /\ Uploaded /\ RecordKept
-----------------------------------------------------------------------------
(* Consumers, files and what they hold *)

LEMMA Sizes ==
  /\ MaxRecords \in Nat /\ MaxFaults \in Nat /\ MaxLong \in Nat /\ MaxLong > 0
  /\ IsFiniteSet(Consumers) /\ Cardinality(Consumers) \in Nat
  /\ None = 0
BY FTPAssumption, FS_CardinalityType DEF None

LEMMA Crowds ==
  ASSUME NEW T, T \subseteq Consumers
  PROVE  /\ IsFiniteSet(T) /\ Cardinality(T) \in Nat
         /\ Cardinality(T) <= Cardinality(Consumers)
         /\ \A S : S \subseteq T => /\ Cardinality(S) \in Nat
                                    /\ Cardinality(S) <= Cardinality(T)
         /\ \A f \in T : Cardinality(T \ {f}) = Cardinality(T) - 1
<1>1. IsFiniteSet(T) /\ Cardinality(T) <= Cardinality(Consumers)
  BY Sizes, FS_Subset
<1>2. Cardinality(T) \in Nat
  BY <1>1, FS_CardinalityType
<1>3. ASSUME NEW S, S \subseteq T
      PROVE  Cardinality(S) \in Nat /\ Cardinality(S) <= Cardinality(T)
  <2>1. IsFiniteSet(S) /\ Cardinality(S) <= Cardinality(T)
    BY <1>1, <1>3, FS_Subset
  <2> QED
    BY <2>1, FS_CardinalityType
<1>4. ASSUME NEW f \in T PROVE Cardinality(T \ {f}) = Cardinality(T) - 1
  BY <1>1, <1>4, FS_RemoveElement
<1> QED
  BY <1>1, <1>2, <1>3, <1>4

LEMMA FileFacts ==
  /\ \A n \in Numbers : /\ Log(n) \in Files /\ Zip(n) \in Files
                        /\ Log(n).n = n /\ Zip(n).n = n
                        /\ Log(n).kind = "log" /\ Zip(n).kind = "zip"
  /\ \A x \in Files : x.n \in Numbers /\ (x = Log(x.n) \/ x = Zip(x.n))
  /\ \A m, n : Log(m) # Zip(n) /\ (Log(m) = Log(n) => m = n) /\ (Zip(m) = Zip(n) => m = n)
BY DEF Files, Log, Zip

\* What a file holds, in the state and in the next one.
LEMMA HoldFacts ==
  /\ \A n : Holds(Log(n)) = content[n] /\ Holds(Zip(n)) = packed[n]
  /\ \A n : Holds(Log(n))' = content'[n] /\ Holds(Zip(n))' = packed'[n]
BY DEF Holds, Log, Zip

\* Files come in numbers that TypeOK bounds.
LEMMA NumberFacts ==
  ASSUME TypeOK
  PROVE  /\ created \in Nat /\ (current = 0 \/ current = created)
         /\ \A n \in Numbers : n \in Nat /\ n > 0 /\ n # None
         /\ dir \subseteq Files
         /\ current # None => current \in Numbers
<1>1. \A n \in Numbers : n \in Nat /\ n > 0 /\ n # None
  BY Sizes DEF Numbers
<1>2. created \in Nat /\ (current = 0 \/ current = created) /\ dir \subseteq Files
  BY <1>1, Sizes DEF TypeOK
<1> QED
  BY <1>1, <1>2, Sizes DEF TypeOK

-----------------------------------------------------------------------------
(* What the steps have in common *)

\* What has been moved stays so.
LEMMA MovedStays ==
  ASSUME TypeOK, created' \in Nat, created <= created',
         current' \in {current, None} \/ created < current'
  PROVE  \A n : Moved(n) => Moved(n)'
<1> SUFFICES ASSUME NEW n, Moved(n) PROVE Moved(n)'
  OBVIOUS
<1>1. n \in Nat /\ n # None /\ n \in Numbers /\ n <= created /\ n # current /\ created \in Nat
  BY NumberFacts DEF Moved
<1>2. n <= created'
  BY <1>1
<1>3. n # current'
  BY <1>1
<1> QED
  BY <1>1, <1>2, <1>3 DEF Moved

\* Room, when no handler is added to those that may move the file.
LEMMA RoomStays ==
  ASSUME Room, created' = created, current' = current, Movers' \subseteq Movers, TypeOK
  PROVE  Room'
<1>1. /\ Cardinality(Movers') \in Nat /\ Cardinality(Movers) \in Nat
      /\ Cardinality(Movers') <= Cardinality(Movers)
  BY Crowds DEF Movers
<1>2. created \in Nat /\ MaxLong \in Nat /\ Cardinality(Consumers) \in Nat
  BY NumberFacts, Sizes
<1> QED
  BY <1>1, <1>2 DEF Room

\* Room, when the one that moves the file leaves them.
LEMMA RoomMove ==
  ASSUME Room, TypeOK, NEW f \in Movers, created' = created, current # None,
         current' = None, Movers' \subseteq Movers \ {f}
  PROVE  Room'
<1>1. /\ Cardinality(Movers \ {f}) = Cardinality(Movers) - 1
      /\ Cardinality(Movers) \in Nat
  BY Crowds DEF Movers
<1>2. /\ Cardinality(Movers') \in Nat
      /\ Cardinality(Movers') <= Cardinality(Movers \ {f})
  <2>1. Movers \ {f} \subseteq Consumers
    BY DEF Movers
  <2> QED
    BY <2>1, Crowds
<1>3. created \in Nat /\ MaxLong \in Nat /\ Cardinality(Consumers) \in Nat
  BY NumberFacts, Sizes
<1> QED
  BY <1>1, <1>2, <1>3 DEF Room

\* Delete takes away the files of X, and what they hold.
LEMMA Deleted ==
  ASSUME TypeOK, NEW X, Delete(X)
  PROVE  /\ dir' = dir \ X
         /\ content' \in [Numbers -> SUBSET Records]
         /\ packed' \in [Numbers -> SUBSET Records]
         /\ \A n \in Numbers : content'[n] \subseteq content[n] /\ packed'[n] \subseteq packed[n]
         /\ \A n \in Numbers : Log(n) \notin X => content'[n] = content[n]
         /\ \A x \in dir \ X : Holds(x)' = Holds(x)
         /\ \A x \in Files : Holds(x)' \subseteq Holds(x)
<1>1. /\ dir' = dir \ X
      /\ \A n \in Numbers : content'[n] = IF Log(n) \in X THEN {} ELSE content[n]
      /\ \A n \in Numbers : packed'[n] = IF Zip(n) \in X THEN {} ELSE packed[n]
  BY DEF Delete
<1>2. /\ content' \in [Numbers -> SUBSET Records]
      /\ packed' \in [Numbers -> SUBSET Records]
  BY DEF Delete, TypeOK
<1>3. \A x \in Files : Holds(x)' \subseteq Holds(x)
  BY <1>1, FileFacts, HoldFacts
<1>4. \A x \in dir \ X : Holds(x)' = Holds(x)
  BY <1>1, FileFacts, HoldFacts, NumberFacts
<1> QED
  BY <1>1, <1>2, <1>3, <1>4

\* os.Remove removes no file but those it is called for.
LEMMA RemovedOnly ==
  ASSUME NEW X
  PROVE  Removed(X) \subseteq X
BY DEF Removed

\* A record is in one of the places RecordKept names.
Somewhere(r) ==
  \/ current # None /\ r \in content[current]
  \/ \E x \in dir : r \in Holds(x)
  \/ r \in stored

LEMMA KeptFacts ==
  /\ RecordKept => \A r \in written \ excused : Somewhere(r)
  /\ (\A r \in written' \ excused' : Somewhere(r)') => RecordKept'
BY DEF RecordKept, Somewhere

LEMMA InitIInv == Init => IInv
<1> SUFFICES ASSUME Init PROVE IInv
  OBVIOUS
<1>1. TypeOK
  BY Sizes DEF Init, TypeOK, NoFile
<1>2. Room
  BY Sizes DEF Init, Room
<1> QED
  BY <1>1, <1>2 DEF Init, IInv, Archived, Opened, OnePacker, Packable, Uploaded, RecordKept

-----------------------------------------------------------------------------
(* HandleEvents *)

LEMMA OpenKeeps ==
  ASSUME IInv, NEW f \in Consumers, Open(f)
  PROVE  IInv'
<1>1. PICK r \in {0, next + 1} \ {MaxRecords + 1} :
        /\ record' = [record EXCEPT ![f] = r]
        /\ next' = IF r = 0 THEN next ELSE r
  BY DEF Open
<1>2. /\ pc[f] = "idle"
      /\ created' = IF current = None THEN created + 1 ELSE created
      /\ current' = created'
      /\ fd' = [fd EXCEPT ![f] = created']
      /\ pc' = [pc EXCEPT ![f] = "write"]
      /\ UNCHANGED <<posix, content, dir, packed, check, todo, at, stored, faults,
                     written, spoiled, excused>>
  BY DEF Open, Goto, archive, checker, history
<1>3. TypeOK /\ created \in Nat /\ (current = 0 \/ current = created) /\ None = 0
  BY NumberFacts, Sizes DEF IInv
<1>4. pc' \in [Consumers -> {"idle", "write", "rename", "pack", "close"}]
  BY <1>2, <1>3 DEF TypeOK
<1>5. \A g \in Consumers : g # f => pc'[g] = pc[g] /\ fd'[g] = fd[g]
  BY <1>2
<1>6. pc'[f] = "write" /\ fd'[f] = created'
  BY <1>2, <1>3 DEF TypeOK
<1>7. /\ Cardinality(Movers) \in Nat /\ Cardinality(Movers') \in Nat
      /\ Cardinality(Movers') <= Cardinality(Consumers)
  <2>1. Movers \subseteq Consumers /\ Movers' \subseteq Consumers
    BY DEF Movers
  <2> QED
    BY <2>1, Crowds
<1>8. created > MaxLong /\ current = None =>
        created + Cardinality(Movers) + 1 <= MaxLong + Cardinality(Consumers) + 1
  BY DEF IInv, Room
<1>9. created' \in Numbers
  <2>1. CASE current = None
    <3>1. CASE created <= MaxLong
      BY <1>2, <1>3, <2>1, <3>1, Sizes DEF Numbers
    <3>2. CASE created > MaxLong
      BY <1>2, <1>3, <1>7, <1>8, <2>1, <3>2, Sizes DEF Numbers
    <3> QED
      BY <1>3, <3>1, <3>2, Sizes
  <2>2. CASE current # None
    BY <1>2, <1>3, <2>2, NumberFacts
  <2> QED
    BY <2>1, <2>2
<1>10. created <= created' /\ created' \in Nat
  BY <1>2, <1>3
<1>11. TypeOK'
  <2>1. record' \in [Consumers -> 0..MaxRecords] /\ next' \in 0..MaxRecords
    <3>1. next \in 0..MaxRecords /\ record \in [Consumers -> 0..MaxRecords]
      BY <1>3 DEF TypeOK
    <3>2. r \in 0..MaxRecords
      BY <1>1, <3>1, Sizes
    <3> QED
      BY <1>1, <3>1, <3>2
  <2>2. fd' \in [Consumers -> Numbers \cup {None}]
    BY <1>2, <1>3, <1>9 DEF TypeOK
  <2>3. dir' \subseteq {x \in Files : x.n <= created'}
    <3>1. \A x \in dir : x \in Files /\ x.n <= created /\ x.n \in Nat
      BY <1>3, NumberFacts, FileFacts DEF TypeOK
    <3> QED
      BY <1>2, <1>3, <1>10, <3>1
  <2> QED
    BY <1>2, <1>3, <1>4, <1>9, <2>1, <2>2, <2>3 DEF TypeOK
<1>12. Room'
  <2>1. CASE current # None
    <3>1. Movers' \subseteq Movers \cup {f}
      BY <1>5 DEF Movers
    <3>2. created' = created /\ current' = current
      BY <1>2, <1>3, <2>1
    <3>3. CASE created > MaxLong
      <4>1. f \notin Movers'
        BY <1>3, <1>6, <3>2, <3>3, Sizes DEF Movers
      <4> QED
        BY <1>3, <3>1, <3>2, <4>1, RoomStays DEF IInv
    <3>4. CASE ~(created > MaxLong)
      BY <3>2, <3>4 DEF Room
    <3> QED
      BY <3>3, <3>4
  <2>2. CASE current = None
    <3>1. created' = created + 1 /\ current' # None
      BY <1>2, <1>3, <2>2
    <3>2. CASE created > MaxLong
      <4>1. f \notin Movers'
        BY <1>3, <1>6, <3>1, <3>2, Sizes DEF Movers
      <4>2. Movers' \subseteq Movers
        BY <1>5, <4>1 DEF Movers
      <4>3. Movers \subseteq Consumers
        BY DEF Movers
      <4>4. Cardinality(Movers') <= Cardinality(Movers)
        BY <4>2, <4>3, Crowds
      <4> QED
        BY <1>3, <1>7, <1>8, <2>2, <3>1, <3>2, <4>4, Sizes DEF Room
    <3>3. CASE created <= MaxLong
      BY <1>3, <1>7, <3>1, <3>3, Sizes DEF Room
    <3> QED
      BY <1>3, <3>2, <3>3, Sizes
  <2> QED
    BY <2>1, <2>2
<1>13. \A n : Moved(n) => Moved(n)'
  <2>1. current' = current \/ created < current'
    BY <1>2, <1>3
  <2> QED
    BY <1>3, <1>10, <2>1, MovedStays
<1>14. Archived'
  BY <1>2, <1>4, <1>5, <1>6, <1>13 DEF IInv, Archived
<1>15. Opened'
  BY <1>3, <1>5, <1>6, <1>9, NumberFacts DEF IInv, Opened
<1>16. OnePacker'
  BY <1>5, <1>6 DEF IInv, OnePacker
<1>17. Packable'
  BY <1>2, <1>5, <1>6 DEF IInv, Packable
<1>18. Uploaded'
  BY <1>2 DEF IInv, Uploaded, Holds
<1>19. RecordKept'
  <2> SUFFICES ASSUME NEW s \in written' \ excused' PROVE Somewhere(s)'
    BY KeptFacts
  <2>1. Somewhere(s)
    BY <1>2, KeptFacts DEF IInv
  <2>2. CASE current # None /\ s \in content[current]
    BY <1>2, <1>3, <2>2 DEF Somewhere
  <2>3. CASE (\E x \in dir : s \in Holds(x)) \/ s \in stored
    BY <1>2, <2>3 DEF Somewhere, Holds
  <2> QED
    BY <2>1, <2>2, <2>3 DEF Somewhere
<1> QED
  BY <1>11, <1>12, <1>14, <1>15, <1>16, <1>17, <1>18, <1>19 DEF IInv

LEMMA WriteKeeps ==
  ASSUME IInv, NEW f \in Consumers, Write(f)
  PROVE  IInv'
<1> DEFINE r == {record[f]} \ {0}
           n == fd[f]
<1>1. /\ pc[f] = "write"
      /\ content' = [content EXCEPT ![n] = @ \cup r]
      /\ written' = written \cup r
      /\ excused' = IF n = current THEN excused ELSE excused \cup r
      /\ record' = [record EXCEPT ![f] = 0]
      /\ UNCHANGED <<posix, next, current, created, dir, packed, todo, at, stored,
                     spoiled>>
      /\ faults' = faults \/ (faults < MaxFaults /\ faults' = faults + 1)
  BY DEF Write, Stat, Faulty, archive
<1>2. /\ fd' = [fd EXCEPT ![f] = None]
      /\ \/ n <= MaxLong /\ pc' = [pc EXCEPT ![f] = "rename"] /\ UNCHANGED check
         \/ pc' = [pc EXCEPT ![f] = "idle"] /\ (UNCHANGED check \/ StartCheck(f))
  BY DEF Write, Stat, Return, Goto
<1>3. TypeOK /\ n \in Numbers /\ n # None
  <2>1. TypeOK /\ n # None
    BY <1>1 DEF IInv, Opened
  <2> QED
    BY <2>1 DEF TypeOK
<1>4. r \subseteq Records /\ content'[n] = content[n] \cup r
      /\ \A m \in Numbers : m # n => content'[m] = content[m]
  <2>1. r \subseteq Records
    BY <1>3, Sizes DEF TypeOK, Records
  <2> QED
    BY <1>1, <1>3, <2>1 DEF TypeOK
<1> HIDE DEF r
<1>5. /\ \A g \in Consumers : g # f => pc'[g] = pc[g] /\ fd'[g] = fd[g]
      /\ pc'[f] \in {"idle", "rename"} /\ (pc'[f] = "rename" => n <= MaxLong)
  BY <1>2, <1>3 DEF TypeOK
<1>6. \A g \in Consumers : check'[g] = check[g] \/ check'[g] = "list"
  BY <1>2, <1>3 DEF StartCheck, TypeOK
<1>7. TypeOK'
  <2>1. content' \in [Numbers -> SUBSET Records] /\ written' \cup excused' \subseteq Records
    BY <1>1, <1>3, <1>4 DEF TypeOK
  <2>2. /\ record' \in [Consumers -> 0..MaxRecords]
        /\ fd' \in [Consumers -> Numbers \cup {None}] /\ faults' \in 0..MaxFaults
    BY <1>1, <1>2, <1>3, Sizes DEF TypeOK
  <2>3. /\ pc' \in [Consumers -> {"idle", "write", "rename", "pack", "close"}]
        /\ check' \in [Consumers -> {"idle", "list", "next", "remove"}]
    BY <1>2, <1>3 DEF TypeOK, StartCheck
  <2> QED
    BY <1>1, <1>3, <2>1, <2>2, <2>3 DEF TypeOK
<1>8. Room'
  <2>1. Movers' \subseteq Movers
    BY <1>1, <1>5 DEF Movers
  <2> QED
    BY <1>1, <1>3, <2>1, RoomStays DEF IInv
<1>9. \A m : Moved(m)' <=> Moved(m)
  BY <1>1 DEF Moved
<1>10. Archived'
  BY <1>1, <1>5, <1>6, <1>9 DEF IInv, Archived
<1>11. Opened'
  BY <1>5 DEF IInv, Opened
<1>12. OnePacker'
  BY <1>5 DEF IInv, OnePacker
<1>13. Packable'
  BY <1>1, <1>5, <1>6 DEF IInv, Packable
<1>14. Uploaded'
  <2> SUFFICES ASSUME NEW g \in Consumers, check'[g] = "remove"
               PROVE  Holds(at[g])' \subseteq stored' \cup excused'
    BY DEF Uploaded
  <2>1. /\ check[g] = "remove" /\ at'[g] = at[g] /\ stored' = stored
        /\ at[g] \in Files /\ Moved(at[g].n) /\ Holds(at[g]) \subseteq stored \cup excused
    BY <1>1, <1>6 DEF IInv, Archived, Uploaded
  <2>2. at[g].n \in Numbers /\ (at[g] = Log(at[g].n) \/ at[g] = Zip(at[g].n))
    BY <2>1, FileFacts
  <2>3. CASE at[g] = Log(n)
    <3>1. n # current
      BY <2>1, <2>3, FileFacts, <1>3 DEF Moved
    <3> QED
      BY <1>1, <1>4, <2>1, <2>3, <3>1, HoldFacts
  <2>4. CASE at[g] # Log(n)
    <3>1. Holds(at[g])' = Holds(at[g])
      BY <1>1, <1>4, <2>1, <2>2, <2>4, HoldFacts
    <3> QED
      BY <1>1, <2>1, <3>1
  <2> QED
    BY <2>3, <2>4
<1>15. RecordKept'
  <2> SUFFICES ASSUME NEW s \in written' \ excused' PROVE Somewhere(s)'
    BY KeptFacts
  <2>1. \A m \in Numbers : content[m] \subseteq content'[m]
    BY <1>4
  <2>2. CASE s \in r
    <3>1. n = current
      BY <1>1, <2>2
    <3> QED
      BY <1>1, <1>3, <1>4, <2>2, <3>1 DEF Somewhere
  <2>3. CASE s \notin r
    <3>1. Somewhere(s)
      BY <1>1, <2>3, KeptFacts DEF IInv
    <3>2. CASE current # None /\ s \in content[current]
      BY <1>1, <1>3, <2>1, <3>2, NumberFacts DEF Somewhere
    <3>3. CASE \E x \in dir : s \in Holds(x)
      <4>1. PICK x \in dir : s \in Holds(x)
        BY <3>3
      <4>2. x.n \in Numbers /\ (x = Log(x.n) \/ x = Zip(x.n))
        BY <1>3, NumberFacts, FileFacts
      <4>3. s \in Holds(x)'
        BY <1>1, <2>1, <4>1, <4>2, HoldFacts
      <4> QED
        BY <1>1, <4>3 DEF Somewhere
    <3>4. CASE s \in stored
      BY <1>1, <3>4 DEF Somewhere
    <3> QED
      BY <3>1, <3>2, <3>3, <3>4 DEF Somewhere
  <2> QED
    BY <2>2, <2>3
<1> QED
  BY <1>7, <1>8, <1>10, <1>11, <1>12, <1>13, <1>14, <1>15 DEF IInv

\* The file under the common name is moved: from the archive on it is the mover's.
LEMMA MoveFacts ==
  ASSUME IInv, NEW f \in Consumers, pc[f] = "rename", current # None, current' = None,
         NEW n, n = current, created' = created, pc' \in [Consumers -> {"idle", "write", "rename", "pack", "close"}],
         \A g \in Consumers : g # f => pc'[g] = pc[g] /\ fd'[g] = fd[g],
         pc'[f] \in {"idle", "pack"}
  PROVE  /\ Room' /\ Opened' /\ n \in Numbers /\ n = created
         /\ \A m : Moved(m) => Moved(m)'
         /\ Moved(n)'
         /\ \A g \in Consumers : pc[g] \in {"pack", "close"} => fd[g] # n
         /\ \A g \in Consumers : check[g] = "remove" => at[g].n # n
         /\ packed[n] = {}
<1>1. TypeOK /\ created \in Nat /\ n \in Numbers /\ n = created /\ n \in Nat /\ n # None
  BY NumberFacts, Sizes DEF IInv
<1>2. Room'
  <2>1. f \in Movers /\ Movers' \subseteq Movers \ {f}
    BY DEF Movers
  <2> QED
    BY <1>1, <2>1, RoomMove DEF IInv
<1>3. Opened'
  BY DEF IInv, Opened
<1>4. \A m : Moved(m) => Moved(m)'
  BY <1>1, MovedStays
<1>5. Moved(n)'
  BY <1>1 DEF Moved
<1>6. /\ \A g \in Consumers : pc[g] \in {"pack", "close"} => fd[g] # n
      /\ \A g \in Consumers : check[g] = "remove" => at[g].n # n
      /\ packed[n] = {}
  BY <1>1 DEF IInv, Archived, Moved
<1> QED
  BY <1>1, <1>2, <1>3, <1>4, <1>5, <1>6

LEMMA RenameKeeps ==
  ASSUME IInv, NEW f \in Consumers, Rename(f), Movable
  PROVE  IInv'
<1>0. PICK n : n = current
  OBVIOUS
<1>1. /\ pc[f] = "rename" /\ n = current /\ n # None /\ current' = None
      /\ dir' = dir \cup {Log(n), Zip(n)}
      /\ fd' = [fd EXCEPT ![f] = n]
      /\ pc' = [pc EXCEPT ![f] = "pack"]
      /\ UNCHANGED <<posix, next, created, content, packed, record, check, todo, at,
                     stored, faults, written, spoiled, excused>>
  BY <1>0 DEF Rename, Movable, Goto, checker, history
<1>2. TypeOK
  BY DEF IInv
<1>3. /\ pc' \in [Consumers -> {"idle", "write", "rename", "pack", "close"}]
      /\ pc'[f] = "pack" /\ fd'[f] = n
      /\ \A g \in Consumers : g # f => pc'[g] = pc[g] /\ fd'[g] = fd[g]
  BY <1>1, <1>2 DEF TypeOK
<1>4. /\ Room' /\ Opened' /\ n \in Numbers /\ n = created
      /\ \A m : Moved(m) => Moved(m)'
      /\ Moved(n)'
      /\ \A g \in Consumers : pc[g] \in {"pack", "close"} => fd[g] # n
      /\ \A g \in Consumers : check[g] = "remove" => at[g].n # n
      /\ packed[n] = {}
  BY <1>1, <1>3, MoveFacts
<1>5. TypeOK'
  <2>1. dir' \subseteq {x \in Files : x.n <= created'}
    <3>1. created \in Nat
      BY <1>2, NumberFacts
    <3>2. /\ Log(n) \in Files /\ Log(n).n <= created
          /\ Zip(n) \in Files /\ Zip(n).n <= created
      BY <1>4, <3>1, FileFacts
    <3> QED
      BY <1>1, <1>2, <3>2 DEF TypeOK
  <2>2. fd' \in [Consumers -> Numbers \cup {None}]
    BY <1>1, <1>2, <1>4 DEF TypeOK
  <2> QED
    BY <1>1, <1>2, <1>3, <2>1, <2>2 DEF TypeOK
<1>6. Archived'
  <2>1. \A x \in dir' : Moved(x.n)'
    BY <1>1, <1>4, FileFacts DEF IInv, Archived
  <2> QED
    BY <1>1, <1>3, <1>4, <2>1 DEF IInv, Archived
<1>7. OnePacker'
  BY <1>3, <1>4 DEF IInv, OnePacker
<1>8. Packable'
  <2> SUFFICES ASSUME NEW g \in Consumers, pc'[g] = "pack"
               PROVE  /\ packed'[fd'[g]] = {}
                      /\ Zip(fd'[g]) \in dir' \/ fd'[g] \in spoiled'
                      /\ \A h \in Consumers : check'[h] = "remove" /\ at'[h] = Zip(fd'[g])
                                                => fd'[g] \in spoiled'
    BY DEF Packable, Zip
  <2>1. CASE g = f
    BY <1>1, <1>3, <1>4, <2>1, FileFacts
  <2>2. CASE g # f
    BY <1>1, <1>3, <2>2 DEF IInv, Packable
  <2> QED
    BY <2>1, <2>2
<1>9. Uploaded'
  BY <1>1 DEF IInv, Uploaded, Holds
<1>10. RecordKept'
  <2> SUFFICES ASSUME NEW s \in written' \ excused' PROVE Somewhere(s)'
    BY KeptFacts
  <2>1. Somewhere(s)
    BY <1>1, KeptFacts DEF IInv
  <2>2. CASE current # None /\ s \in content[current]
    <3>1. s \in Holds(Log(n))'
      BY <1>1, <2>2, HoldFacts
    <3> QED
      BY <1>1, <3>1 DEF Somewhere
  <2>3. CASE (\E x \in dir : s \in Holds(x)) \/ s \in stored
    BY <1>1, <2>3 DEF Somewhere, Holds
  <2> QED
    BY <2>1, <2>2, <2>3 DEF Somewhere
<1> QED
  BY <1>4, <1>5, <1>6, <1>7, <1>8, <1>9, <1>10 DEF IInv

LEMMA CreateFailsKeeps ==
  ASSUME IInv, NEW f \in Consumers, CreateFails(f)
  PROVE  IInv'
<1>0. PICK n : n = current
  OBVIOUS
<1>1. /\ pc[f] = "rename" /\ n = current /\ n # None /\ current' = None
      /\ dir' = dir \cup {Log(n)}
      /\ fd' = [fd EXCEPT ![f] = None]
      /\ pc' = [pc EXCEPT ![f] = "idle"]
      /\ faults < MaxFaults /\ faults' = faults + 1
      /\ UNCHANGED <<posix, next, created, content, packed, record, check, todo, at,
                     stored, written, spoiled, excused>>
  BY <1>0 DEF CreateFails, Movable, Faulty, Return, checker, history
<1>2. TypeOK
  BY DEF IInv
<1>3. /\ pc' \in [Consumers -> {"idle", "write", "rename", "pack", "close"}]
      /\ pc'[f] = "idle" /\ fd'[f] = None
      /\ \A g \in Consumers : g # f => pc'[g] = pc[g] /\ fd'[g] = fd[g]
  BY <1>1, <1>2 DEF TypeOK
<1>4. /\ Room' /\ Opened' /\ n \in Numbers /\ n = created
      /\ \A m : Moved(m) => Moved(m)'
      /\ Moved(n)'
  BY <1>1, <1>3, MoveFacts
<1>5. TypeOK'
  <2>1. dir' \subseteq {x \in Files : x.n <= created'}
    <3>1. created \in Nat
      BY <1>2, NumberFacts
    <3>2. Log(n) \in Files /\ Log(n).n <= created
      BY <1>4, <3>1, FileFacts
    <3> QED
      BY <1>1, <1>2, <3>2 DEF TypeOK
  <2>2. fd' \in [Consumers -> Numbers \cup {None}] /\ faults' \in 0..MaxFaults
    BY <1>1, <1>2, Sizes DEF TypeOK
  <2> QED
    BY <1>1, <1>2, <1>3, <2>1, <2>2 DEF TypeOK
<1>6. Archived'
  <2>1. \A x \in dir' : Moved(x.n)'
    BY <1>1, <1>4, FileFacts DEF IInv, Archived
  <2> QED
    BY <1>1, <1>3, <1>4, <2>1 DEF IInv, Archived
<1>7. OnePacker'
  BY <1>3 DEF IInv, OnePacker
<1>8. Packable'
  BY <1>1, <1>3 DEF IInv, Packable
<1>9. Uploaded'
  BY <1>1 DEF IInv, Uploaded, Holds
<1>10. RecordKept'
  <2> SUFFICES ASSUME NEW s \in written' \ excused' PROVE Somewhere(s)'
    BY KeptFacts
  <2>1. Somewhere(s)
    BY <1>1, KeptFacts DEF IInv
  <2>2. CASE current # None /\ s \in content[current]
    <3>1. s \in Holds(Log(n))'
      BY <1>1, <2>2, HoldFacts
    <3> QED
      BY <1>1, <3>1 DEF Somewhere
  <2>3. CASE (\E x \in dir : s \in Holds(x)) \/ s \in stored
    BY <1>1, <2>3 DEF Somewhere, Holds
  <2> QED
    BY <2>1, <2>2, <2>3 DEF Somewhere
<1> QED
  BY <1>4, <1>5, <1>6, <1>7, <1>8, <1>9, <1>10 DEF IInv

\* A handler returns or closes its zip file, and a check may begin: nothing that is
\* kept is touched.
LEMMA ReturnKeeps ==
  ASSUME IInv, NEW f \in Consumers,
         pc' = [pc EXCEPT ![f] = "idle"], fd' = [fd EXCEPT ![f] = None],
         check' = check \/ StartCheck(f),
         UNCHANGED <<posix, next, current, created, content, dir, record, todo, at,
                     stored, written, spoiled>>,
         faults' \in 0..MaxFaults, packed' \in [Numbers -> SUBSET Records],
         excused' \subseteq Records, excused \subseteq excused',
         \A n \in Numbers : packed'[n] \subseteq packed[n] /\ packed[n] \subseteq packed'[n] \cup excused'
  PROVE  IInv'
<1>1. TypeOK
  BY DEF IInv
<1>2. /\ pc' \in [Consumers -> {"idle", "write", "rename", "pack", "close"}]
      /\ fd' \in [Consumers -> Numbers \cup {None}]
      /\ check' \in [Consumers -> {"idle", "list", "next", "remove"}]
  BY <1>1 DEF TypeOK, StartCheck
<1>3. /\ pc'[f] = "idle" /\ \A g \in Consumers : g # f => pc'[g] = pc[g] /\ fd'[g] = fd[g]
      /\ \A g \in Consumers : check'[g] = check[g] \/ check'[g] = "list"
  BY <1>1 DEF TypeOK, StartCheck
<1>4. TypeOK'
  BY <1>1, <1>2 DEF TypeOK
<1>5. Room'
  <2>1. Movers' \subseteq Movers
    BY <1>3 DEF Movers
  <2> QED
    BY <1>1, <2>1, RoomStays DEF IInv
<1>6. Archived'
  BY <1>3 DEF IInv, Archived, Moved
<1>7. Opened' /\ OnePacker'
  BY <1>3 DEF IInv, Opened, OnePacker
<1>8. Packable'
  <2> SUFFICES ASSUME NEW g \in Consumers, pc'[g] = "pack"
               PROVE  /\ packed'[fd'[g]] = {}
                      /\ Zip(fd'[g]) \in dir' \/ fd'[g] \in spoiled'
                      /\ \A h \in Consumers : check'[h] = "remove" /\ at'[h] = Zip(fd'[g])
                                                => fd'[g] \in spoiled'
    BY DEF Packable, Zip
  <2>1. g # f /\ pc[g] = "pack" /\ fd'[g] = fd[g] /\ packed[fd[g]] = {} /\ fd[g] \in Numbers
    BY <1>3 DEF IInv, Packable, Archived, Moved
  <2>2. packed'[fd'[g]] = {}
    BY <2>1
  <2>3. Zip(fd'[g]) \in dir' \/ fd'[g] \in spoiled'
    BY <2>1 DEF IInv, Packable
  <2>4. \A h \in Consumers : check'[h] = "remove" /\ at'[h] = Zip(fd'[g])
                                => fd'[g] \in spoiled'
    BY <1>3, <2>1 DEF IInv, Packable
  <2> QED
    BY <2>2, <2>3, <2>4
<1>9. \A x \in Files : Holds(x)' \subseteq Holds(x) /\ Holds(x) \subseteq Holds(x)' \cup excused'
  BY FileFacts, HoldFacts
<1>10. Uploaded'
  BY <1>3, <1>9 DEF IInv, Uploaded, Archived
<1>11. RecordKept'
  <2> SUFFICES ASSUME NEW s \in written' \ excused' PROVE Somewhere(s)'
    BY KeptFacts
  <2>1. Somewhere(s)
    BY KeptFacts DEF IInv
  <2>2. CASE \E x \in dir : s \in Holds(x)
    BY <1>1, <1>9, <2>2, NumberFacts DEF Somewhere
  <2>3. CASE (current # None /\ s \in content[current]) \/ s \in stored
    BY <2>3 DEF Somewhere
  <2> QED
    BY <2>1, <2>2, <2>3 DEF Somewhere
<1> QED
  BY <1>4, <1>5, <1>6, <1>7, <1>8, <1>10, <1>11 DEF IInv

LEMMA RenameReturns ==
  ASSUME IInv, NEW f \in Consumers, \/ Rename(f) /\ ~Movable
                                    \/ Pack(f) /\ Log(fd[f]) \notin dir
                                    \/ CloseZip(f) \/ PackFails(f)
  PROVE  IInv'
<1>1. TypeOK
  BY DEF IInv
<1>2. /\ pc' = [pc EXCEPT ![f] = "idle"] /\ fd' = [fd EXCEPT ![f] = None]
      /\ check' = check \/ StartCheck(f)
      /\ UNCHANGED <<posix, next, current, created, content, dir, packed, record, todo, at,
                     stored, written, spoiled, excused>>
      /\ faults' = faults \/ (faults < MaxFaults /\ faults' = faults + 1)
  BY DEF Rename, Pack, PackFails, CloseZip, Return, Faulty, checker, history, local, archive
<1>3. /\ faults' \in 0..MaxFaults /\ packed' \in [Numbers -> SUBSET Records]
      /\ excused' \subseteq Records
  BY <1>1, <1>2, Sizes DEF TypeOK
<1> QED
  BY <1>2, <1>3, ReturnKeeps

LEMMA CloseFailsKeeps ==
  ASSUME IInv, NEW f \in Consumers, CloseFails(f)
  PROVE  IInv'
<1> DEFINE n == fd[f]
<1>1. /\ pc[f] = "close" /\ faults < MaxFaults /\ faults' = faults + 1
      /\ packed' = [packed EXCEPT ![n] = {}] /\ excused' = excused \cup packed[n]
      /\ pc' = [pc EXCEPT ![f] = "idle"] /\ fd' = [fd EXCEPT ![f] = None]
      /\ StartCheck(f)
      /\ UNCHANGED <<posix, next, current, created, content, dir, record, todo, at,
                     stored, written, spoiled>>
  BY DEF CloseFails, Faulty, Return, local
<1>2. TypeOK /\ n \in Numbers
  BY <1>1 DEF IInv, Archived, Moved
<1>3. /\ faults' \in 0..MaxFaults /\ packed' \in [Numbers -> SUBSET Records]
      /\ excused' \subseteq Records /\ excused \subseteq excused'
  <2>1. faults' \in 0..MaxFaults
    BY <1>1, <1>2, Sizes DEF TypeOK
  <2> QED
    BY <1>1, <1>2, <2>1 DEF TypeOK
<1>4. \A m \in Numbers : packed'[m] \subseteq packed[m] /\ packed[m] \subseteq packed'[m] \cup excused'
  BY <1>1, <1>2 DEF TypeOK
<1> QED
  BY <1>1, <1>3, <1>4, ReturnKeeps

LEMMA PackKeeps ==
  ASSUME IInv, NEW f \in Consumers, Pack(f), Log(fd[f]) \in dir
  PROVE  IInv'
<1>0. PICK n : n = fd[f]
  OBVIOUS
<1>1. /\ pc[f] = "pack" /\ Log(n) \in dir
      /\ packed' = [packed EXCEPT ![n] = content[n]]
      /\ content' = [content EXCEPT ![n] = {}]
      /\ dir' = dir \ {Log(n)}
      /\ excused' = IF n \in spoiled THEN excused \cup packed'[n] ELSE excused
      /\ pc' = [pc EXCEPT ![f] = "close"]
      /\ UNCHANGED <<posix, next, current, created, record, fd, check, todo, at, stored,
                     faults, written, spoiled>>
  BY <1>0 DEF Pack, Goto, checker
<1>2. TypeOK /\ n \in Numbers /\ n # current /\ Moved(n) /\ packed[n] = {}
      /\ (Zip(n) \in dir \/ n \in spoiled)
  BY <1>0, <1>1 DEF IInv, Archived, Moved, Packable
<1>3. /\ pc' \in [Consumers -> {"idle", "write", "rename", "pack", "close"}]
      /\ pc'[f] = "close" /\ \A g \in Consumers : g # f => pc'[g] = pc[g]
      /\ fd' = fd /\ check' = check
  BY <1>1, <1>2 DEF TypeOK
<1>4. /\ packed'[n] = content[n] /\ content'[n] = {} /\ content[n] \subseteq Records
      /\ \A m \in Numbers : m # n => packed'[m] = packed[m] /\ content'[m] = content[m]
  BY <1>1, <1>2 DEF TypeOK
<1>5. TypeOK'
  <2>1. /\ content' \in [Numbers -> SUBSET Records] /\ packed' \in [Numbers -> SUBSET Records]
        /\ excused' \subseteq Records
    BY <1>1, <1>2, <1>4 DEF TypeOK
  <2> QED
    BY <1>1, <1>2, <1>3, <2>1 DEF TypeOK
<1>6. Room'
  <2>1. Movers' \subseteq Movers
    BY <1>3 DEF Movers
  <2> QED
    BY <1>1, <1>2, <2>1, RoomStays DEF IInv
<1>7. \A m : Moved(m)' <=> Moved(m)
  BY <1>1 DEF Moved
<1>8. Archived'
  <2>1. \A g \in Consumers : pc'[g] \in {"pack", "close"} => Moved(fd[g])'
    BY <1>0, <1>1, <1>2, <1>3, <1>7 DEF IInv, Archived
  <2>2. \A g \in Consumers : check'[g] = "remove" => at'[g] \in Files /\ Moved(at[g].n)'
    BY <1>1, <1>7 DEF IInv, Archived
  <2>3. \A m \in Numbers : packed'[m] # {} => Moved(m)'
    BY <1>2, <1>4, <1>7 DEF IInv, Archived
  <2>4. \A x \in dir' : Moved(x.n)'
    BY <1>1, <1>7 DEF IInv, Archived
  <2> QED
    BY <2>1, <2>2, <2>3, <2>4 DEF Archived
<1>9. Opened'
  BY <1>3 DEF IInv, Opened
<1>10. OnePacker'
  BY <1>1, <1>3 DEF IInv, OnePacker
<1>11. Packable'
  <2> SUFFICES ASSUME NEW g \in Consumers, pc'[g] = "pack"
               PROVE  /\ packed'[fd'[g]] = {}
                      /\ Zip(fd'[g]) \in dir' \/ fd'[g] \in spoiled'
                      /\ \A h \in Consumers : check'[h] = "remove" /\ at'[h] = Zip(fd'[g])
                                                => fd'[g] \in spoiled'
    BY DEF Packable, Zip
  <2>1. g # f /\ pc[g] = "pack" /\ fd'[g] = fd[g] /\ fd[g] \in Numbers
    BY <1>3 DEF IInv, Archived, Moved
  <2>2. fd[g] # n
    BY <1>0, <1>1, <2>1 DEF IInv, OnePacker
  <2>3. packed'[fd'[g]] = {}
    BY <1>4, <2>1, <2>2 DEF IInv, Packable
  <2>4. Zip(fd'[g]) \in dir' \/ fd'[g] \in spoiled'
    BY <1>1, <2>1, FileFacts DEF IInv, Packable
  <2>5. \A h \in Consumers : check'[h] = "remove" /\ at'[h] = Zip(fd'[g])
                                => fd'[g] \in spoiled'
    BY <1>1, <2>1 DEF IInv, Packable
  <2> QED
    BY <2>3, <2>4, <2>5
<1>12. excused \subseteq excused' /\ (n \in spoiled => content[n] \subseteq excused')
  BY <1>1, <1>4
<1>13. Uploaded'
  <2> SUFFICES ASSUME NEW g \in Consumers, check'[g] = "remove"
               PROVE  Holds(at[g])' \subseteq stored' \cup excused'
    BY DEF Uploaded
  <2>1. /\ check[g] = "remove" /\ at'[g] = at[g] /\ stored' = stored
        /\ at[g] \in Files /\ Holds(at[g]) \subseteq stored \cup excused
    BY <1>1 DEF IInv, Archived, Uploaded
  <2>2. at[g].n \in Numbers /\ (at[g] = Log(at[g].n) \/ at[g] = Zip(at[g].n))
    BY <2>1, FileFacts
  <2>3. CASE at[g] = Zip(n)
    <3>1. n \in spoiled
      BY <1>0, <1>1, <2>1, <2>3 DEF IInv, Packable
    <3> QED
      BY <1>4, <1>12, <2>1, <2>3, <3>1, HoldFacts
  <2>4. CASE at[g] # Zip(n)
    <3>1. Holds(at[g])' \subseteq Holds(at[g])
      BY <1>4, <2>1, <2>2, <2>4, HoldFacts
    <3> QED
      BY <1>12, <2>1, <3>1
  <2> QED
    BY <2>3, <2>4
<1>14. RecordKept'
  <2> SUFFICES ASSUME NEW s \in written' \ excused' PROVE Somewhere(s)'
    BY KeptFacts
  <2>1. Somewhere(s)
    BY <1>1, <1>12, KeptFacts DEF IInv
  <2>2. CASE current # None /\ s \in content[current]
    BY <1>1, <1>2, <1>4, <2>2, NumberFacts DEF Somewhere
  <2>3. CASE \E x \in dir : s \in Holds(x)
    <3>1. PICK x \in dir : s \in Holds(x)
      BY <2>3
    <3>2. x.n \in Numbers /\ (x = Log(x.n) \/ x = Zip(x.n))
      BY <1>2, NumberFacts, FileFacts
    <3>3. CASE x = Log(n)
      <4>1. s \in content[n] /\ Zip(n) \in dir'
        BY <1>1, <1>2, <1>12, <3>1, <3>3, HoldFacts, FileFacts
      <4>2. s \in Holds(Zip(n))'
        BY <1>4, <4>1, HoldFacts
      <4> QED
        BY <4>1, <4>2 DEF Somewhere
    <3>4. CASE x # Log(n)
      <4>1. x # Zip(n)
        BY <1>2, <3>1, HoldFacts
      <4>2. s \in Holds(x)' /\ x \in dir'
        BY <1>1, <1>4, <3>1, <3>2, <3>4, <4>1, HoldFacts
      <4> QED
        BY <4>2 DEF Somewhere
    <3> QED
      BY <3>3, <3>4
  <2>4. CASE s \in stored
    BY <1>1, <2>4 DEF Somewhere
  <2> QED
    BY <2>1, <2>2, <2>3, <2>4 DEF Somewhere
<1> QED
  BY <1>5, <1>6, <1>8, <1>9, <1>10, <1>11, <1>13, <1>14 DEF IInv

-----------------------------------------------------------------------------
(* checkArchiveLog *)

\* A check takes files away: those of X.  Of the zip files among them that are not
\* closed it leaves a mark, and what it takes away is excused or on a server.
LEMMA DeleteKeeps ==
  ASSUME IInv, NEW f \in Consumers, NEW X, X \subseteq Files,
         \A x \in X : x.n # current,
         Delete(X), check'[f] \in {"idle", "list", "next"},
         check' \in [Consumers -> {"idle", "list", "next", "remove"}],
         todo' \in [Consumers -> SUBSET Files], at' \in [Consumers -> Files \cup {NoFile}],
         \A g \in Consumers : g # f => check'[g] = check[g] /\ at'[g] = at[g],
         UNCHANGED <<posix, next, current, created, pc, record, fd, stored, faults, written>>,
         excused \subseteq excused', excused' \subseteq Records,
         spoiled \subseteq spoiled', spoiled' \subseteq Numbers,
         \A x \in X : Holds(x) \subseteq stored \cup excused',
         \A g \in Consumers : pc[g] = "pack" /\ Zip(fd[g]) \in X => fd[g] \in spoiled'
  PROVE  IInv'
<1>1. TypeOK
  BY DEF IInv
<1>2. /\ dir' = dir \ X
      /\ content' \in [Numbers -> SUBSET Records]
      /\ packed' \in [Numbers -> SUBSET Records]
      /\ \A n \in Numbers : content'[n] \subseteq content[n] /\ packed'[n] \subseteq packed[n]
      /\ \A n \in Numbers : Log(n) \notin X => content'[n] = content[n]
      /\ \A x \in dir \ X : Holds(x)' = Holds(x)
      /\ \A x \in Files : Holds(x)' \subseteq Holds(x)
  BY <1>1, Deleted
<1>3. TypeOK'
  BY <1>1, <1>2 DEF TypeOK
<1>4. Room'
  <2>1. Movers' \subseteq Movers
    BY DEF Movers
  <2> QED
    BY <1>1, <2>1, RoomStays DEF IInv
<1>5. \A m : Moved(m)' <=> Moved(m)
  BY DEF Moved
<1>6. Archived'
  <2>1. \A x \in dir' : Moved(x.n)'
    BY <1>2, <1>5 DEF IInv, Archived
  <2>2. \A g \in Consumers : pc'[g] \in {"pack", "close"} => Moved(fd[g])'
    BY <1>5 DEF IInv, Archived
  <2>3. \A g \in Consumers : check'[g] = "remove" => at'[g] \in Files /\ Moved(at[g].n)'
    BY <1>5 DEF IInv, Archived
  <2>4. \A m \in Numbers : packed'[m] # {} => Moved(m)'
    BY <1>2, <1>5 DEF IInv, Archived
  <2> QED
    BY <2>1, <2>2, <2>3, <2>4 DEF Archived
<1>7. Opened' /\ OnePacker'
  BY DEF IInv, Opened, OnePacker
<1>8. Packable'
  <2> SUFFICES ASSUME NEW g \in Consumers, pc'[g] = "pack"
               PROVE  /\ packed'[fd'[g]] = {}
                      /\ Zip(fd'[g]) \in dir' \/ fd'[g] \in spoiled'
                      /\ \A h \in Consumers : check'[h] = "remove" /\ at'[h] = Zip(fd'[g])
                                                => fd'[g] \in spoiled'
    BY DEF Packable, Zip
  <2>1. pc[g] = "pack" /\ fd'[g] = fd[g] /\ fd[g] \in Numbers
    BY DEF IInv, Archived, Moved
  <2>2. packed'[fd'[g]] = {}
    BY <1>2, <2>1 DEF IInv, Packable
  <2>3. Zip(fd'[g]) \in dir' \/ fd'[g] \in spoiled'
    BY <1>2, <2>1 DEF IInv, Packable
  <2>4. \A h \in Consumers : check'[h] = "remove" /\ at'[h] = Zip(fd'[g])
                                => fd'[g] \in spoiled'
    BY <2>1 DEF IInv, Packable
  <2> QED
    BY <2>2, <2>3, <2>4
<1>9. Uploaded'
  <2> SUFFICES ASSUME NEW g \in Consumers, check'[g] = "remove"
               PROVE  Holds(at[g])' \subseteq stored' \cup excused'
    BY DEF Uploaded
  <2>1. /\ g # f /\ check[g] = "remove" /\ at'[g] = at[g]
        /\ at[g] \in Files /\ Holds(at[g]) \subseteq stored \cup excused
    BY DEF IInv, Archived, Uploaded
  <2>2. Holds(at[g])' \subseteq Holds(at[g])
    BY <1>2, <2>1 DEF Holds
  <2> QED
    BY <2>1, <2>2
<1>10. RecordKept'
  <2> SUFFICES ASSUME NEW s \in written' \ excused' PROVE Somewhere(s)'
    BY KeptFacts
  <2>1. Somewhere(s)
    BY KeptFacts DEF IInv
  <2>2. CASE current # None /\ s \in content[current]
    <3>1. Log(current) \notin X /\ current \in Numbers
      BY <1>1, <2>2, NumberFacts, FileFacts
    <3> QED
      BY <1>2, <2>2, <3>1 DEF Somewhere
  <2>3. CASE \E x \in dir : s \in Holds(x)
    <3>1. PICK x \in dir : s \in Holds(x)
      BY <2>3
    <3>2. CASE x \in X
      BY <3>1, <3>2 DEF Somewhere
    <3>3. CASE x \notin X
      BY <1>2, <3>1, <3>3 DEF Somewhere
    <3> QED
      BY <3>2, <3>3
  <2>4. CASE s \in stored
    BY <2>4 DEF Somewhere
  <2> QED
    BY <2>1, <2>2, <2>3, <2>4 DEF Somewhere
<1> QED
  BY <1>3, <1>4, <1>6, <1>7, <1>8, <1>9, <1>10 DEF IInv

LEMMA ListKeeps ==
  ASSUME IInv, NEW f \in Consumers, List(f)
  PROVE  IInv'
<1>1. PICK old \in SUBSET dir :
        /\ todo' = [todo EXCEPT ![f] = dir \ old]
        /\ Delete(Removed(old))
        /\ excused' = excused \cup UNION {Holds(x) : x \in Removed(old)}
        /\ spoiled' = spoiled \cup {n \in Numbers : Zip(n) \in Removed(old) /\ Packing(n)}
  BY DEF List
<1>2. /\ check' = [check EXCEPT ![f] = IF dir = {} THEN "idle" ELSE "next"]
      /\ UNCHANGED <<posix, next, current, created, pc, record, fd, at, stored, faults, written>>
  BY DEF List, Phase, handler
<1>3. TypeOK /\ Removed(old) \subseteq dir /\ dir \subseteq Files
  BY NumberFacts, RemovedOnly DEF IInv
<1> DEFINE X == Removed(old)
<1>4. X \subseteq Files /\ \A x \in X : x.n # current
  BY <1>3 DEF IInv, Archived, Moved
<1>5. /\ check' \in [Consumers -> {"idle", "list", "next", "remove"}]
      /\ check'[f] \in {"idle", "list", "next"}
      /\ \A g \in Consumers : g # f => check'[g] = check[g] /\ at'[g] = at[g]
  BY <1>2, <1>3 DEF TypeOK
<1>6. todo' \in [Consumers -> SUBSET Files] /\ at' \in [Consumers -> Files \cup {NoFile}]
  BY <1>1, <1>2, <1>3 DEF TypeOK
<1>7. excused \subseteq excused' /\ \A x \in X : Holds(x) \subseteq excused'
  BY <1>1
<1>8. excused' \subseteq Records
  <2>1. \A x \in Files : Holds(x) \subseteq Records
    BY <1>3, FileFacts, HoldFacts DEF TypeOK
  <2>2. excused \subseteq Records
    BY <1>3 DEF TypeOK
  <2> QED
    BY <1>1, <1>4, <2>1, <2>2
<1>9. spoiled \subseteq spoiled' /\ spoiled' \subseteq Numbers
  BY <1>1, <1>3 DEF TypeOK
<1>10. ASSUME NEW g \in Consumers, pc[g] = "pack", Zip(fd[g]) \in X
       PROVE  fd[g] \in spoiled'
  <2>1. fd[g] \in Numbers /\ Packing(fd[g])
    BY <1>10 DEF IInv, Archived, Moved, Packing
  <2> QED
    BY <1>1, <1>10, <2>1
<1> QED
  BY <1>1, <1>2, <1>4, <1>5, <1>6, <1>7, <1>8, <1>9, <1>10, DeleteKeeps

LEMMA RemoveKeeps ==
  ASSUME IInv, NEW f \in Consumers, Remove(f)
  PROVE  IInv'
<1> DEFINE X == Removed({at[f]})
<1>1. /\ check[f] = "remove" /\ Delete(X)
      /\ at' = [at EXCEPT ![f] = NoFile]
      /\ check' = [check EXCEPT ![f] = IF todo[f] = {} THEN "idle" ELSE "next"]
      /\ UNCHANGED <<posix, next, current, created, pc, record, fd, todo, stored, faults,
                     written, spoiled, excused>>
  BY DEF Remove, Phase, handler, history
<1>2. TypeOK /\ X \subseteq {at[f]}
  BY RemovedOnly DEF IInv
<1>3. /\ at[f] \in Files /\ at[f].n # current
      /\ Holds(at[f]) \subseteq stored \cup excused
      /\ \A g \in Consumers : pc[g] = "pack" /\ Zip(fd[g]) = at[f] => fd[g] \in spoiled
  BY <1>1 DEF IInv, Archived, Moved, Uploaded, Packable
<1>4. X \subseteq Files /\ (\A x \in X : x.n # current)
      /\ \A x \in X : Holds(x) \subseteq stored \cup excused'
  BY <1>1, <1>2, <1>3
<1>5. /\ check' \in [Consumers -> {"idle", "list", "next", "remove"}]
      /\ check'[f] \in {"idle", "list", "next"}
      /\ at' \in [Consumers -> Files \cup {NoFile}]
      /\ \A g \in Consumers : g # f => check'[g] = check[g] /\ at'[g] = at[g]
  BY <1>1, <1>2 DEF TypeOK
<1>6. /\ todo' \in [Consumers -> SUBSET Files] /\ excused' \subseteq Records
      /\ spoiled' \subseteq Numbers
  BY <1>1, <1>2 DEF TypeOK
<1>7. \A g \in Consumers : pc[g] = "pack" /\ Zip(fd[g]) \in X => fd[g] \in spoiled'
  BY <1>1, <1>2, <1>3
<1> HIDE DEF X
<1> QED
  BY <1>1, <1>4, <1>5, <1>6, <1>7, DeleteKeeps

LEMMA UploadKeeps ==
  ASSUME IInv, NEW f \in Consumers, Upload(f)
  PROVE  IInv'
<1>1. PICK x \in todo[f] \cap dir :
        /\ stored' = stored \cup Data(x)
        /\ IF x.kind = "zip" /\ Packing(x.n)
             THEN spoiled' = spoiled \cup {x.n} /\ excused' = excused \cup packed[x.n]
             ELSE UNCHANGED <<spoiled, excused>>
        /\ at' = [at EXCEPT ![f] = x]
        /\ todo' = [todo EXCEPT ![f] = @ \ {x}]
  BY DEF Upload
<1>2. /\ check' = [check EXCEPT ![f] = "remove"]
      /\ UNCHANGED <<posix, next, current, created, content, dir, packed, pc, record, fd,
                     faults, written>>
  BY DEF Upload, Phase, handler, local, archive
<1>3. TypeOK /\ x \in Files /\ x.n \in Numbers /\ Moved(x.n)
      /\ (x = Log(x.n) \/ x = Zip(x.n))
  BY NumberFacts, FileFacts DEF IInv, Archived
<1>4. /\ check'[f] = "remove" /\ at'[f] = x
      /\ \A g \in Consumers : g # f => check'[g] = check[g] /\ at'[g] = at[g]
  BY <1>1, <1>2, <1>3 DEF TypeOK
<1>5. Holds(x) \subseteq Records
  BY <1>3, HoldFacts DEF TypeOK
<1>6. Holds(x) \subseteq stored' \cup excused'
  <2>1. CASE x.kind = "zip" /\ Packing(x.n)
    <3>1. x = Zip(x.n)
      BY <1>3, <2>1, FileFacts
    <3> QED
      BY <1>1, <2>1, <3>1, HoldFacts
  <2>2. CASE ~(x.kind = "zip" /\ Packing(x.n))
    BY <1>1, <2>2 DEF Data
  <2> QED
    BY <2>1, <2>2
<1>7. /\ stored \subseteq stored' /\ stored' \subseteq Records
      /\ excused \subseteq excused' /\ excused' \subseteq Records
      /\ spoiled \subseteq spoiled' /\ spoiled' \subseteq Numbers
  <2>1. Data(x) \subseteq Records
    BY <1>5 DEF Data
  <2>2. stored \subseteq Records /\ excused \subseteq Records /\ spoiled \subseteq Numbers
        /\ packed[x.n] \subseteq Records
    BY <1>3 DEF TypeOK
  <2> QED
    BY <1>1, <1>3, <2>1, <2>2
<1>8. TypeOK'
  <2>1. /\ check' \in [Consumers -> {"idle", "list", "next", "remove"}]
        /\ todo' \in [Consumers -> SUBSET Files]
        /\ at' \in [Consumers -> Files \cup {NoFile}]
    BY <1>1, <1>2, <1>3 DEF TypeOK
  <2> QED
    BY <1>2, <1>3, <1>7, <2>1 DEF TypeOK
<1>9. Room'
  <2>1. Movers' \subseteq Movers
    BY <1>2 DEF Movers
  <2> QED
    BY <1>2, <1>3, <2>1, RoomStays DEF IInv
<1>10. \A m : Moved(m)' <=> Moved(m)
  BY <1>2 DEF Moved
<1>11. Archived'
  BY <1>2, <1>3, <1>4, <1>10 DEF IInv, Archived
<1>12. Opened' /\ OnePacker'
  BY <1>2 DEF IInv, Opened, OnePacker
<1>13. Packable'
  <2> SUFFICES ASSUME NEW g \in Consumers, pc'[g] = "pack"
               PROVE  /\ packed'[fd'[g]] = {}
                      /\ Zip(fd'[g]) \in dir' \/ fd'[g] \in spoiled'
                      /\ \A h \in Consumers : check'[h] = "remove" /\ at'[h] = Zip(fd'[g])
                                                => fd'[g] \in spoiled'
    BY DEF Packable, Zip
  <2>1. pc[g] = "pack" /\ fd'[g] = fd[g]
    BY <1>2
  <2>2. packed'[fd'[g]] = {} /\ (Zip(fd'[g]) \in dir' \/ fd'[g] \in spoiled')
    BY <1>2, <1>7, <2>1 DEF IInv, Packable
  <2>3. ASSUME NEW h \in Consumers, check'[h] = "remove", at'[h] = Zip(fd[g])
        PROVE  fd[g] \in spoiled'
    <3>1. CASE h = f
      <4>1. x = Zip(fd[g])
        BY <1>4, <2>3, <3>1
      <4>2. x.kind = "zip" /\ x.n = fd[g]
        BY <4>1 DEF Zip
      <4>3. Packing(x.n)
        BY <2>1, <4>2 DEF Packing
      <4> QED
        BY <1>1, <4>2, <4>3
    <3>2. CASE h # f
      BY <1>4, <1>7, <2>1, <2>3, <3>2 DEF IInv, Packable
    <3> QED
      BY <3>1, <3>2
  <2> QED
    BY <2>1, <2>2, <2>3
<1>14. Uploaded'
  <2> SUFFICES ASSUME NEW g \in Consumers, check'[g] = "remove"
               PROVE  Holds(at[g])' \subseteq stored' \cup excused'
    BY DEF Uploaded
  <2>1. Holds(at[g])' = IF at'[g].kind = "log" THEN content[at'[g].n] ELSE packed[at'[g].n]
    BY <1>2 DEF Holds
  <2>2. CASE g = f
    BY <1>4, <1>6, <2>1, <2>2 DEF Holds
  <2>3. CASE g # f
    BY <1>4, <1>7, <2>1, <2>3 DEF IInv, Uploaded, Holds
  <2> QED
    BY <2>2, <2>3
<1>15. RecordKept'
  <2> SUFFICES ASSUME NEW s \in written' \ excused' PROVE Somewhere(s)'
    BY KeptFacts
  <2>1. Somewhere(s)
    BY <1>2, <1>7, KeptFacts DEF IInv
  <2> QED
    BY <1>2, <1>7, <2>1 DEF Somewhere, Holds
<1> QED
  BY <1>8, <1>9, <1>11, <1>12, <1>13, <1>14, <1>15 DEF IInv

LEMMA AbortKeeps ==
  ASSUME IInv, NEW f \in Consumers, ReadFails(f) \/ StoreFails(f)
  PROVE  IInv'
<1>1. /\ check' = [check EXCEPT ![f] = "idle"] /\ todo' = [todo EXCEPT ![f] = {}]
      /\ UNCHANGED <<posix, next, current, created, content, dir, packed, pc, record, fd, at,
                     stored, written, spoiled, excused>>
      /\ faults' = faults \/ (faults < MaxFaults /\ faults' = faults + 1)
  BY DEF ReadFails, StoreFails, Abort, Phase, Faulty, handler, local, archive, history
<1>2. TypeOK
  BY DEF IInv
<1>3. \A g \in Consumers : check'[g] = "remove" => check[g] = "remove"
  BY <1>1, <1>2 DEF TypeOK
<1>4. TypeOK'
  <2>1. /\ check' \in [Consumers -> {"idle", "list", "next", "remove"}]
        /\ todo' \in [Consumers -> SUBSET Files] /\ faults' \in 0..MaxFaults
    BY <1>1, <1>2, Sizes DEF TypeOK
  <2> QED
    BY <1>1, <1>2, <2>1 DEF TypeOK
<1>5. Room'
  <2>1. Movers' \subseteq Movers
    BY <1>1 DEF Movers
  <2> QED
    BY <1>1, <1>2, <2>1, RoomStays DEF IInv
<1>6. Archived'
  BY <1>1, <1>3 DEF IInv, Archived, Moved
<1>7. Opened' /\ OnePacker'
  BY <1>1 DEF IInv, Opened, OnePacker
<1>8. Packable'
  BY <1>1, <1>3 DEF IInv, Packable
<1>9. Uploaded'
  BY <1>1, <1>3 DEF IInv, Uploaded, Holds
<1>10. RecordKept'
  BY <1>1 DEF IInv, RecordKept, Holds
<1> QED
  BY <1>4, <1>5, <1>6, <1>7, <1>8, <1>9, <1>10 DEF IInv

-----------------------------------------------------------------------------
(* Every step *)

LEMMA CrashKeeps ==
  ASSUME IInv, Crash
  PROVE  IInv'
<1>1. /\ faults < MaxFaults /\ faults' = faults + 1
      /\ packed' = [n \in Numbers |-> IF Packing(n) THEN {} ELSE packed[n]]
      /\ excused' = excused \cup UNION {packed[n] : n \in {k \in Numbers : Packing(k)}}
      /\ pc' = [f \in Consumers |-> "idle"] /\ fd' = [f \in Consumers |-> None]
      /\ record' = [f \in Consumers |-> 0]
      /\ check' = [f \in Consumers |-> "idle"] /\ todo' = [f \in Consumers |-> {}]
      /\ at' = [f \in Consumers |-> NoFile]
      /\ UNCHANGED <<posix, next, current, created, content, dir, stored, written, spoiled>>
  BY DEF Crash, Faulty, local
<1>2. TypeOK
  BY DEF IInv
<1>3. \A f \in Consumers : pc'[f] = "idle" /\ check'[f] = "idle"
  BY <1>1
<1>4. \A n \in Numbers : /\ packed'[n] \subseteq packed[n]
                         /\ packed[n] \subseteq packed'[n] \cup excused'
  BY <1>1
<1>5. excused \subseteq excused' /\ excused' \subseteq Records
      /\ packed' \in [Numbers -> SUBSET Records]
  BY <1>1, <1>2 DEF TypeOK
<1>6. TypeOK'
  <2>1. faults' \in 0..MaxFaults
    BY <1>1, <1>2, Sizes DEF TypeOK
  <2>2. /\ pc' \in [Consumers -> {"idle", "write", "rename", "pack", "close"}]
        /\ record' \in [Consumers -> 0..MaxRecords]
        /\ fd' \in [Consumers -> Numbers \cup {None}]
        /\ check' \in [Consumers -> {"idle", "list", "next", "remove"}]
        /\ todo' \in [Consumers -> SUBSET Files]
        /\ at' \in [Consumers -> Files \cup {NoFile}]
    BY <1>1, Sizes
  <2> QED
    BY <1>1, <1>2, <1>5, <2>1, <2>2 DEF TypeOK
<1>7. Room'
  <2>1. Movers' \subseteq Movers
    BY <1>3 DEF Movers
  <2> QED
    BY <1>1, <1>2, <2>1, RoomStays DEF IInv
<1>8. Archived'
  BY <1>1, <1>3, <1>4 DEF IInv, Archived, Moved
<1>9. Opened' /\ OnePacker' /\ Packable' /\ Uploaded'
  BY <1>3 DEF Opened, OnePacker, Packable, Uploaded
<1>10. RecordKept'
  <2> SUFFICES ASSUME NEW s \in written' \ excused' PROVE Somewhere(s)'
    BY KeptFacts
  <2>1. Somewhere(s)
    BY <1>1, <1>5, KeptFacts DEF IInv
  <2>2. CASE \E x \in dir : s \in Holds(x)
    <3>1. PICK x \in dir : s \in Holds(x)
      BY <2>2
    <3>2. x.n \in Numbers /\ (x = Log(x.n) \/ x = Zip(x.n))
      BY <1>2, NumberFacts, FileFacts
    <3>3. s \in Holds(x)'
      BY <1>1, <1>4, <3>1, <3>2, HoldFacts
    <3> QED
      BY <1>1, <3>3 DEF Somewhere
  <2>3. CASE (current # None /\ s \in content[current]) \/ s \in stored
    BY <1>1, <2>3 DEF Somewhere
  <2> QED
    BY <2>1, <2>2, <2>3 DEF Somewhere
<1> QED
  BY <1>6, <1>7, <1>8, <1>9, <1>10 DEF IInv

LEMMA NextIInv ==
  ASSUME IInv, [Next]_vars
  PROVE  IInv'
<1>1. CASE Crash
  BY <1>1, CrashKeeps
<1>2. ASSUME NEW f \in Consumers, Handle(f) PROVE IInv'
  <2>1. CASE Open(f)
    BY <2>1, OpenKeeps
  <2>2. CASE Write(f)
    BY <2>2, WriteKeeps
  <2>3. CASE Rename(f)
    BY <2>3, RenameKeeps, RenameReturns
  <2>4. CASE Pack(f)
    BY <2>4, PackKeeps, RenameReturns
  <2>5. CASE CloseZip(f)
    BY <2>5, RenameReturns
  <2> QED
    BY <1>2, <2>1, <2>2, <2>3, <2>4, <2>5 DEF Handle
<1>3. ASSUME NEW f \in Consumers, Check(f) PROVE IInv'
  BY <1>3, ListKeeps, UploadKeeps, AbortKeeps, RemoveKeeps DEF Check
<1>4. ASSUME NEW f \in Consumers, Fail(f) PROVE IInv'
  BY <1>4, CreateFailsKeeps, RenameReturns, CloseFailsKeeps, AbortKeeps DEF Fail
<1>5. CASE UNCHANGED vars
  BY <1>5 DEF vars, handler, checker, archive, local, history, IInv, TypeOK, Room, Movers,
              Archived, Moved, Opened, OnePacker, Packable, Uploaded, Holds, RecordKept
<1> QED
  BY <1>1, <1>2, <1>3, <1>4, <1>5 DEF Next

LEMMA AlwaysIInv == Spec => []IInv
BY InitIInv, NextIInv, PTL DEF Spec

\* Every variable has its type: in particular the files stay within the numbers
\* that the bounds allow.
THEOREM TypeCorrect == Spec => []TypeOK
<1>1. IInv => TypeOK
  BY DEF IInv
<1> QED
  BY <1>1, AlwaysIInv, PTL

\* HandleEvents and checkArchiveLog, of any number of consumers and across failures
\* and crashes: a record written is in the shared file, in the archive or on a
\* server, but for those excused at RecordKept.
THEOREM RecordKeptCorrect == Spec => []RecordKept
<1>1. IInv => RecordKept
  BY DEF IInv
<1> QED
  BY <1>1, AlwaysIInv, PTL
=============================================================================
