------------------------ MODULE EventLogStateProofs ------------------------
(***************************************************************************)
(* Lemmas about View: what a sequence of updates amounts to.               *)
(***************************************************************************)
EXTENDS EventLogState, TLAPS

\* The last update of a name is unique.
LEMMA LatestUnique ==
  ASSUME NEW log, NEW n \in Nat, NEW m,
         NEW i \in Latest(log, n, m), NEW j \in Latest(log, n, m)
  PROVE  i = j
  BY DEF Latest

\* The update of m that no later one of the first n replaces is the one View takes.
LEMMA LatestIs ==
  ASSUME NEW log, NEW n \in Nat, NEW m, NEW i \in Latest(log, n, m)
  PROVE  /\ i \in 1..n
         /\ \A j \in Latest(log, n, m) : j = i
         /\ (CHOOSE j \in Latest(log, n, m) : TRUE) = i
<1>1. i \in 1..n
  BY DEF Latest
<1>2. \A j \in Latest(log, n, m) : j = i
  BY LatestUnique
<1>3. (CHOOSE j \in Latest(log, n, m) : TRUE) \in Latest(log, n, m)
  OBVIOUS
<1> QED
  BY <1>1, <1>2, <1>3

\* The first n updates decide what the map holds after them, whatever
\* follows.
LEMMA ViewOfPrefix ==
  ASSUME NEW a, NEW b, NEW n \in Nat, \A i \in 1..n : a[i] = b[i]
  PROVE  View(a, n) = View(b, n)
<1>1. \A m : Latest(a, n, m) = Latest(b, n, m)
  BY DEF Latest
<1>2. ASSUME NEW m \in Names
      PROVE  View(a, n)[m] = View(b, n)[m]
  <2>1. CASE Latest(a, n, m) = {}
    BY <1>1, <2>1 DEF View
  <2>2. CASE Latest(a, n, m) # {}
    <3>1. PICK i : i \in Latest(a, n, m)
      BY <2>2
    <3>2. /\ (CHOOSE j \in Latest(a, n, m) : TRUE) = i
          /\ (CHOOSE j \in Latest(b, n, m) : TRUE) = i
          /\ i \in 1..n
      BY <1>1, <3>1, LatestIs
    <3>3. View(a, n)[m] = a[i].pos /\ View(b, n)[m] = b[i].pos
      BY <1>1, <2>2, <3>2 DEF View
    <3> QED
      BY <3>2, <3>3
  <2> QED
    BY <2>1, <2>2
<1> QED
  BY <1>2 DEF View

\* What the updates amount to is a states map.
LEMMA ViewType ==
  ASSUME NEW log \in Seq(Update), NEW n \in 0..Len(log)
  PROVE  View(log, n) \in States
<1>1. ASSUME NEW m \in Names
      PROVE  View(log, n)[m] \in Entry
  <2>1. CASE Latest(log, n, m) = {}
    BY <2>1 DEF View, Entry
  <2>2. CASE Latest(log, n, m) # {}
    <3>1. PICK i : i \in Latest(log, n, m)
      BY <2>2
    <3>2. (CHOOSE j \in Latest(log, n, m) : TRUE) = i /\ i \in 1..n
      BY <3>1, LatestIs
    <3>3. View(log, n)[m] = log[i].pos
      BY <2>2, <3>2 DEF View
    <3>4. log[i] \in Update
      BY <3>2
    <3> QED
      BY <3>3, <3>4 DEF Update, Entry
  <2> QED
    BY <2>1, <2>2
<1> QED
  BY <1>1 DEF View, States

\* No update, no entry.
LEMMA ViewOfNothing ==
  ASSUME NEW log
  PROVE  View(log, 0) = EmptyStates
<1>1. \A m : Latest(log, 0, m) = {}
  BY DEF Latest
<1> QED
  BY <1>1 DEF View, EmptyStates

\* One more update replaces the entry of its name and no other.
LEMMA ViewOfNext ==
  ASSUME NEW log \in Seq(Update), NEW n \in Nat, n + 1 <= Len(log)
  PROVE  View(log, n + 1) =
           [View(log, n) EXCEPT ![log[n + 1].name] = log[n + 1].pos]
<1> DEFINE u == log[n + 1]
<1>1. u \in Update
  OBVIOUS
<1>2. ASSUME NEW m \in Names, m # u.name
      PROVE  Latest(log, n + 1, m) = Latest(log, n, m)
  <2>1. \A i \in 1..(n + 1) : i \in 1..n \/ i = n + 1
    OBVIOUS
  <2>2. \A i \in 1..n : i \in 1..(n + 1)
    OBVIOUS
  <2> QED
    BY <1>2, <2>1, <2>2 DEF Latest
<1>3. ASSUME NEW m \in Names, m # u.name
      PROVE  View(log, n + 1)[m] = View(log, n)[m]
  <2>1. CASE Latest(log, n, m) = {}
    BY <1>2, <1>3, <2>1 DEF View
  <2>2. CASE Latest(log, n, m) # {}
    <3>1. PICK i : i \in Latest(log, n, m)
      BY <2>2
    <3>2. Latest(log, n + 1, m) = Latest(log, n, m)
      BY <1>2, <1>3
    <3>3. /\ (CHOOSE j \in Latest(log, n, m) : TRUE) = i
          /\ (CHOOSE j \in Latest(log, n + 1, m) : TRUE) = i
      BY <3>1, <3>2, LatestIs
    <3>4. View(log, n + 1)[m] = log[i].pos /\ View(log, n)[m] = log[i].pos
      BY <2>2, <3>2, <3>3 DEF View
    <3> QED
      BY <3>4
  <2> QED
    BY <2>1, <2>2
<1>4. View(log, n + 1)[u.name] = u.pos
  <2>1. n + 1 \in Latest(log, n + 1, u.name)
    BY DEF Latest
  <2>2. (CHOOSE j \in Latest(log, n + 1, u.name) : TRUE) = n + 1
    BY <2>1, LatestIs
  <2>3. u.name \in Names
    BY <1>1 DEF Update
  <2> QED
    BY <2>1, <2>2, <2>3 DEF View
<1>5. View(log, n) = [m \in Names |-> View(log, n)[m]]
  BY DEF View
<1>6. View(log, n + 1) = [m \in Names |-> View(log, n + 1)[m]]
  BY DEF View
<1> HIDE DEF u
<1>7. u.name \in Names
  BY <1>1 DEF Update
<1> QED
  BY <1>3, <1>4, <1>5, <1>6, <1>7 DEF u
=============================================================================
