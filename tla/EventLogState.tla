--------------------------- MODULE EventLogState ---------------------------
(***************************************************************************)
(* The data of package checkpoint: the positions of the event logs         *)
(* (EventLogState in the code), the updates PersistState is called with,   *)
(* and what a sequence of updates amounts to once it has been applied.     *)
(*                                                                         *)
(* A position stands for RecordNumber, Timestamp, MD5 and Bookmark taken   *)
(* together: the checkpoint never looks inside them.                       *)
(***************************************************************************)
EXTENDS Integers, Sequences

CONSTANTS
  Names,      (* names of the event logs, the keys of the states map        *)
  Positions,  (* the positions an event log can be at                       *)
  Callers,    (* goroutines that call PersistState                          *)
  NoState     (* "the map has no entry for this name"                       *)

ASSUME NoStateAssumption == NoState \notin Positions

Entry  == Positions \cup {NoState}

\* What the states map, and the file, may hold.
States == [Names -> Entry]

\* One call of PersistState.
Update == [caller : Callers, name : Names, pos : Positions]

EmptyStates == [m \in Names |-> NoState]

\* The index of the last update of name m among the first n of log: a set
\* with at most one member.
Latest(log, n, m) ==
  {i \in 1..n : log[i].name = m /\ \A j \in 1..n : i < j => log[j].name # m}

\* The states map after the first n updates of log, applied in order to an
\* empty map.
View(log, n) ==
  [m \in Names |-> IF Latest(log, n, m) = {}
                     THEN NoState
                     ELSE log[CHOOSE i \in Latest(log, n, m) : TRUE].pos]
=============================================================================
