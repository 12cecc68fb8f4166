------------------------------- MODULE FanOut -------------------------------
(***************************************************************************)
(* What consumer.Manager promises for a topic: each of its consumers is    *)
(* given all batches of the topic's channel, in their order and once, and  *)
(* none of them gets a batch before every other one has had the one before *)
(* it.                                                                     *)
(***************************************************************************)
EXTENDS Sequences, Naturals

CONSTANTS Consumers, Batches

VARIABLES
  log,  (* the batches put in the channel so far                            *)
  got   (* of each consumer: the batches it has handled                     *)

Init == log = <<>> /\ got = [c \in Consumers |-> <<>>]

Publish == \E b \in Batches : log' = Append(log, b) /\ UNCHANGED got

\* c handles the batch after those it has had.
Deliver(c) ==
  /\ Len(got[c]) < Len(log)
  /\ \A d \in Consumers : Len(got[c]) <= Len(got[d])
  /\ got' = [got EXCEPT ![c] = Append(@, log[Len(@) + 1])]
  /\ UNCHANGED log

Next == Publish \/ \E c \in Consumers : Deliver(c)

Spec == Init /\ [][Next]_<<log, got>>
=============================================================================
