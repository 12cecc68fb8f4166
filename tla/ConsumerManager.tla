--------------------------- MODULE ConsumerManager ---------------------------
(***************************************************************************)
(* The loop of a topic in consumer/consumer.go: it takes a batch from the  *)
(* topic's channel, has every consumer of the topic handle it in a         *)
(* goroutine of its own, and waits for all of them.  After Shutdown it     *)
(* goes on: the break of its select does not leave the for, and from the   *)
(* closed channel it takes one nil batch after the other.                  *)
(***************************************************************************)
EXTENDS Sequences, FiniteSets

CONSTANTS
  Consumers,  (* binder.consumes                                            *)
  Nil         (* what a closed and empty channel gives                      *)

VARIABLES
  events,     (* binder.events, the records of a reader                     *)
  closed,     (* that channel is closed                                     *)
  current,    (* the batch the loop has taken                               *)
  busy,       (* the consumers in HandleEvents(current)                     *)
  spinning,   (* those of them that will never leave it                     *)
  handled,    (* of each consumer: the batches it has handled               *)
  stopped     (* stopChan[topic] has a value or is closed                   *)

managerVars == <<current, busy, spinning, handled, stopped>>

Init ==
  /\ current = Nil /\ busy = {} /\ spinning = {}
  /\ handled = [c \in Consumers |-> <<>>]
  /\ stopped = FALSE

\* Mutant: the wait group is left out.
TakeUnawaited ==
  /\ events # <<>>
  /\ current' = Head(events)
  /\ events' = Tail(events)
  /\ busy' = Consumers
  /\ UNCHANGED <<closed, spinning, handled, stopped>>

Take ==
  /\ busy = {} /\ events # <<>>
  /\ current' = Head(events)
  /\ events' = Tail(events)
  /\ busy' = Consumers
  /\ UNCHANGED <<closed, spinning, handled, stopped>>

TakeNil ==
  /\ busy = {} /\ events = <<>> /\ closed
  /\ current' = Nil
  /\ busy' = Consumers
  /\ UNCHANGED <<events, closed, spinning, handled, stopped>>

\* HandleEvents returns, with an error or without.
Finish(c) ==
  /\ c \in busy \ spinning
  /\ busy' = busy \ {c}
  /\ handled' = IF current = Nil THEN handled
                                 ELSE [handled EXCEPT ![c] = Append(@, current)]
  /\ UNCHANGED <<events, closed, current, spinning, stopped>>

\* HandleEvents of a syslog consumer never returns if a chunk of the batch is not
\* newer than its position (SyslogConsumer says when).  The topic waits for it.
Spin(c) ==
  /\ c \in busy \ spinning /\ current # Nil
  /\ spinning' = spinning \cup {c}
  /\ UNCHANGED <<events, closed, current, busy, handled, stopped>>

\* What the loop receives from stopChan changes nothing.  Shutdown also has the
\* consumers shut down, each in a goroutine of its own.
Shutdown ==
  /\ ~stopped
  /\ stopped' = TRUE
  /\ UNCHANGED <<events, closed, current, busy, spinning, handled>>
=============================================================================
