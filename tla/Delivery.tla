------------------------------ MODULE Delivery ------------------------------
(***************************************************************************)
(* What the path from the event sources to the execution threads promises: *)
(* an event starts at most one execution, executions start in the order in *)
(* which the events were published, and events may get lost.               *)
(***************************************************************************)
EXTENDS Naturals

CONSTANT MaxEvents

VARIABLES
  published,  \* number of events published so far
  waiting,    \* the events that can still start an execution
  started     \* the events that have started one

deliveryVars == <<published, waiting, started>>

DeliveryInit == published = 0 /\ waiting = {} /\ started = {}

Send ==
  /\ published < MaxEvents
  /\ published' = published + 1
  /\ waiting' = waiting \union {published + 1}
  /\ UNCHANGED started

\* The oldest event that is still waiting starts its execution.
Start(e) ==
  /\ e \in waiting
  /\ \A w \in waiting : e <= w
  /\ waiting' = waiting \ {e}
  /\ started' = started \union {e}
  /\ UNCHANGED published

\* Events with no function are dropped, failures lose some.
Lose(lost) ==
  /\ waiting' = waiting \ lost
  /\ UNCHANGED <<published, started>>

DeliveryNext ==
  \/ Send
  \/ \E e \in waiting : Start(e)
  \/ \E lost \in SUBSET waiting : Lose(lost)

DeliverySpec == DeliveryInit /\ [][DeliveryNext]_deliveryVars

----------------------------------------------------------------------------
\* No event starts a second execution, and none starts after a later one.
InOrderOnce ==
  /\ waiting \intersect started = {}
  /\ \A w \in waiting, e \in started : e < w
  /\ waiting \union started \subseteq 1..published
=============================================================================
