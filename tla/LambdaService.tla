--------------------------- MODULE LambdaService ---------------------------
(***************************************************************************)
(* The REST interface and the event listener on their common database.     *)
(***************************************************************************)
EXTENDS LambdaApi, EventListener

serviceVars == <<apiVars, listenerVars>>

ServiceInit == ApiInit /\ ListenerInit

ServiceNext ==
  \/ ApiNext /\ UNCHANGED listenerVars
  \/ ListenerNext /\ UNCHANGED req

ServiceSpec == ServiceInit /\ [][ServiceNext]_serviceVars

\* The process runs the callbacks, and the broker pushes what it holds; no
\* request, crash or restart has to happen.
ServiceFairness ==
  /\ WF_serviceVars(CallbackStep /\ UNCHANGED req)
  /\ WF_serviceVars(Deliver /\ UNCHANGED dbVars /\ UNCHANGED req)

FairServiceSpec == ServiceSpec /\ ServiceFairness

ServiceTypeOK == ApiTypeOK /\ ListenerTypeOK

----------------------------------------------------------------------------
(* The listener implements Delivery. *)

Numbers(messages) == {messages[i].num : i \in DOMAIN messages}

WaitingEvents ==
  Numbers(queue) \union Numbers(buffer)
    \union IF lst.pc \in Stages THEN {lst.msg.num} ELSE {}

StartedEvents == {jobs[i].event.num : i \in DOMAIN jobs}

D == INSTANCE Delivery WITH
       published <- sent, waiting <- WaitingEvents, started <- StartedEvents
=============================================================================
