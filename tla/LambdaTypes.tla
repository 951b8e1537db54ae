---------------------------- MODULE LambdaTypes ----------------------------
(***************************************************************************)
(* The values the parts of Lambda-on-OpenStack exchange.                   *)
(***************************************************************************)
EXTENDS Naturals, FiniteSets

CONSTANTS
  Users,      \* user names
  FileNames,  \* names of uploaded functions
  Sources,    \* event sources
  Types,      \* event types
  Memories,   \* memory sizes a registration may ask for, 0 when absent
  MaxId,      \* bound: ObjectIds handed out
  MaxChunks,  \* bound: chunks of one uploaded file
  MaxEvents   \* bound: events published

ASSUME TypesAssumption ==
  /\ Memories \subseteq Nat
  /\ MaxId \in Nat \ {0}
  /\ MaxChunks \in Nat \ {0}
  /\ MaxEvents \in Nat

Ids == 1..MaxId

\* Events are numbered in the order of their publication; the log_uuid of
\* the execution an event leads to is the number of the event.
Runs == 1..MaxEvents
NoRun == 0

Event == [num : Runs, user : Users, file : FileNames, source : Sources,
          etype : Types]

\* What a function file on a host holds: the code of the upload id, written
\* while event by was handled; id = 0 when the file is empty or missing.
Code == [by : Runs \union {NoRun}, id : Ids \union {0}]
NoCode == [by |-> NoRun, id |-> 0]
=============================================================================
