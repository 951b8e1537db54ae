----------------------------- MODULE Execution -----------------------------
(***************************************************************************)
(* What an accepted event is promised: attempts to execute its function, a *)
(* bounded number and one after the other, each of which reserves at most  *)
(* one container and runs the function in it at most once; a report in the *)
(* end; and no attempt after one that ran the function or left something   *)
(* behind.  Machines may disappear, with what is reserved on them, and the *)
(* one who watches the attempts may be killed.                             *)
(***************************************************************************)
EXTENDS Naturals

CONSTANTS
  Executions,
  Tries,      \* the attempts there may be
  Repeatable  \* executions whose function can ask for another attempt

VARIABLES
  phase,   \* how far the last attempt of an execution is: over when it has
           \* ended in order, broken when it has not
  tries,   \* the attempts of an execution so far
  held,    \* the executions that something is reserved for
  runs,    \* how often the function of an execution has run
  report   \* what is said of an execution in the end

executionVars == <<phase, tries, held, runs, report>>

ExecutionInit ==
  /\ phase = [e \in Executions |-> "none"]
  /\ tries = [e \in Executions |-> 0]
  /\ held = {}
  /\ runs = [e \in Executions |-> 0]
  /\ report = [e \in Executions |-> "none"]

----------------------------------------------------------------------------
\* An attempt.
GoesTo(e, p) == phase' = [phase EXCEPT ![e] = p]

Refuse(e) ==
  /\ phase[e] = "trying" /\ GoesTo(e, "over")
  /\ UNCHANGED <<tries, held, runs, report>>

Reserve(e) ==
  /\ phase[e] = "trying" /\ GoesTo(e, "reserved")
  /\ held' = held \union {e}
  /\ UNCHANGED <<tries, runs, report>>

Run(e) ==
  /\ phase[e] = "reserved" /\ e \in held /\ GoesTo(e, "running")
  /\ runs' = [runs EXCEPT ![e] = @ + 1]
  /\ UNCHANGED <<tries, held, report>>

Leave(e) ==
  /\ phase[e] \in {"reserved", "running"} /\ GoesTo(e, "stopping")
  /\ UNCHANGED <<tries, held, runs, report>>

Release(e) ==
  /\ phase[e] = "stopping" /\ GoesTo(e, "over")
  /\ held' = held \ {e}
  /\ UNCHANGED <<tries, runs, report>>

Break(e) ==
  /\ phase[e] = "stopping" /\ GoesTo(e, "broken")
  /\ UNCHANGED <<tries, held, runs, report>>

Attempt(e) ==
  Refuse(e) \/ Reserve(e) \/ Run(e) \/ Leave(e) \/ Release(e) \/ Break(e)

----------------------------------------------------------------------------
\* The one who watches the attempts: only one that ended in order is followed
\* by another.
Accept(e) ==
  /\ report[e] = "none" /\ phase[e] = "none" /\ GoesTo(e, "trying")
  /\ tries' = [tries EXCEPT ![e] = 1]
  /\ report' = [report EXCEPT ![e] = "pending"]
  /\ UNCHANGED <<held, runs>>

Again(e) ==
  /\ report[e] = "pending" /\ phase[e] = "over" /\ GoesTo(e, "trying")
  /\ tries[e] < Tries
  /\ runs[e] = 0 \/ e \in Repeatable
  /\ tries' = [tries EXCEPT ![e] = @ + 1]
  /\ UNCHANGED <<held, runs, report>>

Tell(e, what) ==
  /\ report[e] = "pending"
  /\ \/ phase[e] = "broken" /\ what = "failed"
     \/ phase[e] = "over" /\ tries[e] = Tries /\ what = "gaveUp"
     \/ phase[e] = "over" /\ tries[e] < Tries /\ what = "executed"
  /\ report' = [report EXCEPT ![e] = what]
  /\ UNCHANGED <<phase, tries, held, runs>>

Reports == {"executed", "gaveUp", "failed"}

\* Killed, after which the attempts in progress end unwatched.
Kill ==
  /\ report' = [e \in Executions |-> IF report[e] = "pending" THEN "killed"
                                     ELSE report[e]]
  /\ UNCHANGED <<phase, tries, held, runs>>

Vanish ==
  /\ held' \subseteq held
  /\ UNCHANGED <<phase, tries, runs, report>>

ExecutionNext ==
  \/ \E e \in Executions :
       \/ Accept(e) \/ Attempt(e) \/ Again(e)
       \/ \E what \in Reports : Tell(e, what)
  \/ Kill
  \/ Vanish

ExecutionSpec == ExecutionInit /\ [][ExecutionNext]_executionVars

=============================================================================
