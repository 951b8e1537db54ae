--------------------------- MODULE ExecProperties ---------------------------
(***************************************************************************)
(* What the threads and the scripts guarantee of the executions, on a      *)
(* cluster of fixed size and on one that the autoscaler resizes.           *)
(***************************************************************************)
EXTENDS LambdaExec

\* Retries, killed listeners, failing commands and deleted nodes never leave a
\* container behind unnoticed: one that outlives its script makes the script
\* fail, which ends the thread with an exception, and no execution ever has
\* two containers.
LeaksAreReported ==
  \A e \in Runs :
    /\ Cardinality(ContainersOf(e)) <= 1
    /\ ContainersOf(e) # {} =>
         scr[e].pc \in ScriptStages \/ scr[e].status = 1

\* The retry loop repeats an execution only when its container could not be
\* created, so a function runs at most once for an event, also when its node
\* is deleted; the exception is a function that prints the marker itself.
RunsOnce == \A e \in Runs \ Noisy : Len(ran[e]) <= 1

\* No two scripts write the log of one execution: a thread starts the next
\* attempt when the script of the last one is over, and a thread whose process
\* was killed leaves its script to finish alone.
OneScriptAtATime ==
  \A e \in Runs :
    scr[e].pc \in ScriptStages => thr[e].pc \in {"waiting", "killed"}

\* Executions as the abstract specification sees them: how far the last run of
\* swarm_exec.sh is, and what the thread reports.
Phase(s) ==
  CASE s.pc = "none" -> "none"
    [] s.pc = "create" -> "trying"
    [] s.pc \in {"inspect", "copy", "write", "start", "exec"} -> "reserved"
    [] s.pc = "running" -> "running"
    [] s.pc \in {"stop", "remove"} -> "stopping"
    [] s.pc = "done" /\ s.status = 0 -> "over"
    [] s.pc = "done" /\ s.status = 1 -> "broken"

Report(t) == IF t.pc \in {"waiting", "sleeping"} THEN "pending" ELSE t.pc
Attempts(t) == IF t.pc = "none" THEN 0 ELSE t.n + 1

X == INSTANCE Execution WITH
       Executions <- Runs, Tries <- MaxRetries + 1, Repeatable <- Noisy,
       phase <- [e \in Runs |-> Phase(scr[e])],
       tries <- [e \in Runs |-> Attempts(thr[e])],
       held <- {e \in Runs : ContainersOf(e) # {}},
       runs <- [e \in Runs |-> Len(ran[e])],
       report <- [e \in Runs |-> Report(thr[e])]

\* The loop of __execute_lambda around swarm_exec.sh, with commands that fail,
\* nodes that are deleted and a listener that is killed, is a sequence of
\* attempts as Execution describes it: bounded, one after the other, the
\* function run once, and nothing repeated or reported as executed after an
\* attempt that may have left its container behind.
ImplementsExecution == X!ExecutionSpec

\* README.md: the resources are released as soon as the execution ends, also
\* when the listener, and with it the thread, is gone.
ContainersReleased ==
  \A e \in Runs : ContainersOf(e) # {} ~> ContainersOf(e) = {}

\* Every thread comes to an end: there is always room in the end, or the
\* attempts are used up.
ThreadsEnd ==
  \A e \in Runs :
    thr[e].pc = "waiting" ~> thr[e].pc \in {"executed", "gaveUp", "failed",
                                            "killed"}

=============================================================================
