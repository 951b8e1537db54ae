--------------------------- MODULE LambdaPlatform ---------------------------
(***************************************************************************)
(* The REST interface, the event listener and the execution of functions,  *)
(* on a cluster of fixed size.  The threads live in the listener process.  *)
(***************************************************************************)
EXTENDS LambdaService, LambdaExec

platformVars == <<serviceVars, execVars, swarmVars>>

PlatformInit == ServiceInit /\ ExecInit /\ SwarmInit

\* The thread of the job that the listener has just appended starts with it;
\* when the process ends, its threads end.
ThreadsFollow ==
  IF Len(jobs') > Len(jobs)
  THEN LET job == jobs'[Len(jobs')]
       IN  StartThread(job.event.num, job.file, job.memory)
  ELSE IF lst'.pc = "down" THEN ThreadsDie
  ELSE UNCHANGED execVars

PlatformNext ==
  \/ ApiNext /\ UNCHANGED <<listenerVars, execVars, swarmVars>>
  \/ ListenerNext /\ ThreadsFollow /\ UNCHANGED <<req, swarmVars>>
  \/ ExecNext /\ UNCHANGED <<apiVars, sent, queue, buffer, lst, jobs>>

PlatformSpec == PlatformInit /\ [][PlatformNext]_platformVars
=============================================================================
