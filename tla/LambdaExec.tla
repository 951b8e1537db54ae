----------------------------- MODULE LambdaExec -----------------------------
(***************************************************************************)
(* The execution of functions: the threads Provision.__execute_lambda in   *)
(* the listener process, and the script swarm_exec.sh that a thread starts *)
(* as a process of its own, waits for, and starts again while its output   *)
(* contains "ERROR:::".  The script goes on by itself when the listener    *)
(* process, and with it the thread, is gone.                               *)
(*                                                                         *)
(* Definitions named X_Y are faulty variants of X that the properties must *)
(* tell from X; no specification uses them.                                *)
(***************************************************************************)
EXTENDS Swarm, MasterHost, Sequences

CONSTANTS
  MaxRetries,  \* the attempts after the first one, 10 in the code
  Noisy,       \* executions whose function prints "ERROR:::" to stderr
  Faults       \* the docker commands that may fail for reasons of their own

ASSUME ExecAssumption ==
  /\ MaxRetries \in Nat
  /\ Noisy \subseteq Runs
  /\ Faults \subseteq {"create", "start", "remove"}

VARIABLES
  thr,   \* thr[e]: the thread of execution e
  scr,   \* scr[e]: the process swarm_exec.sh of execution e
  ran,   \* ran[e]: the code that ran for execution e, attempt by attempt
  logs   \* executions with a file log/<name>_<uuid>.log

execVars == <<thr, scr, ran, logs>>

NoThread == [pc |-> "none", n |-> 0]
Thread ==
  {NoThread} \union
  [pc : {"waiting", "sleeping", "executed", "gaveUp", "failed", "killed"},
   n : 0..MaxRetries, file : FileNames, memory : Nat]

\* The stages of a run of swarm_exec.sh; target is the node that docker
\* inspect reported, none if it failed, code what scp has read.
ScriptStages == {"create", "inspect", "copy", "write", "start", "exec",
                 "running", "stop", "remove"}
NoScript == [pc |-> "none", target |-> {}, code |-> NoCode, error |-> FALSE,
             status |-> 0]
Script == [pc : ScriptStages \union {"none", "done"},
           target : SUBSET Nodes, code : Code, error : BOOLEAN,
           status : {0, 1}]

ExecTypeOK ==
  /\ SwarmTypeOK
  /\ HostTypeOK
  /\ thr \in [Runs -> Thread]
  /\ scr \in [Runs -> Script]
  /\ ran \in [Runs -> Seq(Code)]
  /\ logs \subseteq Runs

ExecInit ==
  /\ thr = [e \in Runs |-> NoThread]
  /\ scr = [e \in Runs |-> NoScript]
  /\ ran = [e \in Runs |-> <<>>]
  /\ logs = {}

----------------------------------------------------------------------------
(* Provision.__execute_lambda *)

FreshScript == [NoScript EXCEPT !.pc = "create"]

\* start_new_thread; the thread starts the script and waits for its output.
StartThread(e, f, m) ==
  /\ thr' = [thr EXCEPT ![e] = [pc |-> "waiting", n |-> 0, file |-> f,
                                memory |-> m]]
  /\ scr' = [scr EXCEPT ![e] = FreshScript]
  /\ UNCHANGED <<ran, logs>>

ThreadGoesTo(e, stage) == thr' = [thr EXCEPT ![e].pc = stage]

ThreadChecks_NoLimit(e) ==
  /\ thr[e].pc = "waiting"
  /\ scr[e].pc = "done"
  /\ ThreadGoesTo(e, IF scr[e].status = 1 THEN "failed"
                     ELSE IF scr[e].error THEN "sleeping" ELSE "executed")
  /\ UNCHANGED <<scr, ran, logs>>

ThreadChecks_RetriesFailures(e) ==
  /\ thr[e].pc = "waiting"
  /\ scr[e].pc = "done"
  /\ ThreadGoesTo(e, IF thr[e].n = MaxRetries THEN "gaveUp"
                     ELSE IF scr[e].error \/ scr[e].status = 1
                     THEN "sleeping" ELSE "executed")
  /\ UNCHANGED <<scr, ran, logs>>

ThreadChecks_NoWait(e) ==
  /\ thr[e].pc = "waiting"
  /\ ThreadGoesTo(e, IF scr[e].error THEN "sleeping" ELSE "executed")
  /\ UNCHANGED <<scr, ran, logs>>

\* check_output raises, which ends the thread, or returns: the loop ends after
\* the last attempt, whatever it printed; otherwise output with the marker
\* leads to another attempt, and output without it is reported as "deployed
\* and executed the lambda function".
ThreadChecks(e) ==
  /\ thr[e].pc = "waiting"
  /\ scr[e].pc = "done"
  /\ ThreadGoesTo(e, CASE scr[e].status = 1 -> "failed"
                       [] scr[e].status = 0 /\ thr[e].n = MaxRetries -> "gaveUp"
                       [] scr[e].status = 0 /\ thr[e].n < MaxRetries ->
                            IF scr[e].error THEN "sleeping" ELSE "executed")
  /\ UNCHANGED <<scr, ran, logs>>

ThreadRetries_Uncounted(e) ==
  /\ thr[e].pc = "sleeping"
  /\ thr' = [thr EXCEPT ![e].pc = "waiting"]
  /\ scr' = [scr EXCEPT ![e] = FreshScript]
  /\ UNCHANGED <<ran, logs>>

\* After 15 seconds.
ThreadRetries(e) ==
  /\ thr[e].pc = "sleeping"
  /\ thr' = [thr EXCEPT ![e].pc = "waiting", ![e].n = @ + 1]
  /\ scr' = [scr EXCEPT ![e] = FreshScript]
  /\ UNCHANGED <<ran, logs>>

\* The listener process ends: so do its threads, but not the scripts.
ThreadsDie ==
  /\ thr' = [e \in Runs |-> IF thr[e].pc \in {"waiting", "sleeping"}
                             THEN [thr[e] EXCEPT !.pc = "killed"]
                             ELSE thr[e]]
  /\ UNCHANGED <<scr, ran, logs>>

----------------------------------------------------------------------------
(* swarm_exec.sh, one command a step; only the output of docker create is  *)
(* looked at.                                                              *)

ScriptGoesTo(e, stage) == scr' = [scr EXCEPT ![e].pc = stage]

\* Whether a docker command that has what it needs succeeds.
Outcomes(command) == {ok \in BOOLEAN : ok \/ command \in Faults}

\* docker create prints the id of the container, or an error: no node has
\* room, a daemon refuses, or the manager picks a node that is gone.  The
\* script echoes the error behind "ERROR:::".
ScriptCreates(e) ==
  /\ scr[e].pc = "create"
  /\ \E ok \in Outcomes("create") \union {listed \subseteq joined} :
       IF ok /\ Fitting(thr[e].memory) # {}
       THEN CreateContainer(e, thr[e].memory) /\ ScriptGoesTo(e, "inspect")
       ELSE /\ scr' = [scr EXCEPT ![e].pc = "done", ![e].error = TRUE]
            /\ UNCHANGED containers
  /\ UNCHANGED <<thr, ran, logs, nodeVars, nodeFile>>

\* docker inspect: the address of the container's node.
ScriptInspects(e) ==
  /\ scr[e].pc = "inspect"
  /\ scr' = [scr EXCEPT ![e].pc = "copy",
                        ![e].target = {c.node : c \in ContainersOf(e)}]
  /\ UNCHANGED <<thr, ran, logs, swarmVars>>

\* scp is put in the background, and nobody waits for it.
ScriptCopies_NotAwaited(e) ==
  /\ scr[e].pc = "copy"
  /\ ScriptGoesTo(e, "start")
  /\ UNCHANGED <<thr, ran, logs, swarmVars>>

\* scp reads the function from the master ...
ScriptCopies(e) ==
  /\ scr[e].pc = "copy"
  /\ IF scr[e].target \intersect joined = {}
     THEN ScriptGoesTo(e, "start")
     ELSE scr' = [scr EXCEPT ![e].pc = "write",
                             ![e].code = disk[thr[e].file]]
  /\ UNCHANGED <<thr, ran, logs, swarmVars>>

\* ... and writes it on the node, where executions share the directory.
ScriptWrites(e) ==
  /\ scr[e].pc = "write"
  /\ nodeFile' = [n \in Nodes |->
                    IF n \in scr[e].target \intersect joined
                    THEN [nodeFile[n] EXCEPT ![thr[e].file] = scr[e].code]
                    ELSE nodeFile[n]]
  /\ ScriptGoesTo(e, "start")
  /\ UNCHANGED <<thr, ran, logs, nodeVars, containers>>

SetUp(e, b) ==
  containers' = {IF c.run = e THEN [c EXCEPT !.up = b] ELSE c :
                   c \in containers}

\* docker start, and the installation of python in the container: the
\* container is up when both succeed, which the script does not look at.
ScriptStarts(e) ==
  /\ scr[e].pc = "start"
  /\ \E ok \in Outcomes("start") : SetUp(e, ok)
  /\ ScriptGoesTo(e, "exec")
  /\ UNCHANGED <<thr, ran, logs, nodeVars, nodeFile>>

\* docker exec: the shell creates the log; a container that is up runs the
\* file of that name on its node.
ScriptExecutes(e) ==
  LET up == {c \in LiveContainersOf(e) : c.up}
  IN  /\ scr[e].pc = "exec"
      /\ logs' = logs \union {e}
      /\ \/ up = {} /\ ScriptGoesTo(e, "stop") /\ UNCHANGED ran
         \/ \E c \in up :
              /\ ran' = [ran EXCEPT ![e] =
                            Append(@, nodeFile[c.node][thr[e].file])]
              /\ ScriptGoesTo(e, "running")
      /\ UNCHANGED <<thr, swarmVars>>

\* The function has finished or its 60 seconds are over; what it wrote to
\* stderr is in the output of the script.
ScriptReturns(e) ==
  /\ scr[e].pc = "running"
  /\ \E marked \in {b \in BOOLEAN : b => e \in Noisy} :
       scr' = [scr EXCEPT ![e].pc = "stop", ![e].error = marked]
  /\ UNCHANGED <<thr, ran, logs, swarmVars>>

ScriptStops_NoRemove(e) ==
  /\ scr[e].pc = "stop"
  /\ SetUp(e, FALSE)
  /\ ScriptGoesTo(e, "done")
  /\ UNCHANGED <<thr, ran, logs, nodeVars, nodeFile>>

\* docker stop
ScriptStops(e) ==
  /\ scr[e].pc = "stop"
  /\ SetUp(e, FALSE)
  /\ ScriptGoesTo(e, "remove")
  /\ UNCHANGED <<thr, ran, logs, nodeVars, nodeFile>>

ScriptRemoves_NoStatus(e) ==
  /\ scr[e].pc = "remove"
  /\ \E ok \in Outcomes("remove") :
       containers' = IF ok THEN containers \ LiveContainersOf(e)
                     ELSE containers
  /\ ScriptGoesTo(e, "done")
  /\ UNCHANGED <<thr, ran, logs, nodeVars, nodeFile>>

\* docker rm -f, whose exit status is that of the script.
ScriptRemoves(e) ==
  /\ scr[e].pc = "remove"
  /\ \E ok \in Outcomes("remove") :
       IF ok /\ LiveContainersOf(e) # {}
       THEN /\ containers' = containers \ ContainersOf(e)
            /\ ScriptGoesTo(e, "done")
       ELSE /\ scr' = [scr EXCEPT ![e].pc = "done", ![e].status = 1]
            /\ UNCHANGED containers
  /\ UNCHANGED <<thr, ran, logs, nodeVars, nodeFile>>

----------------------------------------------------------------------------
ThreadStep(e) ==
  (ThreadChecks(e) \/ ThreadRetries(e)) /\ UNCHANGED swarmVars

ScriptStep(e) ==
  \/ ScriptCreates(e) \/ ScriptInspects(e) \/ ScriptCopies(e)
  \/ ScriptWrites(e) \/ ScriptStarts(e) \/ ScriptExecutes(e)
  \/ ScriptReturns(e) \/ ScriptStops(e) \/ ScriptRemoves(e)

ExecStep(e) == ThreadStep(e) \/ ScriptStep(e)

ExecNext == (\E e \in Runs : ExecStep(e)) /\ UNCHANGED disk
=============================================================================
