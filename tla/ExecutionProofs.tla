-------------------------- MODULE ExecutionProofs --------------------------
(***************************************************************************)
(* Threads and scripts implement Execution, step by step, for any number   *)
(* of executions, retries, nodes and failures; what follows for the        *)
(* containers and for the runs of a function.  What else there is on a     *)
(* platform or a cluster only has to leave executions alone, start one     *)
(* that is new, end the threads, or take containers away with their node.  *)
(***************************************************************************)
EXTENDS ExecProperties, FiniteSetTheorems, TLAPS

\* How the thread of an execution, its script, its containers and its runs
\* belong together: the promise says nothing of the error mark, by which the
\* thread decides on another attempt.
Together(e) ==
  /\ thr[e].pc = "none" <=> scr[e].pc = "none"
  /\ scr[e].pc \in ScriptStages => thr[e].pc \in {"waiting", "killed"}
  /\ thr[e].pc = "sleeping" =>
       /\ scr[e].pc = "done" /\ scr[e].status = 0 /\ scr[e].error
       /\ thr[e].n < MaxRetries

Reserves(e) ==
  /\ scr[e].status = 1 => scr[e].pc = "done"
  /\ scr[e].error => scr[e].pc \in {"stop", "remove", "done"}
  /\ scr[e].pc \in {"none", "create"} => ContainersOf(e) = {}
  /\ scr[e].pc = "done" /\ scr[e].status = 0 => ContainersOf(e) = {}
  /\ \A c, d \in ContainersOf(e) : c = d

BeforeRun == {"none", "create", "inspect", "copy", "write", "start", "exec"}

RunsOf(e) ==
  /\ scr[e].pc = "none" => ran[e] = <<>>
  /\ e \notin Noisy =>
       /\ Len(ran[e]) <= 1
       /\ scr[e].pc \in BeforeRun \/ scr[e].error => ran[e] = <<>>

ExecInv ==
  /\ ExecTypeOK
  /\ \A e \in Runs : Together(e) /\ Reserves(e) /\ RunsOf(e)

\* The state of Execution.
Phases == [e \in Runs |-> Phase(scr[e])]
Tried == [e \in Runs |-> Attempts(thr[e])]
Held == {e \in Runs : ContainersOf(e) # {}}
RunsSoFar == [e \in Runs |-> Len(ran[e])]
Told == [e \in Runs |-> Report(thr[e])]

Implements == [X!ExecutionNext]_(X!executionVars)

----------------------------------------------------------------------------
(* Single executions. *)

\* An execution whose thread, script, runs and containers a step leaves alone.
Same(e) ==
  /\ thr'[e] = thr[e] /\ scr'[e] = scr[e] /\ ran'[e] = ran[e]
  /\ ContainersOf(e)' = ContainersOf(e)

\* A step that touches one execution keeps the invariant if that execution
\* does.
LEMMA OthersKeep ==
  ASSUME NEW e \in Runs, ExecInv, ExecTypeOK',
         \A k \in Runs \ {e} : Same(k),
         Together(e)', Reserves(e)', RunsOf(e)'
  PROVE  ExecInv'
<1>1. ASSUME NEW k \in Runs \ {e}
      PROVE  Together(k)' /\ Reserves(k)' /\ RunsOf(k)'
  <2>1. Same(k) /\ Together(k) /\ Reserves(k) /\ RunsOf(k)
    BY DEF ExecInv
  <2> QED
    BY <2>1 DEF Same, Together, Reserves, RunsOf
<1> QED
  BY <1>1 DEF ExecInv

\* What such a step does to the state of Execution.
LEMMA OneChanges ==
  ASSUME NEW e \in Runs, \A k \in Runs \ {e} : Same(k)
  PROVE  /\ Phases' = [Phases EXCEPT ![e] = Phase(scr'[e])]
         /\ Tried' = [Tried EXCEPT ![e] = Attempts(thr'[e])]
         /\ RunsSoFar' = [RunsSoFar EXCEPT ![e] = Len(ran'[e])]
         /\ Told' = [Told EXCEPT ![e] = Report(thr'[e])]
         /\ ContainersOf(e)' # {} => Held' = Held \union {e}
         /\ ContainersOf(e)' = {} => Held' = Held \ {e}
<1>1. Phases' = [Phases EXCEPT ![e] = Phase(scr'[e])]
  BY DEF Phases, Same
<1>2. Tried' = [Tried EXCEPT ![e] = Attempts(thr'[e])]
  BY DEF Tried, Same
<1>3. RunsSoFar' = [RunsSoFar EXCEPT ![e] = Len(ran'[e])]
  BY DEF RunsSoFar, Same
<1>4. Told' = [Told EXCEPT ![e] = Report(thr'[e])]
  BY DEF Told, Same
<1>5. /\ ContainersOf(e)' # {} => Held' = Held \union {e}
      /\ ContainersOf(e)' = {} => Held' = Held \ {e}
  BY DEF Held, Same
<1> QED
  BY <1>1, <1>2, <1>3, <1>4, <1>5

\* The operators of Execution say of that state what they say of theirs.
LEMMA SameState ==
  /\ X!executionVars = <<Phases, Tried, Held, RunsSoFar, Told>>
  /\ X!executionVars' = <<Phases', Tried', Held', RunsSoFar', Told'>>
BY DEF X!executionVars, Phases, Tried, Held, RunsSoFar, Told

LEMMA PhaseOf ==
  ASSUME NEW s
  PROVE  /\ s.pc = "none" => Phase(s) = "none"
         /\ s.pc = "create" => Phase(s) = "trying"
         /\ s.pc \in {"inspect", "copy", "write", "start", "exec"} =>
              Phase(s) = "reserved"
         /\ s.pc = "running" => Phase(s) = "running"
         /\ s.pc \in {"stop", "remove"} => Phase(s) = "stopping"
         /\ s.pc = "done" /\ s.status = 0 => Phase(s) = "over"
         /\ s.pc = "done" /\ s.status = 1 => Phase(s) = "broken"
BY DEF Phase

----------------------------------------------------------------------------
(* The steps of the script. *)

\* A command of the script of e that touches nothing of the other executions.
LEMMA ScriptLeavesOthers ==
  ASSUME NEW e \in Runs, ExecTypeOK, thr' = thr,
         NEW s \in Script, scr' = [scr EXCEPT ![e] = s],
         ran' = ran \/ \E x : ran' = [ran EXCEPT ![e] = x],
         \A k \in Runs \ {e} : ContainersOf(k)' = ContainersOf(k)
  PROVE  /\ \A k \in Runs \ {e} : Same(k)
         /\ scr'[e] = s /\ scr' \in [Runs -> Script]
BY DEF Same, ExecTypeOK

\* Its type, and that of its thread and runs.
LEMMA TypesOf ==
  ASSUME ExecTypeOK, NEW e \in Runs
  PROVE  /\ thr[e] \in Thread /\ scr[e] \in Script
         /\ ran[e] \in Seq(Code) /\ Len(ran[e]) \in Nat
BY DEF ExecTypeOK

\* docker inspect and scp change neither containers nor runs.
LEMMA CopyingStep ==
  ASSUME ExecInv, NEW e \in Runs, UNCHANGED disk,
         ScriptInspects(e) \/ ScriptCopies(e) \/ ScriptWrites(e)
  PROVE  ExecInv' /\ Implements
<1> DEFINE Middle == {"inspect", "copy", "write", "start"}
<1>1. /\ ExecTypeOK /\ Together(e) /\ Reserves(e) /\ RunsOf(e)
      /\ thr[e] \in Thread /\ scr[e] \in Script
  BY TypesOf DEF ExecInv
<1>2. \E s \in Script :
        /\ scr' = [scr EXCEPT ![e] = s]
        /\ s.pc \in {"copy", "write", "start"} /\ scr[e].pc \in Middle
        /\ s.error = scr[e].error /\ s.status = scr[e].status
  <2>1. CASE ScriptInspects(e)
    <3> DEFINE s == [scr[e] EXCEPT !.pc = "copy",
                                   !.target = {c.node : c \in ContainersOf(e)}]
    <3>1. {c.node : c \in ContainersOf(e)} \subseteq Nodes
      BY <1>1 DEF ContainersOf, ExecTypeOK, SwarmTypeOK, Container
    <3>2. s \in Script /\ s.pc = "copy" /\ s.error = scr[e].error
          /\ s.status = scr[e].status
      BY <1>1, <3>1 DEF Script, ScriptStages
    <3>3. scr' = [scr EXCEPT ![e] = s] /\ scr[e].pc = "inspect"
      BY <1>1, <2>1 DEF ScriptInspects, ExecTypeOK
    <3> QED
      BY <3>2, <3>3
  <2>2. CASE ScriptCopies(e)
    <3>1. thr[e].file \in FileNames
      BY <1>1, <2>2 DEF Together, ScriptCopies, ScriptStages, Thread, NoThread
    <3>2. disk[thr[e].file] \in Code
      BY <1>1, <3>1 DEF ExecTypeOK, HostTypeOK
    <3> DEFINE s == [scr[e] EXCEPT !.pc = "write", !.code = disk[thr[e].file]]
               t == [scr[e] EXCEPT !.pc = "start"]
    <3>3. /\ s \in Script /\ s.pc = "write" /\ s.error = scr[e].error
          /\ s.status = scr[e].status
          /\ t \in Script /\ t.pc = "start" /\ t.error = scr[e].error
          /\ t.status = scr[e].status
      BY <1>1, <3>2 DEF Script, ScriptStages
    <3>4. /\ scr[e].pc = "copy"
          /\ scr' = [scr EXCEPT ![e] = s] \/ scr' = [scr EXCEPT ![e] = t]
      BY <1>1, <2>2 DEF ScriptCopies, ScriptGoesTo, ExecTypeOK
    <3> QED
      BY <3>3, <3>4
  <2>3. CASE ScriptWrites(e)
    <3> DEFINE t == [scr[e] EXCEPT !.pc = "start"]
    <3>1. /\ t \in Script /\ t.pc = "start" /\ t.error = scr[e].error
          /\ t.status = scr[e].status
      BY <1>1 DEF Script, ScriptStages
    <3>2. scr[e].pc = "write" /\ scr' = [scr EXCEPT ![e] = t]
      BY <1>1, <2>3 DEF ScriptWrites, ScriptGoesTo, ExecTypeOK
    <3> QED
      BY <3>1, <3>2
  <2> QED
    BY <2>1, <2>2, <2>3
<1>3. PICK s \in Script :
        /\ scr' = [scr EXCEPT ![e] = s]
        /\ s.pc \in {"copy", "write", "start"} /\ scr[e].pc \in Middle
        /\ s.error = scr[e].error /\ s.status = scr[e].status
  BY <1>2
<1>4. /\ thr' = thr /\ ran' = ran /\ containers' = containers
      /\ UNCHANGED <<logs, nodeVars>>
  BY DEF ScriptInspects, ScriptCopies, ScriptWrites, swarmVars
<1>5. nodeFile' \in [Nodes -> [FileNames -> Code]]
  <2>1. CASE ScriptWrites(e)
    <3>1. scr[e].code \in Code
      BY <1>1 DEF Script
    <3> QED
      BY <1>1, <2>1, <3>1 DEF ScriptWrites, ExecTypeOK, SwarmTypeOK
  <2>2. CASE nodeFile' = nodeFile
    BY <1>1, <2>2 DEF ExecTypeOK, SwarmTypeOK
  <2> QED
    BY <2>1, <2>2 DEF ScriptInspects, ScriptCopies, swarmVars
<1>6. \A k \in Runs : ContainersOf(k)' = ContainersOf(k)
  BY <1>4 DEF ContainersOf
<1>7. /\ \A k \in Runs \ {e} : Same(k)
      /\ scr'[e] = s /\ scr' \in [Runs -> Script]
  BY <1>1, <1>3, <1>4, <1>6, ScriptLeavesOthers
<1>8. ExecTypeOK'
  BY <1>1, <1>4, <1>5, <1>7
    DEF ExecTypeOK, SwarmTypeOK, HostTypeOK, nodeVars
<1>9. Together(e)' /\ Reserves(e)' /\ RunsOf(e)'
  BY <1>1, <1>3, <1>4, <1>6, <1>7
    DEF Together, Reserves, RunsOf, ScriptStages, BeforeRun
<1>10. /\ Phases' = Phases /\ Tried' = Tried /\ Held' = Held
       /\ RunsSoFar' = RunsSoFar /\ Told' = Told
  <2>1. Phase(scr[e]) = "reserved" /\ Phase(s) = "reserved"
    BY <1>3, PhaseOf
  <2>2. \A k \in Runs : Phase(scr[k])' = Phase(scr[k])
    BY <1>7, <2>1 DEF Same
  <2> QED
    BY <1>4, <1>6, <2>2 DEF Phases, Tried, Held, RunsSoFar, Told
<1>11. Implements
  BY <1>10, SameState DEF Implements
<1> QED
  BY <1>7, <1>8, <1>9, <1>11, OthersKeep

\* docker create: an attempt is refused or reserves a container.
LEMMA CreatesStep ==
  ASSUME ExecInv, NEW e \in Runs, UNCHANGED disk, ScriptCreates(e)
  PROVE  ExecInv' /\ Implements
<1>1. /\ ExecTypeOK /\ Together(e) /\ Reserves(e) /\ RunsOf(e)
      /\ thr[e] \in Thread /\ scr[e] \in Script
  BY TypesOf DEF ExecInv
<1>2. /\ scr[e].pc = "create" /\ scr[e].status = 0 /\ ContainersOf(e) = {}
      /\ e \notin Noisy => ran[e] = <<>>
      /\ Phase(scr[e]) = "trying"
  BY <1>1, PhaseOf DEF ScriptCreates, Reserves, RunsOf, Script, BeforeRun
<1>3. /\ thr' = thr /\ ran' = ran
      /\ UNCHANGED <<logs, nodeVars, nodeFile>>
  BY DEF ScriptCreates
<1>4. CASE /\ scr' = [scr EXCEPT ![e].pc = "done", ![e].error = TRUE]
           /\ UNCHANGED containers
  <2> DEFINE s == [scr[e] EXCEPT !.pc = "done", !.error = TRUE]
  <2>1. s \in Script /\ s.pc = "done" /\ s.status = 0
    BY <1>1, <1>2 DEF Script
  <2>2. scr' = [scr EXCEPT ![e] = s]
    BY <1>1, <1>4 DEF ExecTypeOK
  <2>3. \A k \in Runs : ContainersOf(k)' = ContainersOf(k)
    BY <1>4 DEF ContainersOf
  <2> HIDE DEF s
  <2>4. /\ \A k \in Runs \ {e} : Same(k)
        /\ scr'[e] = s /\ scr' \in [Runs -> Script]
    BY <1>1, <1>3, <2>1, <2>2, <2>3, ScriptLeavesOthers
  <2>5. ExecTypeOK'
    BY <1>1, <1>3, <1>4, <2>4
      DEF ExecTypeOK, SwarmTypeOK, HostTypeOK, nodeVars
  <2>6. Together(e)' /\ Reserves(e)' /\ RunsOf(e)'
    BY <1>1, <1>2, <1>3, <2>1, <2>3, <2>4
      DEF Together, Reserves, RunsOf, ScriptStages, BeforeRun
  <2>7. Phase(s) = "over"
    BY <2>1, PhaseOf
  <2>8. X!Refuse(e)
    <3>1. /\ Tried' = Tried /\ Held' = Held /\ RunsSoFar' = RunsSoFar
          /\ Told' = Told
      BY <1>3, <2>3 DEF Tried, Held, RunsSoFar, Told
    <3>2. Phases[e] = "trying" /\ Phases' = [Phases EXCEPT ![e] = "over"]
      BY <1>2, <2>4, <2>7, OneChanges DEF Phases
    <3> QED
      BY <3>1, <3>2
        DEF X!Refuse, X!GoesTo, Phases, Tried, Held, RunsSoFar, Told
  <2> QED
    BY <2>4, <2>5, <2>6, <2>8, OthersKeep
      DEF Implements, X!ExecutionNext, X!Attempt
<1>5. CASE /\ Fitting(thr[e].memory) # {}
           /\ CreateContainer(e, thr[e].memory) /\ ScriptGoesTo(e, "inspect")
  <2> DEFINE s == [scr[e] EXCEPT !.pc = "inspect"]
  <2>1. s \in Script /\ s.pc = "inspect" /\ s.status = 0 /\ s.error = FALSE
    BY <1>1, <1>2 DEF Script, ScriptStages, Reserves
  <2>2. scr' = [scr EXCEPT ![e] = s]
    BY <1>1, <1>5 DEF ExecTypeOK, ScriptGoesTo
  <2>3. PICK n \in Packed(thr[e].memory) :
          containers' = containers \union
            {[run |-> e, node |-> n, memory |-> thr[e].memory, up |-> FALSE]}
    BY <1>5 DEF CreateContainer
  <2> DEFINE c == [run |-> e, node |-> n, memory |-> thr[e].memory,
                   up |-> FALSE]
  <2>4. thr[e].memory \in Nat
    BY <1>1, <1>2 DEF Together, ScriptStages, Thread, NoThread
  <2>5. n \in Nodes
    BY <1>1, <2>3 DEF Packed, Fitting, ExecTypeOK, SwarmTypeOK
  <2>6. c \in Container /\ c.run = e
    BY <2>4, <2>5 DEF Container
  <2> HIDE DEF s, c
  <2>7. containers' = containers \union {c}
    BY <2>3 DEF c
  <2>8. /\ ContainersOf(e)' = {c}
        /\ \A k \in Runs \ {e} : ContainersOf(k)' = ContainersOf(k)
    BY <1>2, <2>6, <2>7 DEF ContainersOf
  <2>9. /\ \A k \in Runs \ {e} : Same(k)
        /\ scr'[e] = s /\ scr' \in [Runs -> Script]
    BY <1>1, <1>3, <2>1, <2>2, <2>8, ScriptLeavesOthers
  <2>10. ExecTypeOK'
    BY <1>1, <1>3, <2>6, <2>7, <2>9
      DEF ExecTypeOK, SwarmTypeOK, HostTypeOK, nodeVars
  <2>11. Together(e)' /\ Reserves(e)' /\ RunsOf(e)'
    BY <1>1, <1>2, <1>3, <2>1, <2>8, <2>9
      DEF Together, Reserves, RunsOf, ScriptStages, BeforeRun
  <2>12. Phase(s) = "reserved"
    BY <2>1, PhaseOf
  <2>13. X!Reserve(e)
    <3>1. Tried' = Tried /\ RunsSoFar' = RunsSoFar /\ Told' = Told
      BY <1>3 DEF Tried, RunsSoFar, Told
    <3>2. /\ Phases[e] = "trying" /\ Phases' = [Phases EXCEPT ![e] = "reserved"]
          /\ Held' = Held \union {e}
      BY <1>2, <2>8, <2>9, <2>12, OneChanges DEF Phases
    <3> QED
      BY <3>1, <3>2
        DEF X!Reserve, X!GoesTo, Phases, Tried, Held, RunsSoFar, Told
  <2> QED
    BY <2>9, <2>10, <2>11, <2>13, OthersKeep
      DEF Implements, X!ExecutionNext, X!Attempt
<1> QED
  BY <1>4, <1>5 DEF ScriptCreates

\* docker start and docker stop leave the containers reserved.
LEMMA SetUpKeeps ==
  ASSUME ExecTypeOK, NEW e \in Runs, NEW b \in BOOLEAN, SetUp(e, b)
  PROVE  /\ containers' \subseteq Container
         /\ \A k \in Runs \ {e} : ContainersOf(k)' = ContainersOf(k)
         /\ ContainersOf(e)' = {[c EXCEPT !.up = b] : c \in ContainersOf(e)}
<1> DEFINE Set(c) == IF c.run = e THEN [c EXCEPT !.up = b] ELSE c
<1>1. containers' = {Set(c) : c \in containers}
  BY DEF SetUp
<1>2. \A c \in containers : Set(c) \in Container /\ Set(c).run = c.run
  BY DEF ExecTypeOK, SwarmTypeOK, Container
<1>3. \A c \in containers : /\ c.run = e => Set(c) = [c EXCEPT !.up = b]
                            /\ c.run # e => Set(c) = c
  OBVIOUS
<1> HIDE DEF Set
<1>4. \A k \in Runs :
        ContainersOf(k)' = {Set(c) : c \in {d \in containers : d.run = k}}
  BY <1>1, <1>2 DEF ContainersOf
<1>5. \A k \in Runs \ {e} : ContainersOf(k)' = ContainersOf(k)
  BY <1>3, <1>4 DEF ContainersOf
<1>6. ContainersOf(e)' = {[c EXCEPT !.up = b] : c \in ContainersOf(e)}
  BY <1>3, <1>4 DEF ContainersOf
<1> QED
  BY <1>1, <1>2, <1>5, <1>6

\* docker start: what it does to its own container is not seen.
LEMMA StartsStep ==
  ASSUME ExecInv, NEW e \in Runs, UNCHANGED disk, ScriptStarts(e)
  PROVE  ExecInv' /\ Implements
<1>1. /\ ExecTypeOK /\ Together(e) /\ Reserves(e) /\ RunsOf(e)
      /\ thr[e] \in Thread /\ scr[e] \in Script
  BY TypesOf DEF ExecInv
<1> DEFINE s == [scr[e] EXCEPT !.pc = "exec"]
<1>2. /\ scr[e].pc = "start" /\ scr' = [scr EXCEPT ![e] = s]
      /\ thr' = thr /\ ran' = ran /\ UNCHANGED <<logs, nodeVars, nodeFile>>
  BY <1>1 DEF ScriptStarts, ScriptGoesTo, ExecTypeOK
<1>3. PICK b \in BOOLEAN : SetUp(e, b)
  BY DEF ScriptStarts, Outcomes
<1>4. /\ s \in Script /\ s.pc = "exec" /\ s.status = scr[e].status
      /\ s.error = scr[e].error
  BY <1>1 DEF Script, ScriptStages
<1> HIDE DEF s
<1>5. /\ containers' \subseteq Container
      /\ \A k \in Runs \ {e} : ContainersOf(k)' = ContainersOf(k)
      /\ ContainersOf(e)' = {[c EXCEPT !.up = b] : c \in ContainersOf(e)}
  BY <1>1, <1>3, SetUpKeeps
<1>6. /\ \A k \in Runs \ {e} : Same(k)
      /\ scr'[e] = s /\ scr' \in [Runs -> Script]
  BY <1>1, <1>2, <1>4, <1>5, ScriptLeavesOthers
<1>7. ExecTypeOK'
  BY <1>1, <1>2, <1>5, <1>6
    DEF ExecTypeOK, SwarmTypeOK, HostTypeOK, nodeVars
<1>8. Together(e)' /\ Reserves(e)' /\ RunsOf(e)'
  BY <1>1, <1>2, <1>4, <1>5, <1>6
    DEF Together, Reserves, RunsOf, ScriptStages, BeforeRun
<1>9. /\ Phases' = Phases /\ Tried' = Tried /\ Held' = Held
      /\ RunsSoFar' = RunsSoFar /\ Told' = Told
  <2>1. Phase(scr[e]) = "reserved" /\ Phase(s) = "reserved"
    BY <1>2, <1>4, PhaseOf
  <2>2. \A k \in Runs : Phase(scr[k])' = Phase(scr[k])
    BY <1>6, <2>1 DEF Same
  <2>3. \A k \in Runs : ContainersOf(k)' = {} <=> ContainersOf(k) = {}
    BY <1>5
  <2> QED
    BY <1>2, <2>2, <2>3 DEF Phases, Tried, Held, RunsSoFar, Told
<1> QED
  BY <1>6, <1>7, <1>8, <1>9, SameState, OthersKeep DEF Implements

\* docker stop
LEMMA StopsStep ==
  ASSUME ExecInv, NEW e \in Runs, UNCHANGED disk, ScriptStops(e)
  PROVE  ExecInv' /\ Implements
<1>1. /\ ExecTypeOK /\ Together(e) /\ Reserves(e) /\ RunsOf(e)
      /\ thr[e] \in Thread /\ scr[e] \in Script
  BY TypesOf DEF ExecInv
<1> DEFINE s == [scr[e] EXCEPT !.pc = "remove"]
<1>2. /\ scr[e].pc = "stop" /\ scr' = [scr EXCEPT ![e] = s]
      /\ thr' = thr /\ ran' = ran /\ UNCHANGED <<logs, nodeVars, nodeFile>>
      /\ SetUp(e, FALSE)
  BY <1>1 DEF ScriptStops, ScriptGoesTo, ExecTypeOK
<1>3. /\ s \in Script /\ s.pc = "remove" /\ s.status = scr[e].status
      /\ s.error = scr[e].error
  BY <1>1 DEF Script, ScriptStages
<1> HIDE DEF s
<1>4. /\ containers' \subseteq Container
      /\ \A k \in Runs \ {e} : ContainersOf(k)' = ContainersOf(k)
      /\ ContainersOf(e)' = {[c EXCEPT !.up = FALSE] : c \in ContainersOf(e)}
  BY <1>1, <1>2, SetUpKeeps
<1>5. /\ \A k \in Runs \ {e} : Same(k)
      /\ scr'[e] = s /\ scr' \in [Runs -> Script]
  BY <1>1, <1>2, <1>3, <1>4, ScriptLeavesOthers
<1>6. ExecTypeOK'
  BY <1>1, <1>2, <1>4, <1>5
    DEF ExecTypeOK, SwarmTypeOK, HostTypeOK, nodeVars
<1>7. Together(e)' /\ Reserves(e)' /\ RunsOf(e)'
  BY <1>1, <1>2, <1>3, <1>4, <1>5
    DEF Together, Reserves, RunsOf, ScriptStages, BeforeRun
<1>8. /\ Phases' = Phases /\ Tried' = Tried /\ Held' = Held
      /\ RunsSoFar' = RunsSoFar /\ Told' = Told
  <2>1. Phase(scr[e]) = "stopping" /\ Phase(s) = "stopping"
    BY <1>2, <1>3, PhaseOf
  <2>2. \A k \in Runs : Phase(scr[k])' = Phase(scr[k])
    BY <1>5, <2>1 DEF Same
  <2>3. \A k \in Runs : ContainersOf(k)' = {} <=> ContainersOf(k) = {}
    BY <1>4
  <2> QED
    BY <1>2, <2>2, <2>3 DEF Phases, Tried, Held, RunsSoFar, Told
<1> QED
  BY <1>5, <1>6, <1>7, <1>8, SameState, OthersKeep DEF Implements

\* The script goes on from docker exec, or from the function that has returned.
LEMMA LeavesStep ==
  ASSUME ExecInv, NEW e \in Runs, UNCHANGED disk,
         NEW s \in Script, scr' = [scr EXCEPT ![e] = s],
         scr[e].pc \in {"exec", "running"}, s.pc = "stop",
         s.status = scr[e].status,
         s.error => e \in Noisy \/ scr[e].error,
         thr' = thr, ran' = ran, UNCHANGED swarmVars, logs' \subseteq Runs
  PROVE  ExecInv' /\ Implements
<1>1. /\ ExecTypeOK /\ Together(e) /\ Reserves(e) /\ RunsOf(e)
      /\ thr[e] \in Thread /\ scr[e] \in Script
  BY TypesOf DEF ExecInv
<1>2. \A k \in Runs : ContainersOf(k)' = ContainersOf(k)
  BY DEF ContainersOf, swarmVars
<1>3. /\ \A k \in Runs \ {e} : Same(k)
      /\ scr'[e] = s /\ scr' \in [Runs -> Script]
  BY <1>1, <1>2, ScriptLeavesOthers
<1>4. ExecTypeOK'
  BY <1>1, <1>3
    DEF ExecTypeOK, SwarmTypeOK, HostTypeOK, nodeVars, swarmVars
<1>5. Together(e)' /\ Reserves(e)' /\ RunsOf(e)'
  BY <1>1, <1>2, <1>3
    DEF Together, Reserves, RunsOf, ScriptStages, BeforeRun
<1>6. X!Leave(e)
  <2>1. Phase(scr[e]) \in {"reserved", "running"} /\ Phase(s) = "stopping"
    BY PhaseOf
  <2>2. /\ Tried' = Tried /\ Held' = Held /\ RunsSoFar' = RunsSoFar
        /\ Told' = Told
    BY <1>2 DEF Tried, Held, RunsSoFar, Told
  <2>3. /\ Phases[e] \in {"reserved", "running"}
        /\ Phases' = [Phases EXCEPT ![e] = "stopping"]
    BY <1>3, <2>1, OneChanges DEF Phases
  <2> QED
    BY <2>2, <2>3
      DEF X!Leave, X!GoesTo, Phases, Tried, Held, RunsSoFar, Told
<1> QED
  BY <1>3, <1>4, <1>5, <1>6, OthersKeep
    DEF Implements, X!ExecutionNext, X!Attempt

\* The end of docker exec.
LEMMA ReturnsStep ==
  ASSUME ExecInv, NEW e \in Runs, UNCHANGED disk, ScriptReturns(e)
  PROVE  ExecInv' /\ Implements
<1>1. ExecTypeOK /\ scr[e] \in Script
  BY TypesOf DEF ExecInv
<1>2. PICK marked \in {b \in BOOLEAN : b => e \in Noisy} :
        scr' = [scr EXCEPT ![e].pc = "stop", ![e].error = marked]
  BY DEF ScriptReturns
<1> DEFINE s == [scr[e] EXCEPT !.pc = "stop", !.error = marked]
<1>3. s \in Script /\ s.pc = "stop" /\ s.status = scr[e].status
      /\ (s.error => e \in Noisy)
  BY <1>1 DEF Script, ScriptStages
<1>4. scr' = [scr EXCEPT ![e] = s]
  BY <1>1, <1>2 DEF ExecTypeOK
<1>5. /\ scr[e].pc = "running" /\ thr' = thr /\ ran' = ran
      /\ UNCHANGED swarmVars /\ logs' \subseteq Runs
  BY <1>1 DEF ScriptReturns, ExecTypeOK
<1> HIDE DEF s
<1> QED
  BY <1>3, <1>4, <1>5, LeavesStep

\* docker exec: the function runs, or no container is up.
LEMMA ExecutesStep ==
  ASSUME ExecInv, NEW e \in Runs, UNCHANGED disk, ScriptExecutes(e)
  PROVE  ExecInv' /\ Implements
<1>1. /\ ExecTypeOK /\ Together(e) /\ Reserves(e) /\ RunsOf(e)
      /\ thr[e] \in Thread /\ scr[e] \in Script
      /\ ran[e] \in Seq(Code) /\ Len(ran[e]) \in Nat
  BY TypesOf DEF ExecInv
<1>2. /\ scr[e].pc = "exec" /\ thr' = thr /\ UNCHANGED swarmVars
      /\ logs' \subseteq Runs
  BY <1>1 DEF ScriptExecutes, ExecTypeOK
<1>3. CASE ScriptGoesTo(e, "stop") /\ UNCHANGED ran
  <2> DEFINE s == [scr[e] EXCEPT !.pc = "stop"]
  <2>1. s \in Script /\ s.pc = "stop" /\ s.status = scr[e].status
        /\ s.error = scr[e].error
    BY <1>1 DEF Script, ScriptStages
  <2>2. scr' = [scr EXCEPT ![e] = s]
    BY <1>1, <1>3 DEF ExecTypeOK, ScriptGoesTo
  <2> HIDE DEF s
  <2> QED
    BY <1>2, <1>3, <2>1, <2>2, LeavesStep
<1>4. ASSUME NEW c \in LiveContainersOf(e),
             ran' = [ran EXCEPT ![e] =
                       Append(@, nodeFile[c.node][thr[e].file])],
             ScriptGoesTo(e, "running")
      PROVE  ExecInv' /\ Implements
  <2> DEFINE s == [scr[e] EXCEPT !.pc = "running"]
             f == nodeFile[c.node][thr[e].file]
  <2>1. s \in Script /\ s.pc = "running" /\ s.status = scr[e].status
        /\ s.error = scr[e].error
    BY <1>1 DEF Script, ScriptStages
  <2>2. scr' = [scr EXCEPT ![e] = s]
    BY <1>1, <1>4 DEF ExecTypeOK, ScriptGoesTo
  <2>3. c \in containers /\ c.node \in Nodes /\ c \in ContainersOf(e)
    BY <1>1 DEF LiveContainersOf, ContainersOf, ExecTypeOK, SwarmTypeOK,
                Container
  <2>4. thr[e].file \in FileNames
    BY <1>1, <1>2 DEF Together, ScriptStages, Thread, NoThread
  <2>5. f \in Code
    BY <1>1, <2>3, <2>4 DEF ExecTypeOK, SwarmTypeOK
  <2> HIDE DEF s, f
  <2>6. ran' = [ran EXCEPT ![e] = Append(ran[e], f)]
    BY <1>4 DEF f
  <2>7. /\ Append(ran[e], f) \in Seq(Code)
        /\ Len(Append(ran[e], f)) = Len(ran[e]) + 1
        /\ ran[e] = <<>> => Len(ran[e]) = 0
    BY <1>1, <2>5
  <2>8. ran'[e] = Append(ran[e], f) /\ ran' \in [Runs -> Seq(Code)]
    BY <1>1, <2>6, <2>7 DEF ExecTypeOK
  <2>9. \A k \in Runs : ContainersOf(k)' = ContainersOf(k)
    BY <1>2 DEF ContainersOf, swarmVars
  <2>10. /\ \A k \in Runs \ {e} : Same(k)
         /\ scr'[e] = s /\ scr' \in [Runs -> Script]
    BY <1>1, <1>2, <2>1, <2>2, <2>6, <2>9, ScriptLeavesOthers
  <2>11. ExecTypeOK'
    BY <1>1, <1>2, <2>8, <2>10
      DEF ExecTypeOK, SwarmTypeOK, HostTypeOK, nodeVars, swarmVars
  <2>12. Together(e)' /\ Reserves(e)' /\ RunsOf(e)'
    BY <1>1, <1>2, <2>1, <2>7, <2>8, <2>9, <2>10
      DEF Together, Reserves, RunsOf, ScriptStages, BeforeRun
  <2>13. X!Run(e)
    <3>1. Phase(scr[e]) = "reserved" /\ Phase(s) = "running"
      BY <1>2, <2>1, PhaseOf
    <3>2. Tried' = Tried /\ Held' = Held /\ Told' = Told
      BY <1>2, <2>9 DEF Tried, Held, Told
    <3>3. /\ Phases[e] = "reserved"
          /\ Phases' = [Phases EXCEPT ![e] = "running"]
          /\ RunsSoFar' = [RunsSoFar EXCEPT ![e] = RunsSoFar[e] + 1]
          /\ e \in Held
      BY <2>3, <2>7, <2>8, <2>10, <3>1, OneChanges DEF Phases, Held, RunsSoFar
    <3> QED
      BY <3>2, <3>3
        DEF X!Run, X!GoesTo, Phases, Tried, Held, RunsSoFar, Told
  <2> QED
    BY <2>10, <2>11, <2>12, <2>13, OthersKeep
      DEF Implements, X!ExecutionNext, X!Attempt
<1> QED
  BY <1>3, <1>4 DEF ScriptExecutes

\* docker rm: all goes, or the script ends with a status of 1.
LEMMA RemovesStep ==
  ASSUME ExecInv, NEW e \in Runs, UNCHANGED disk, ScriptRemoves(e)
  PROVE  ExecInv' /\ Implements
<1>1. /\ ExecTypeOK /\ Together(e) /\ Reserves(e) /\ RunsOf(e)
      /\ thr[e] \in Thread /\ scr[e] \in Script
  BY TypesOf DEF ExecInv
<1>2. /\ scr[e].pc = "remove" /\ thr' = thr /\ ran' = ran
      /\ UNCHANGED <<logs, nodeVars, nodeFile>>
      /\ Phase(scr[e]) = "stopping" /\ scr[e].status = 0
  BY <1>1, PhaseOf DEF ScriptRemoves, Reserves, Script
<1>3. CASE containers' = containers \ ContainersOf(e) /\ ScriptGoesTo(e, "done")
  <2> DEFINE s == [scr[e] EXCEPT !.pc = "done"]
  <2>1. s \in Script /\ s.pc = "done" /\ s.status = 0
        /\ s.error = scr[e].error
    BY <1>1, <1>2 DEF Script
  <2>2. scr' = [scr EXCEPT ![e] = s]
    BY <1>1, <1>3 DEF ExecTypeOK, ScriptGoesTo
  <2> HIDE DEF s
  <2>3. /\ ContainersOf(e)' = {}
        /\ \A k \in Runs \ {e} : ContainersOf(k)' = ContainersOf(k)
    BY <1>3 DEF ContainersOf
  <2>4. /\ \A k \in Runs \ {e} : Same(k)
        /\ scr'[e] = s /\ scr' \in [Runs -> Script]
    BY <1>1, <1>2, <2>1, <2>2, <2>3, ScriptLeavesOthers
  <2>5. ExecTypeOK'
    BY <1>1, <1>2, <1>3, <2>4
      DEF ExecTypeOK, SwarmTypeOK, HostTypeOK, nodeVars
  <2>6. Together(e)' /\ Reserves(e)' /\ RunsOf(e)'
    BY <1>1, <1>2, <2>1, <2>3, <2>4
      DEF Together, Reserves, RunsOf, ScriptStages, BeforeRun
  <2>7. X!Release(e)
    <3>1. Tried' = Tried /\ RunsSoFar' = RunsSoFar /\ Told' = Told
      BY <1>2 DEF Tried, RunsSoFar, Told
    <3>2. Phase(s) = "over"
      BY <2>1, PhaseOf
    <3>3. /\ Phases[e] = "stopping" /\ Phases' = [Phases EXCEPT ![e] = "over"]
          /\ Held' = Held \ {e}
      BY <1>2, <2>3, <2>4, <3>2, OneChanges DEF Phases
    <3> QED
      BY <3>1, <3>3
        DEF X!Release, X!GoesTo, Phases, Tried, Held, RunsSoFar, Told
  <2> QED
    BY <2>4, <2>5, <2>6, <2>7, OthersKeep
      DEF Implements, X!ExecutionNext, X!Attempt
<1>4. CASE /\ scr' = [scr EXCEPT ![e].pc = "done", ![e].status = 1]
           /\ UNCHANGED containers
  <2> DEFINE s == [scr[e] EXCEPT !.pc = "done", !.status = 1]
  <2>1. s \in Script /\ s.pc = "done" /\ s.status = 1
        /\ s.error = scr[e].error
    BY <1>1 DEF Script
  <2>2. scr' = [scr EXCEPT ![e] = s]
    BY <1>1, <1>4 DEF ExecTypeOK
  <2> HIDE DEF s
  <2>3. \A k \in Runs : ContainersOf(k)' = ContainersOf(k)
    BY <1>4 DEF ContainersOf
  <2>4. /\ \A k \in Runs \ {e} : Same(k)
        /\ scr'[e] = s /\ scr' \in [Runs -> Script]
    BY <1>1, <1>2, <2>1, <2>2, <2>3, ScriptLeavesOthers
  <2>5. ExecTypeOK'
    BY <1>1, <1>2, <1>4, <2>4
      DEF ExecTypeOK, SwarmTypeOK, HostTypeOK, nodeVars
  <2>6. Together(e)' /\ Reserves(e)' /\ RunsOf(e)'
    BY <1>1, <1>2, <2>1, <2>3, <2>4
      DEF Together, Reserves, RunsOf, ScriptStages, BeforeRun
  <2>7. X!Break(e)
    <3>1. /\ Tried' = Tried /\ Held' = Held /\ RunsSoFar' = RunsSoFar
          /\ Told' = Told
      BY <1>2, <2>3 DEF Tried, Held, RunsSoFar, Told
    <3>2. Phase(s) = "broken"
      BY <2>1, PhaseOf
    <3>3. Phases[e] = "stopping" /\ Phases' = [Phases EXCEPT ![e] = "broken"]
      BY <1>2, <2>4, <3>2, OneChanges DEF Phases
    <3> QED
      BY <3>1, <3>3
        DEF X!Break, X!GoesTo, Phases, Tried, Held, RunsSoFar, Told
  <2> QED
    BY <2>4, <2>5, <2>6, <2>7, OthersKeep
      DEF Implements, X!ExecutionNext, X!Attempt
<1> QED
  BY <1>3, <1>4 DEF ScriptRemoves

----------------------------------------------------------------------------
(* The steps of the thread. *)

\* The thread looks at the output and the status of a script that has ended.
LEMMA ChecksStep ==
  ASSUME ExecInv, NEW e \in Runs, UNCHANGED <<disk, swarmVars>>,
         ThreadChecks(e)
  PROVE  ExecInv' /\ Implements
<1>1. /\ ExecTypeOK /\ Together(e) /\ Reserves(e) /\ RunsOf(e)
      /\ thr[e] \in Thread /\ scr[e] \in Script
  BY TypesOf DEF ExecInv
<1>2. /\ thr[e].pc = "waiting" /\ scr[e].pc = "done"
      /\ UNCHANGED <<scr, ran, logs>>
      /\ thr[e].n \in 0..MaxRetries /\ scr[e].status \in {0, 1}
  BY <1>1 DEF ThreadChecks, Thread, NoThread, Script
<1>3. PICK stage \in {"failed", "gaveUp", "sleeping", "executed"} :
        /\ ThreadGoesTo(e, stage)
        /\ \/ scr[e].status = 1 /\ stage = "failed"
           \/ scr[e].status = 0 /\ thr[e].n = MaxRetries /\ stage = "gaveUp"
           \/ /\ scr[e].status = 0 /\ thr[e].n < MaxRetries
              /\ \/ scr[e].error /\ stage = "sleeping"
                 \/ ~scr[e].error /\ stage = "executed"
  <2>1. CASE scr[e].status = 1
    BY <2>1 DEF ThreadChecks
  <2>2. CASE scr[e].status = 0 /\ thr[e].n = MaxRetries
    BY <2>2 DEF ThreadChecks
  <2>3. CASE scr[e].status = 0 /\ thr[e].n < MaxRetries
    <3>1. ThreadGoesTo(e, IF scr[e].error THEN "sleeping" ELSE "executed")
      BY <2>3, ExecAssumption DEF ThreadChecks
    <3> QED
      BY <2>3, <3>1
  <2> QED
    BY <1>2, <2>1, <2>2, <2>3, ExecAssumption
<1> DEFINE t == [thr[e] EXCEPT !.pc = stage]
<1>4. t \in Thread /\ t.pc = stage /\ t.n = thr[e].n
  BY <1>1, <1>2 DEF Thread, NoThread
<1>5. thr' = [thr EXCEPT ![e] = t]
  BY <1>1, <1>3 DEF ThreadGoesTo, ExecTypeOK
<1> HIDE DEF t
<1>6. thr'[e] = t /\ thr' \in [Runs -> Thread]
  BY <1>1, <1>4, <1>5 DEF ExecTypeOK
<1>7. \A k \in Runs : ContainersOf(k)' = ContainersOf(k)
  BY DEF ContainersOf, swarmVars
<1>8. \A k \in Runs \ {e} : Same(k)
  BY <1>1, <1>2, <1>5, <1>7 DEF Same, ExecTypeOK
<1>9. ExecTypeOK'
  BY <1>1, <1>2, <1>6
    DEF ExecTypeOK, SwarmTypeOK, HostTypeOK, nodeVars, swarmVars
<1>10. Together(e)' /\ Reserves(e)' /\ RunsOf(e)'
  BY <1>1, <1>2, <1>3, <1>4, <1>6, <1>7
    DEF Together, Reserves, RunsOf, ScriptStages, BeforeRun
<1>11. Attempts(t) = Attempts(thr[e]) /\ Attempts(t) = thr[e].n + 1
  BY <1>2, <1>3, <1>4 DEF Attempts
<1>12. /\ Phases' = Phases /\ Tried' = Tried /\ Held' = Held
       /\ RunsSoFar' = RunsSoFar
  <2>1. \A k \in Runs : Attempts(thr'[k]) = Attempts(thr[k])
    BY <1>6, <1>8, <1>11 DEF Same
  <2> QED
    BY <1>2, <1>7, <2>1 DEF Phases, Tried, Held, RunsSoFar
<1>13. Report(thr[e]) = "pending"
  BY <1>2 DEF Report
<1>14. CASE stage = "sleeping"
  <2>1. Report(t) = "pending"
    BY <1>4, <1>14 DEF Report
  <2>2. \A k \in Runs : Report(thr'[k]) = Report(thr[k])
    BY <1>6, <1>8, <1>13, <2>1 DEF Same
  <2>3. Told' = Told
    BY <2>2 DEF Told
  <2> QED
    BY <1>8, <1>9, <1>10, <1>12, <2>3, SameState, OthersKeep DEF Implements
<1>15. CASE stage # "sleeping"
  <2>1. Report(t) = stage /\ stage \in X!Reports
    BY <1>3, <1>4, <1>15 DEF Report, X!Reports
  <2>2. /\ Told[e] = "pending" /\ Told' = [Told EXCEPT ![e] = stage]
        /\ Tried[e] = thr[e].n + 1
        /\ scr[e].status = 0 => Phases[e] = "over"
        /\ scr[e].status = 1 => Phases[e] = "broken"
    BY <1>2, <1>6, <1>8, <1>11, <1>13, <2>1, PhaseOf, OneChanges
      DEF Told, Tried, Phases
  <2>3. \/ Phases[e] = "broken" /\ stage = "failed"
        \/ /\ Phases[e] = "over" /\ Tried[e] = MaxRetries + 1
           /\ stage = "gaveUp"
        \/ /\ Phases[e] = "over" /\ Tried[e] < MaxRetries + 1
           /\ stage = "executed"
    BY <1>2, <1>3, <1>15, <2>2, ExecAssumption
  <2>4. X!Tell(e, stage)
    BY <1>12, <2>2, <2>3
      DEF X!Tell, Phases, Tried, Held, RunsSoFar, Told
  <2> QED
    BY <1>8, <1>9, <1>10, <2>1, <2>4, OthersKeep
      DEF Implements, X!ExecutionNext
<1> QED
  BY <1>14, <1>15

LEMMA FreshScriptIs ==
  /\ FreshScript \in Script /\ FreshScript.pc = "create"
  /\ FreshScript.status = 0 /\ FreshScript.error = FALSE
  /\ Phase(FreshScript) = "trying"
<1>1. /\ FreshScript \in Script /\ FreshScript.pc = "create"
      /\ FreshScript.status = 0 /\ FreshScript.error = FALSE
  <2>1. NoCode \in Code
    BY DEF NoCode, Code
  <2> QED
    BY <2>1 DEF FreshScript, NoScript, Script, ScriptStages
<1> QED
  BY <1>1, PhaseOf

\* Another attempt, after one that left nothing behind.
LEMMA RetriesStep ==
  ASSUME ExecInv, NEW e \in Runs, UNCHANGED <<disk, swarmVars>>,
         ThreadRetries(e)
  PROVE  ExecInv' /\ Implements
<1>1. /\ ExecTypeOK /\ Together(e) /\ Reserves(e) /\ RunsOf(e)
      /\ thr[e] \in Thread /\ scr[e] \in Script
  BY TypesOf DEF ExecInv
<1> DEFINE t == [thr[e] EXCEPT !.pc = "waiting", !.n = @ + 1]
<1>2. /\ thr[e].pc = "sleeping" /\ scr' = [scr EXCEPT ![e] = FreshScript]
      /\ UNCHANGED <<ran, logs>> /\ thr[e].n \in 0..MaxRetries
      /\ scr[e].pc = "done" /\ scr[e].status = 0 /\ scr[e].error
      /\ thr[e].n < MaxRetries
  BY <1>1 DEF ThreadRetries, Thread, NoThread, Together
<1>3. thr[e].n + 1 \in 0..MaxRetries
  BY <1>2, ExecAssumption
<1>4. t \in Thread /\ t.pc = "waiting" /\ t.n = thr[e].n + 1
  <2> DEFINE Started ==
               [pc : {"waiting", "sleeping", "executed", "gaveUp", "failed",
                      "killed"},
                n : 0..MaxRetries, file : FileNames, memory : Nat]
             m == thr[e].n + 1
  <2>1. thr[e] \in Started
    BY <1>1, <1>2 DEF Thread, NoThread
  <2>2. m \in 0..MaxRetries
    BY <1>3
  <2> HIDE DEF m
  <2>3. /\ [thr[e] EXCEPT !.pc = "waiting", !.n = m] \in Started
        /\ [thr[e] EXCEPT !.pc = "waiting", !.n = m].pc = "waiting"
        /\ [thr[e] EXCEPT !.pc = "waiting", !.n = m].n = m
    BY <2>1, <2>2
  <2> QED
    BY <2>3 DEF Thread, m
<1>5. thr' = [thr EXCEPT ![e] = t]
  BY <1>1 DEF ThreadRetries, ExecTypeOK
<1> HIDE DEF t
<1>6. /\ thr'[e] = t /\ thr' \in [Runs -> Thread]
      /\ scr'[e] = FreshScript /\ scr' \in [Runs -> Script]
  BY <1>1, <1>2, <1>4, <1>5, FreshScriptIs DEF ExecTypeOK
<1>7. \A k \in Runs : ContainersOf(k)' = ContainersOf(k)
  BY DEF ContainersOf, swarmVars
<1>8. \A k \in Runs \ {e} : Same(k)
  BY <1>1, <1>2, <1>5, <1>7 DEF Same, ExecTypeOK
<1>9. ExecTypeOK'
  BY <1>1, <1>2, <1>6
    DEF ExecTypeOK, SwarmTypeOK, HostTypeOK, nodeVars, swarmVars
<1>10. ContainersOf(e) = {} /\ (e \notin Noisy => ran[e] = <<>>)
  BY <1>1, <1>2 DEF Reserves, RunsOf
<1>11. Together(e)' /\ Reserves(e)' /\ RunsOf(e)'
  BY <1>1, <1>2, <1>4, <1>6, <1>7, <1>10, FreshScriptIs
    DEF Together, Reserves, RunsOf, ScriptStages, BeforeRun
<1>12. X!Again(e)
  <2>1. /\ Report(thr[e]) = "pending" /\ Report(t) = "pending"
        /\ Attempts(thr[e]) = thr[e].n + 1 /\ Attempts(t) = thr[e].n + 2
        /\ Phase(scr[e]) = "over"
    BY <1>2, <1>4, PhaseOf DEF Report, Attempts
  <2>2. \A k \in Runs : Report(thr'[k]) = Report(thr[k])
    BY <1>6, <1>8, <2>1 DEF Same
  <2>3. Told' = Told /\ RunsSoFar' = RunsSoFar /\ Held' = Held
    BY <1>2, <1>7, <2>2 DEF Told, RunsSoFar, Held
  <2>4. RunsSoFar[e] = 0 \/ e \in Noisy
    BY <1>10 DEF RunsSoFar
  <2>5. /\ Told[e] = "pending" /\ Phases[e] = "over"
        /\ Phases' = [Phases EXCEPT ![e] = "trying"]
        /\ Tried[e] = thr[e].n + 1
        /\ Tried' = [Tried EXCEPT ![e] = thr[e].n + 2]
    BY <1>6, <1>8, <2>1, FreshScriptIs, OneChanges DEF Told, Phases, Tried
  <2>6. Tried[e] < MaxRetries + 1 /\ Tried' = [Tried EXCEPT ![e] = Tried[e] + 1]
    <3>1. /\ thr[e].n + 1 < MaxRetries + 1
          /\ (thr[e].n + 1) + 1 = thr[e].n + 2
      BY <1>2, ExecAssumption
    <3> QED
      BY <2>5, <3>1
  <2> QED
    BY <2>3, <2>4, <2>5, <2>6
      DEF X!Again, X!GoesTo, Phases, Tried, Held, RunsSoFar, Told
<1> QED
  BY <1>8, <1>9, <1>11, <1>12, OthersKeep DEF Implements, X!ExecutionNext

\* A thread starts.
LEMMA ThreadStarts ==
  ASSUME ExecInv, NEW e \in Runs, NEW f \in FileNames, NEW m \in Nat,
         thr[e].pc = "none", StartThread(e, f, m), UNCHANGED swarmVars,
         HostTypeOK'
  PROVE  ExecInv' /\ Implements
<1>1. /\ ExecTypeOK /\ Together(e) /\ Reserves(e) /\ RunsOf(e)
      /\ thr[e] \in Thread /\ scr[e] \in Script
  BY TypesOf DEF ExecInv
<1> DEFINE t == [pc |-> "waiting", n |-> 0, file |-> f, memory |-> m]
<1>2. /\ thr[e].pc = "none" /\ thr' = [thr EXCEPT ![e] = t]
      /\ scr' = [scr EXCEPT ![e] = FreshScript]
      /\ UNCHANGED <<ran, logs, swarmVars>>
  BY DEF StartThread
<1>3. t \in Thread /\ t.pc = "waiting" /\ t.n = 0
  BY ExecAssumption, TypesAssumption DEF Thread
<1> HIDE DEF t
<1>5. /\ thr'[e] = t /\ thr' \in [Runs -> Thread]
      /\ scr'[e] = FreshScript /\ scr' \in [Runs -> Script]
  BY <1>1, <1>2, <1>3, FreshScriptIs DEF ExecTypeOK
<1>6. \A k \in Runs : ContainersOf(k)' = ContainersOf(k)
  BY <1>2 DEF ContainersOf, swarmVars
<1>7. \A k \in Runs \ {e} : Same(k)
  BY <1>1, <1>2, <1>6 DEF Same, ExecTypeOK
<1>8. ExecTypeOK'
  BY <1>1, <1>2, <1>5 DEF ExecTypeOK, SwarmTypeOK, nodeVars, swarmVars
<1>9. scr[e].pc = "none" /\ ContainersOf(e) = {} /\ ran[e] = <<>>
  BY <1>1, <1>2 DEF Together, Reserves, RunsOf
<1>10. Together(e)' /\ Reserves(e)' /\ RunsOf(e)'
  BY <1>1, <1>2, <1>3, <1>5, <1>6, <1>9, FreshScriptIs
    DEF Together, Reserves, RunsOf, ScriptStages, BeforeRun
<1>11. X!Accept(e)
  <2>1. /\ Report(thr[e]) = "none" /\ Report(t) = "pending"
        /\ Attempts(t) = 1 /\ Phase(scr[e]) = "none"
    BY <1>2, <1>3, <1>9, PhaseOf DEF Report, Attempts
  <2>2. Held' = Held /\ RunsSoFar' = RunsSoFar
    BY <1>2, <1>6 DEF Held, RunsSoFar
  <2>3. /\ Told[e] = "none" /\ Told' = [Told EXCEPT ![e] = "pending"]
        /\ Phases[e] = "none" /\ Phases' = [Phases EXCEPT ![e] = "trying"]
        /\ Tried' = [Tried EXCEPT ![e] = 1]
    BY <1>5, <1>7, <2>1, FreshScriptIs, OneChanges DEF Told, Phases, Tried
  <2> QED
    BY <2>2, <2>3
      DEF X!Accept, X!GoesTo, Phases, Tried, Held, RunsSoFar, Told
<1> QED
  BY <1>7, <1>8, <1>10, <1>11, OthersKeep DEF Implements, X!ExecutionNext

\* All threads of the listener process end.
LEMMA DieStep ==
  ASSUME ExecInv, ThreadsDie, UNCHANGED swarmVars, HostTypeOK'
  PROVE  ExecInv' /\ Implements
<1>1. ExecTypeOK /\ UNCHANGED <<scr, ran, logs>>
  BY DEF ExecInv, ThreadsDie
<1>2. ASSUME NEW k \in Runs
      PROVE  /\ thr'[k] \in Thread
             /\ thr[k].pc \in {"waiting", "sleeping"} =>
                  /\ thr'[k].pc = "killed" /\ thr'[k].n = thr[k].n
             /\ thr[k].pc \notin {"waiting", "sleeping"} => thr'[k] = thr[k]
  <2> DEFINE t == [thr[k] EXCEPT !.pc = "killed"]
  <2>1. thr[k] \in Thread
    BY <1>1, TypesOf
  <2>2. CASE thr[k].pc \in {"waiting", "sleeping"}
    <3>1. t \in Thread /\ t.pc = "killed" /\ t.n = thr[k].n
      BY <2>1, <2>2 DEF Thread, NoThread
    <3>2. thr'[k] = t
      BY <2>2 DEF ThreadsDie
    <3> HIDE DEF t
    <3> QED
      BY <2>2, <3>1, <3>2
  <2>3. CASE thr[k].pc \notin {"waiting", "sleeping"}
    BY <2>1, <2>3 DEF ThreadsDie
  <2> QED
    BY <2>2, <2>3
<1>3. thr' \in [Runs -> Thread]
  <2>1. thr' = [k \in Runs |-> thr'[k]]
    BY DEF ThreadsDie
  <2> QED
    BY <1>2, <2>1
<1>4. ExecTypeOK'
  BY <1>1, <1>3 DEF ExecTypeOK, SwarmTypeOK, nodeVars, swarmVars
<1>5. \A k \in Runs : ContainersOf(k)' = ContainersOf(k)
  BY DEF ContainersOf, swarmVars
<1>6. ASSUME NEW k \in Runs
      PROVE  Together(k)' /\ Reserves(k)' /\ RunsOf(k)'
  <2>1. Together(k) /\ Reserves(k) /\ RunsOf(k)
    BY DEF ExecInv
  <2> QED
    BY <1>1, <1>2, <1>5, <2>1 DEF Together, Reserves, RunsOf
<1>7. ExecInv'
  BY <1>4, <1>6 DEF ExecInv
<1>8. X!Kill
  <2>1. \A k \in Runs : /\ Attempts(thr'[k]) = Attempts(thr[k])
                        /\ Report(thr'[k]) =
                             IF Report(thr[k]) = "pending" THEN "killed"
                             ELSE Report(thr[k])
    <3> SUFFICES ASSUME NEW k \in Runs
                 PROVE  /\ Attempts(thr'[k]) = Attempts(thr[k])
                        /\ Report(thr'[k]) =
                             IF Report(thr[k]) = "pending" THEN "killed"
                             ELSE Report(thr[k])
      OBVIOUS
    <3>1. thr[k] \in Thread
      BY <1>1, TypesOf
    <3>2. thr[k].pc # "pending"
      BY <3>1 DEF Thread, NoThread
    <3> QED
      BY <1>2, <3>2 DEF Attempts, Report
  <2>2. /\ Phases' = Phases /\ Tried' = Tried /\ Held' = Held
        /\ RunsSoFar' = RunsSoFar
    BY <1>1, <1>5, <2>1 DEF Phases, Tried, Held, RunsSoFar
  <2>3. Told' = [k \in Runs |-> IF Told[k] = "pending" THEN "killed"
                               ELSE Told[k]]
    BY <2>1 DEF Told
  <2> QED
    BY <2>2, <2>3 DEF X!Kill, Phases, Tried, Held, RunsSoFar, Told
<1> QED
  BY <1>7, <1>8 DEF Implements, X!ExecutionNext

----------------------------------------------------------------------------
(* The steps of others. *)

\* Nodes come and go, and containers with them; nothing else of an execution does.
LEMMA ClusterMovesOn ==
  ASSUME ExecInv, UNCHANGED execVars, SwarmTypeOK', HostTypeOK',
         containers' \subseteq containers
  PROVE  ExecInv' /\ Implements
<1>1. /\ ExecTypeOK
      /\ thr' = thr /\ scr' = scr /\ ran' = ran /\ logs' = logs
  BY DEF ExecInv, execVars
<1>2. ExecTypeOK'
  BY <1>1 DEF ExecTypeOK
<1>3. \A k \in Runs : ContainersOf(k)' \subseteq ContainersOf(k)
  BY DEF ContainersOf
<1>4. ASSUME NEW k \in Runs
      PROVE  Together(k)' /\ Reserves(k)' /\ RunsOf(k)'
  <2>1. Together(k) /\ Reserves(k) /\ RunsOf(k)
    BY DEF ExecInv
  <2>2. Together(k)' /\ RunsOf(k)'
    BY <1>1, <2>1 DEF Together, RunsOf
  <2>3. Reserves(k)'
    BY <1>1, <1>3, <2>1 DEF Reserves
  <2> QED
    BY <2>2, <2>3
<1>5. X!Vanish
  <2>1. /\ Phases' = Phases /\ Tried' = Tried
        /\ RunsSoFar' = RunsSoFar /\ Told' = Told
    BY <1>1 DEF Phases, Tried, RunsSoFar, Told
  <2>2. Held' \subseteq Held
    BY <1>3 DEF Held
  <2> QED
    BY <2>1, <2>2 DEF X!Vanish, Phases, Tried, Held, RunsSoFar, Told
<1> QED
  BY <1>2, <1>4, <1>5 DEF ExecInv, Implements, X!ExecutionNext

----------------------------------------------------------------------------
(* The invariant. *)

LEMMA ExecInvInit ==
  ASSUME ExecInit, SwarmInit, HostInit
  PROVE  ExecInv /\ X!ExecutionInit
<1> USE DEF ExecInit, SwarmInit, HostInit
<1>1. NoCode \in Code
  BY DEF NoCode, Code
<1>2. ExecTypeOK
  <2>1. NoThread \in Thread
    BY DEF Thread
  <2>2. NoScript \in Script
    BY <1>1 DEF NoScript, Script
  <2>3. SwarmTypeOK /\ HostTypeOK
    BY <1>1, SwarmAssumption DEF SwarmTypeOK, HostTypeOK
  <2>4. <<>> \in Seq(Code)
    OBVIOUS
  <2> QED
    BY <2>1, <2>2, <2>3, <2>4 DEF ExecTypeOK
<1>3. \A e \in Runs : /\ thr[e].pc = "none" /\ scr[e].pc = "none"
                      /\ scr[e].status = 0 /\ scr[e].error = FALSE
                      /\ ran[e] = <<>> /\ ContainersOf(e) = {}
  BY DEF NoThread, NoScript, ContainersOf
<1>4. \A e \in Runs : Together(e) /\ Reserves(e) /\ RunsOf(e)
  BY <1>3 DEF Together, Reserves, RunsOf, ScriptStages
<1>5. \A e \in Runs : /\ Phase(scr[e]) = "none" /\ Attempts(thr[e]) = 0
                      /\ Report(thr[e]) = "none" /\ Len(ran[e]) = 0
  BY <1>3, PhaseOf DEF Attempts, Report
<1>6. X!ExecutionInit
  BY <1>3, <1>5 DEF X!ExecutionInit
<1> QED
  BY <1>2, <1>4, <1>6 DEF ExecInv

\* What a thread or a script does.
LEMMA ExecInvStep == ASSUME ExecInv, ExecNext PROVE ExecInv' /\ Implements
<1>1. PICK e \in Runs : ThreadStep(e) \/ ScriptStep(e)
  BY DEF ExecNext, ExecStep
<1>2. UNCHANGED disk
  BY DEF ExecNext
<1>3. CASE ThreadStep(e)
  BY <1>2, <1>3, ChecksStep, RetriesStep DEF ThreadStep
<1>4. CASE ScriptStep(e)
  BY <1>2, <1>4, CreatesStep, CopyingStep, StartsStep, ExecutesStep,
     ReturnsStep, StopsStep, RemovesStep DEF ScriptStep
<1> QED
  BY <1>1, <1>3, <1>4

\* What the invariant says of the properties.
LEMMA RunsOnceFollows == ExecInv => RunsOnce
BY DEF ExecInv, RunsOf, RunsOnce

LEMMA OneScriptFollows == ExecInv => OneScriptAtATime
BY DEF ExecInv, Together, OneScriptAtATime

LEMMA LeaksReportedFollows == ExecInv => LeaksAreReported
<1> SUFFICES ASSUME ExecInv, NEW e \in Runs
             PROVE  /\ Cardinality(ContainersOf(e)) <= 1
                    /\ ContainersOf(e) # {} =>
                         scr[e].pc \in ScriptStages \/ scr[e].status = 1
  BY DEF LeaksAreReported
<1>1. Reserves(e) /\ scr[e] \in Script
  BY TypesOf DEF ExecInv
<1>2. Cardinality(ContainersOf(e)) <= 1
  <2>1. CASE ContainersOf(e) = {}
    BY <2>1, FS_EmptySet
  <2>2. ASSUME NEW c \in ContainersOf(e)
        PROVE  Cardinality(ContainersOf(e)) <= 1
    <3>1. ContainersOf(e) = {c}
      BY <1>1 DEF Reserves
    <3>2. Cardinality({c}) = 1
      BY FS_Singleton
    <3> QED
      BY <3>1, <3>2
  <2> QED
    BY <2>1, <2>2
<1>3. ContainersOf(e) # {} => scr[e].pc \in ScriptStages \/ scr[e].status = 1
  BY <1>1 DEF Reserves, Script
<1> QED
  BY <1>2, <1>3
=============================================================================
