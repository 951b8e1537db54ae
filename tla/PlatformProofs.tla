--------------------------- MODULE PlatformProofs ---------------------------
(***************************************************************************)
(* The executions on a cluster of fixed size, started by the listener: the *)
(* service is not disturbed by them, they implement Execution, and what    *)
(* they run was recorded and put on the master's disk before.              *)
(***************************************************************************)
EXTENDS PlatformProperties, ServiceProofs, ExecutionProofs

----------------------------------------------------------------------------
(* The service. *)

\* Threads and scripts write neither the database nor the master's disk.
LEMMA ServiceStep ==
  ASSUME [PlatformNext]_platformVars
  PROVE  [ServiceNext]_serviceVars
<1>1. CASE ApiNext /\ UNCHANGED <<listenerVars, execVars, swarmVars>>
  BY <1>1 DEF ServiceNext
<1>2. CASE ListenerNext /\ ThreadsFollow /\ UNCHANGED <<req, swarmVars>>
  BY <1>2 DEF ServiceNext
<1>3. CASE ExecNext /\ UNCHANGED <<apiVars, sent, queue, buffer, lst, jobs>>
  BY <1>3 DEF ExecNext, serviceVars, listenerVars
<1>4. CASE UNCHANGED platformVars
  BY <1>4 DEF platformVars
<1>. QED
  BY <1>1, <1>2, <1>3, <1>4 DEF PlatformNext

LEMMA ServiceGoesOn == PlatformSpec => ServiceSpec
<1>1. PlatformInit => ServiceInit
  BY DEF PlatformInit
<1>. QED
  BY <1>1, ServiceStep, PTL DEF PlatformSpec, ServiceSpec

LEMMA ServiceInvOnPlatform == PlatformSpec => []ServiceInv
BY ServiceGoesOn, ServiceInvariant, PTL

----------------------------------------------------------------------------
(* The threads. *)

\* What the listener does for an event, as the threads see it.
LEMMA ListenerForThreads ==
  ASSUME ServiceInv, ListenerNext
  PROVE  \/ jobs' = jobs
         \/ /\ SpawnThread
            /\ \E job \in Job :
                 /\ jobs' = Append(jobs, job)
                 /\ job.file = lst.name
                 /\ InProgress = {job.event.num}
<1>1. CASE SpawnThread
  <2>. DEFINE job == [event |-> lst.msg, file |-> lst.name,
                      memory |-> lst.memory]
  <2>1. /\ lst.msg \in Event /\ lst.name \in FileNames
        /\ lst.memory \in Memories \union {DefaultMemory} \union {0}
    BY <1>1 DEF SpawnThread, ServiceInv, ListenerTypeOK, Stages, CallbackKnows,
       Listener
  <2>2. lst.memory \in Nat
    <3>1. Memories \union {DefaultMemory} \union {0} \subseteq Nat
      BY TypesAssumption, ListenerAssumption
    <3>. QED
      BY <2>1, <3>1, Zenon
  <2>3. job \in Job /\ job.file = lst.name /\ job.event = lst.msg
    BY <2>1, <2>2 DEF Job
  <2>4. jobs' = Append(jobs, job) /\ InProgress = {lst.msg.num}
    BY <1>1 DEF SpawnThread, InProgress, Stages
  <2>. QED
    BY <1>1, <2>3, <2>4
<1>2. CASE ~SpawnThread
  BY <1>2 DEF ListenerNext, CallbackStep, CallbackQuery, Receive, CountMatches,
     ReadName, ReadMemory, ReadId, OpenFile, GetFile, ReadFile, TestSequence,
     IncrementSequence, CopyType, CopyMemory, InsertRecord, Deliver, Crash,
     BrokerRestart, Restart, Publish
<1>. QED
  BY <1>1, <1>2

\* The thread of an event starts once: events in progress have none.
StartsThread(job) ==
  /\ SpawnThread /\ job \in Job /\ jobs' = Append(jobs, job)
  /\ job.file = lst.name
  /\ thr[job.event.num].pc = "none"
  /\ StartThread(job.event.num, job.file, job.memory)

LEMMA ThreadsFollowJobs ==
  ASSUME ServiceInv, ThreadsOfJobs, ListenerNext, ThreadsFollow
  PROVE  \/ \E job : StartsThread(job)
         \/ jobs' = jobs /\ (ThreadsDie \/ UNCHANGED execVars)
<1>1. jobs \in Seq(Job)
  BY DEF ServiceInv, ListenerTypeOK
<1>2. CASE jobs' = jobs
  BY <1>1, <1>2 DEF ThreadsFollow
<1>3. ASSUME SpawnThread, NEW job \in Job, jobs' = Append(jobs, job),
             job.file = lst.name, InProgress = {job.event.num}
      PROVE  StartsThread(job)
  <2>1. /\ Len(jobs') = Len(jobs) + 1 /\ Len(jobs) \in Nat
        /\ jobs'[Len(jobs) + 1] = job
    BY <1>1, <1>3
  <2>2. StartThread(job.event.num, job.file, job.memory)
    BY <2>1 DEF ThreadsFollow
  <2>3. job.event.num \in Runs
    BY DEF Job, Event
  <2>4. job.event.num \in WaitingEvents
    BY <1>3 DEF WaitingEvents, InProgress
  <2>5. job.event.num \notin StartedEvents
    BY <2>3, <2>4, TypesAssumption
      DEF ServiceInv, EventsInLine, Before, Runs
  <2>. QED
    BY <1>3, <2>2, <2>3, <2>5 DEF StartsThread, ThreadsOfJobs
<1>. QED
  BY <1>2, <1>3, ListenerForThreads

\* Every step of the platform is one that ExecutionProofs knows.
LEMMA ExecutionsGoOn ==
  ASSUME ServiceInv, ExecInv, ThreadsOfJobs, [PlatformNext]_platformVars
  PROVE  ExecInv' /\ Implements
<1>1. SwarmTypeOK
  BY DEF ExecInv, ExecTypeOK
<1>2. HostTypeOK'
  <2>1. ServiceInv'
    BY ServiceStep, ServiceInvNext
  <2>. QED
    BY <2>1 DEF ServiceInv, ListenerTypeOK
<1>3. ASSUME UNCHANGED <<execVars, swarmVars>>
      PROVE  ExecInv' /\ Implements
  <2>1. SwarmTypeOK' /\ containers' \subseteq containers
    BY <1>1, <1>3 DEF SwarmTypeOK, swarmVars, nodeVars
  <2>. QED
    BY <1>2, <1>3, <2>1, ClusterMovesOn
<1>4. CASE ListenerNext /\ ThreadsFollow /\ UNCHANGED <<req, swarmVars>>
  <2>1. ASSUME NEW job, StartsThread(job)
        PROVE  ExecInv' /\ Implements
    <3>1. /\ job.event.num \in Runs /\ job.file \in FileNames
          /\ job.memory \in Nat
      BY <2>1 DEF StartsThread, Job, Event
    <3>. QED
      BY <1>2, <1>4, <2>1, <3>1, ThreadStarts DEF StartsThread
  <2>2. CASE ThreadsDie
    BY <1>2, <1>4, <2>2, DieStep
  <2>3. CASE UNCHANGED execVars
    BY <1>3, <1>4, <2>3
  <2>. QED
    BY <1>4, <2>1, <2>2, <2>3, ThreadsFollowJobs
<1>5. CASE ExecNext
  BY <1>5, ExecInvStep
<1>6. CASE ApiNext /\ UNCHANGED <<listenerVars, execVars, swarmVars>>
  BY <1>3, <1>6
<1>7. CASE UNCHANGED platformVars
  BY <1>3, <1>7 DEF platformVars
<1>. QED
  BY <1>4, <1>5, <1>6, <1>7 DEF PlatformNext

\* Where a thread is started, a job was; no thread goes back to where it was
\* not started.
LEMMA ThreadsOfJobsNext ==
  ASSUME ServiceInv, ExecInv, ThreadsOfJobs, [PlatformNext]_platformVars
  PROVE  ThreadsOfJobs'
<1>1. jobs \in Seq(Job) /\ thr \in [Runs -> Thread]
  BY DEF ServiceInv, ListenerTypeOK, ExecInv, ExecTypeOK
<1>2. ASSUME UNCHANGED jobs, \A e \in Runs : thr'[e].pc # "none" => thr[e].pc # "none"
      PROVE  ThreadsOfJobs'
  BY <1>2 DEF ThreadsOfJobs, StartedEvents
<1>3. CASE ListenerNext /\ ThreadsFollow /\ UNCHANGED <<req, swarmVars>>
  <2>1. ASSUME NEW job, StartsThread(job)
        PROVE  ThreadsOfJobs'
    <3>1. StartedEvents' = StartedEvents \union {job.event.num}
      BY <1>1, <2>1, AppendedJob DEF StartsThread
    <3>2. \A e \in Runs \ {job.event.num} : thr'[e] = thr[e]
      BY <1>1, <2>1 DEF StartsThread, StartThread
    <3>. QED
      BY <3>1, <3>2 DEF ThreadsOfJobs
  <2>2. CASE jobs' = jobs /\ ThreadsDie
    BY <1>2, <2>2 DEF ThreadsDie
  <2>3. CASE jobs' = jobs /\ UNCHANGED execVars
    BY <1>2, <2>3 DEF execVars
  <2>. QED
    BY <1>3, <2>1, <2>2, <2>3, ThreadsFollowJobs
<1>4. CASE ExecNext /\ UNCHANGED <<apiVars, sent, queue, buffer, lst, jobs>>
  <2>1. PICK e \in Runs : ThreadStep(e) \/ ScriptStep(e)
    BY <1>4 DEF ExecNext, ExecStep
  <2>2. thr' = thr \/ (thr[e].pc # "none" /\ \A k \in Runs \ {e} : thr'[k] = thr[k])
    BY <1>1, <2>1
      DEF ThreadStep, ThreadChecks, ThreadRetries, ThreadGoesTo, ScriptStep,
          ScriptCreates, ScriptInspects, ScriptCopies, ScriptWrites,
          ScriptStarts, ScriptExecutes, ScriptReturns, ScriptStops,
          ScriptRemoves
  <2>. QED
    BY <1>2, <1>4, <2>2
<1>5. CASE UNCHANGED <<jobs, thr>>
  BY <1>2, <1>5
<1>. QED
  BY <1>3, <1>4, <1>5
    DEF PlatformNext, platformVars, serviceVars, listenerVars, execVars

----------------------------------------------------------------------------
(* The files on the master. *)

\* The callback has opened the file by the time it asks GridFS for it.
Opened == {"get", "read", "test", "increment", "copyType", "copyMemory",
           "insert", "spawn"}

\* A file that was written for some event is only written again.
LEMMA DiskStaysWritten ==
  ASSUME ServiceInv, FileOpened, ListenerNext
  PROVE  /\ \A f \in FileNames : disk[f].by # NoRun => disk'[f].by # NoRun
         /\ lst'.pc \in Opened => disk'[lst'.name].by # NoRun
<1>1. /\ disk \in [FileNames -> Code] /\ lst \in Listener
      /\ lst.pc \in Stages => lst.msg \in Event
      /\ lst.pc \in Stages \ {"count", "name"} => lst.name \in FileNames
      /\ lst.pc \in Opened => disk[lst.name].by # NoRun
  BY DEF ServiceInv, ListenerTypeOK, HostTypeOK, CallbackKnows, FileOpened,
     Opened
<1>2. lst.msg \in Event => lst.msg.num \in Nat /\ lst.msg.num # NoRun
  BY TypesAssumption DEF Event, Runs, NoRun
<1>3. ASSUME lst.pc \in {"open", "read"}, lst'.pc \in {"get", "test"},
             NEW id, disk' = [disk EXCEPT ![lst.name] =
                                [by |-> lst.msg.num, id |-> id]],
             lst'.name = lst.name
      PROVE  /\ \A f \in FileNames : disk[f].by # NoRun => disk'[f].by # NoRun
             /\ disk'[lst'.name].by # NoRun
  BY <1>1, <1>2, <1>3 DEF Stages
<1>4. CASE OpenFile
  <2>1. /\ lst.pc = "open" /\ lst'.pc = "get" /\ lst'.name = lst.name
        /\ disk' = [disk EXCEPT ![lst.name] = [by |-> lst.msg.num, id |-> 0]]
    BY <1>1, <1>4 DEF OpenFile, Listener
  <2>. QED
    BY <1>3, <2>1
<1>5. ASSUME UNCHANGED disk,
             lst'.pc \in Opened => lst.pc \in Opened /\ lst'.name = lst.name
      PROVE  /\ \A f \in FileNames : disk[f].by # NoRun => disk'[f].by # NoRun
             /\ lst'.pc \in Opened => disk'[lst'.name].by # NoRun
  BY <1>1, <1>5
<1>6. CASE ReadFile
  <2>1. CASE lst'.pc = "down" /\ UNCHANGED disk
    BY <1>5, <2>1 DEF Opened
  <2>2. CASE lst' = [lst EXCEPT !.pc = "test"]
    <3>1. /\ lst.pc = "read" /\ lst'.pc = "test" /\ lst'.name = lst.name
          /\ disk' = [disk EXCEPT ![lst.name] =
                        [by |-> lst.msg.num, id |-> lst.id]]
      BY <1>1, <1>6, <2>2 DEF ReadFile, Listener, Die, Down, Idling
    <3>. QED
      BY <1>3, <3>1
  <2>. QED
    BY <1>6, <2>1, <2>2 DEF ReadFile, Die, Down, Idling
<1>7. CASE \/ GetFile \/ TestSequence \/ IncrementSequence \/ CopyType
           \/ CopyMemory \/ InsertRecord
  <2>1. UNCHANGED disk
    BY <1>7 DEF GetFile, TestSequence, IncrementSequence, CopyType, CopyMemory,
       InsertRecord
  <2>2. lst.pc \in Opened
    BY <1>7 DEF GetFile, TestSequence, IncrementSequence, CopyType, CopyMemory,
       InsertRecord, Opened
  <2>3. lst'.pc = "down" \/ lst'.name = lst.name
    <3>. USE <1>1 DEF Listener, Die, Down, Idling
    <3>1. CASE GetFile
      BY <3>1 DEF GetFile
    <3>2. CASE TestSequence
      BY <3>2 DEF TestSequence
    <3>3. CASE IncrementSequence
      BY <3>3 DEF IncrementSequence
    <3>4. CASE CopyType
      BY <3>4 DEF CopyType
    <3>5. CASE CopyMemory
      BY <3>5 DEF CopyMemory
    <3>6. CASE InsertRecord
      BY <3>6 DEF InsertRecord
    <3>. QED
      BY <1>7, <3>1, <3>2, <3>3, <3>4, <3>5, <3>6
  <2>. QED
    BY <1>5, <2>1, <2>2, <2>3 DEF Opened
<1>8. CASE \/ Receive \/ CountMatches \/ ReadName \/ ReadMemory \/ ReadId
           \/ SpawnThread
  <2>1. UNCHANGED disk
    BY <1>8 DEF Receive, CountMatches, ReadName, ReadMemory, ReadId,
       SpawnThread
  <2>2. lst'.pc \in {"count", "idle", "name", "memory", "id", "open", "down"}
    <3>. USE <1>1 DEF Listener, Die, Down, Idling
    <3>1. CASE Receive
      BY <3>1 DEF Receive
    <3>2. CASE CountMatches
      BY <3>2 DEF CountMatches
    <3>3. CASE ReadName
      BY <3>3 DEF ReadName
    <3>4. CASE ReadMemory
      BY <3>4 DEF ReadMemory
    <3>5. CASE ReadId
      BY <3>5 DEF ReadId
    <3>6. CASE SpawnThread
      BY <3>6 DEF SpawnThread
    <3>. QED
      BY <1>8, <3>1, <3>2, <3>3, <3>4, <3>5, <3>6
  <2>. QED
    BY <1>5, <2>1, <2>2 DEF Opened
<1>9. CASE Crash \/ BrokerRestart \/ Restart
  <2>1. UNCHANGED disk /\ lst'.pc \in {"idle", "down"}
    BY <1>9 DEF Crash, BrokerRestart, Restart, Die, Down, Idling
  <2>. QED
    BY <1>5, <2>1 DEF Opened
<1>10. CASE UNCHANGED <<lst, disk>>
  BY <1>5, <1>10
<1>. QED
  BY <1>4, <1>6, <1>7, <1>8, <1>9, <1>10
    DEF ListenerNext, CallbackStep, CallbackQuery, Deliver, Publish

\* Threads keep their file.
LEMMA ThreadKeepsFile ==
  ASSUME ExecInv, NEW e \in Runs, ThreadStep(e) \/ ScriptStep(e)
  PROVE  \A k \in Runs : /\ thr'[k].pc # "none" => thr[k].pc # "none"
                         /\ thr[k].pc # "none" => thr'[k].file = thr[k].file
<1>1. thr \in [Runs -> Thread] /\ thr[e] \in Thread
  BY DEF ExecInv, ExecTypeOK
<1>2. CASE thr' = thr
  BY <1>2
<1>3. CASE ThreadStep(e)
  <2>1. ASSUME NEW stage, thr[e].pc # "none", ThreadGoesTo(e, stage)
        PROVE  thr'[e].file = thr[e].file /\ \A k \in Runs \ {e} : thr'[k] = thr[k]
    BY <1>1, <2>1 DEF ThreadGoesTo, Thread, NoThread
  <2>2. CASE ThreadChecks(e)
    BY <2>1, <2>2 DEF ThreadChecks
  <2>3. CASE ThreadRetries(e)
    <3>1. thr[e].pc = "sleeping" /\ UNCHANGED swarmVars
      BY <1>3, <2>3 DEF ThreadRetries, ThreadStep
    <3>2. thr'[e].file = thr[e].file
      BY <1>1, <2>3, <3>1 DEF ThreadRetries, Thread, NoThread
    <3>3. \A k \in Runs \ {e} : thr'[k] = thr[k]
      BY <1>1, <2>3 DEF ThreadRetries
    <3>. QED
      BY <3>1, <3>2, <3>3
  <2>4. thr[e].pc # "none"
    BY <1>3 DEF ThreadStep, ThreadChecks, ThreadRetries
  <2>. QED
    BY <1>3, <2>2, <2>3, <2>1, <2>4 DEF ThreadStep, ThreadChecks
<1>. QED
  BY <1>2, <1>3
    DEF ScriptStep, ScriptCreates, ScriptInspects, ScriptCopies, ScriptWrites,
        ScriptStarts, ScriptExecutes, ScriptReturns, ScriptStops,
        ScriptRemoves

LEMMA FileOpenedNext ==
  ASSUME ServiceInv, ExecInv, ThreadsOfJobs, FileOpened,
         [PlatformNext]_platformVars
  PROVE  FileOpened'
<1>1. thr \in [Runs -> Thread] /\ disk \in [FileNames -> Code]
  BY DEF ExecInv, ExecTypeOK, HostTypeOK
<1>2. \A e \in Runs : thr[e].pc # "none" => thr[e].file \in FileNames
  BY <1>1 DEF Thread, NoThread
<1>3. ASSUME \A f \in FileNames : disk[f].by # NoRun => disk'[f].by # NoRun,
             NEW e \in Runs,
             thr[e].pc # "none", thr'[e].file = thr[e].file
      PROVE  disk'[thr'[e].file].by # NoRun
  BY <1>2, <1>3 DEF FileOpened
<1>4. CASE ListenerNext /\ ThreadsFollow /\ UNCHANGED <<req, swarmVars>>
  <2>1. /\ \A f \in FileNames : disk[f].by # NoRun => disk'[f].by # NoRun
        /\ lst'.pc \in Opened => disk'[lst'.name].by # NoRun
    BY <1>4, DiskStaysWritten
  <2>2. ASSUME NEW e \in Runs, thr'[e].pc # "none"
        PROVE  disk'[thr'[e].file].by # NoRun
    <3>1. ASSUME NEW job, StartsThread(job)
          PROVE  disk'[thr'[e].file].by # NoRun
      <4>1. CASE e = job.event.num
        <5>1. thr'[e].file = lst.name /\ lst.pc = "spawn"
          BY <1>1, <3>1, <4>1 DEF StartsThread, StartThread, SpawnThread
        <5>2. lst.name \in FileNames
          BY <5>1 DEF ServiceInv, CallbackKnows, Stages
        <5>. QED
          BY <2>1, <5>1, <5>2 DEF FileOpened
      <4>2. CASE e # job.event.num
        <5>1. thr'[e] = thr[e]
          BY <1>1, <3>1, <4>2 DEF StartsThread, StartThread
        <5>. QED
          BY <1>3, <2>1, <2>2, <5>1
      <4>. QED
        BY <4>1, <4>2
    <3>2. CASE ThreadsDie
      <4>1. thr[e].pc # "none" /\ thr'[e].file = thr[e].file
        BY <1>1, <2>2, <3>2 DEF ThreadsDie, Thread, NoThread
      <4>. QED
        BY <1>3, <2>1, <4>1
    <3>3. CASE UNCHANGED execVars
      BY <1>3, <2>1, <2>2, <3>3 DEF execVars
    <3>. QED
      BY <1>4, <3>1, <3>2, <3>3, ThreadsFollowJobs
  <2>. QED
    BY <2>1, <2>2 DEF FileOpened, Opened
<1>5. CASE ExecNext /\ UNCHANGED <<apiVars, sent, queue, buffer, lst, jobs>>
  <2>1. PICK e \in Runs : ThreadStep(e) \/ ScriptStep(e)
    BY <1>5 DEF ExecNext, ExecStep
  <2>2. \A k \in Runs : /\ thr'[k].pc # "none" => thr[k].pc # "none"
                        /\ thr[k].pc # "none" => thr'[k].file = thr[k].file
    BY <2>1, ThreadKeepsFile
  <2>3. UNCHANGED <<disk, lst>>
    BY <1>5 DEF ExecNext
  <2>4. \A k \in Runs : thr'[k].pc # "none" => disk'[thr'[k].file].by # NoRun
    BY <1>3, <2>2, <2>3
  <2>. QED
    BY <2>3, <2>4 DEF FileOpened
<1>6. CASE UNCHANGED <<disk, lst, thr>>
  BY <1>6 DEF FileOpened
<1>. QED
  BY <1>4, <1>5, <1>6
    DEF PlatformNext, platformVars, serviceVars, listenerVars, execVars

----------------------------------------------------------------------------
(* The files on the nodes. *)

\* An execution that a step leaves alone, up to the state of its containers.
Alone(k) ==
  /\ scr'[k] = scr[k] /\ ran'[k] = ran[k] /\ Places(k)' = Places(k)
  /\ thr[k].pc # "none" => thr'[k].file = thr[k].file

NodesStayWritten ==
  \A n \in Nodes, f \in FileNames :
    nodeFile[n][f].by # NoRun => nodeFile'[n][f].by # NoRun

\* Its code stays, as long as files on nodes are only written again.
LEMMA CodeStays ==
  ASSUME ExecInv, NEW k \in Runs, CodeCopied(k), Alone(k), joined' = joined,
         NodesStayWritten
  PROVE  CodeCopied(k)'
<1>1. /\ thr[k] \in Thread /\ Together(k) /\ Places(k) \subseteq Nodes
  BY TypesOf DEF ExecInv, ExecTypeOK, SwarmTypeOK, Container, Places,
     ContainersOf
<1>2. ASSUME scr[k].pc \in {"start", "exec"}, NEW n \in Places(k)
      PROVE  nodeFile'[n][thr'[k].file].by # NoRun
  <2>1. thr[k].pc # "none"
    BY <1>1, <1>2 DEF Together
  <2>2. thr[k].file \in FileNames
    BY <1>1, <2>1 DEF Thread, NoThread
  <2>3. nodeFile[n][thr[k].file].by # NoRun
    BY <1>2 DEF CodeCopied
  <2>. QED
    BY <1>1, <2>1, <2>2, <2>3 DEF Alone, NodesStayWritten
<1>. QED
  BY <1>2 DEF CodeCopied, Alone

\* What the script of e may do to the other executions and to the nodes.
LEMMA OthersAlone ==
  ASSUME ExecInv, NEW e \in Runs, ScriptStep(e)
  PROVE  /\ \A k \in Runs \ {e} : Alone(k)
         /\ thr' = thr /\ joined' = joined
<1>1. /\ scr \in [Runs -> Script] /\ ran \in [Runs -> Seq(Code)]
      /\ ExecTypeOK
  BY DEF ExecInv, ExecTypeOK
<1>2. thr' = thr /\ joined' = joined
  BY DEF ScriptStep, ScriptCreates, ScriptInspects, ScriptCopies,
     ScriptWrites, ScriptStarts, ScriptExecutes, ScriptReturns, ScriptStops,
     ScriptRemoves, nodeVars, swarmVars
<1>3. \A k \in Runs \ {e} : scr'[k] = scr[k]
  BY <1>1 DEF ScriptStep, ScriptCreates, ScriptInspects, ScriptCopies,
     ScriptWrites, ScriptStarts, ScriptExecutes, ScriptReturns, ScriptStops,
     ScriptRemoves, ScriptGoesTo
<1>4. \A k \in Runs \ {e} : ran'[k] = ran[k]
  BY <1>1 DEF ScriptStep, ScriptCreates, ScriptInspects, ScriptCopies,
     ScriptWrites, ScriptStarts, ScriptExecutes, ScriptReturns, ScriptStops,
     ScriptRemoves
<1>5. \A k \in Runs \ {e} : ContainersOf(k)' = ContainersOf(k)
  <2>1. CASE containers' = containers
    BY <2>1 DEF ContainersOf
  <2>2. CASE \E b \in BOOLEAN : SetUp(e, b)
    BY <1>1, <2>2, SetUpKeeps
  <2>3. CASE CreateContainer(e, thr[e].memory)
    BY <2>3 DEF CreateContainer, ContainersOf
  <2>4. CASE containers' = containers \ ContainersOf(e)
    BY <2>4 DEF ContainersOf
  <2>. QED
    BY <2>1, <2>2, <2>3, <2>4
      DEF ScriptStep, ScriptCreates, ScriptInspects, ScriptCopies,
          ScriptWrites, ScriptStarts, ScriptExecutes, ScriptReturns,
          ScriptStops, ScriptRemoves, swarmVars, Outcomes
<1>. QED
  BY <1>2, <1>3, <1>4, <1>5 DEF Alone, Places

\* The next command of a script.
LEMMA StageOf ==
  ASSUME ExecInv, NEW e \in Runs, NEW stage, ScriptGoesTo(e, stage)
  PROVE  scr'[e].pc = stage /\ scr'[e].target = scr[e].target
<1>1. scr \in [Runs -> Script] /\ scr[e] \in Script
  BY DEF ExecInv, ExecTypeOK
<1>. QED
  BY <1>1 DEF ScriptGoesTo, Script

\* docker inspect and scp bring the code to where the container is.
LEMMA CodeIsCopied ==
  ASSUME ExecInv, FileOpened, NEW e \in Runs, CodeCopied(e),
         ScriptInspects(e) \/ ScriptCopies(e) \/ ScriptWrites(e)
  PROVE  CodeCopied(e)' /\ NodesStayWritten
<1>1. /\ scr \in [Runs -> Script] /\ scr[e] \in Script /\ thr[e] \in Thread
      /\ Together(e) /\ Places(e) \subseteq Nodes
      /\ nodeFile \in [Nodes -> [FileNames -> Code]]
  BY TypesOf DEF ExecInv, ExecTypeOK, SwarmTypeOK, Container, Places,
     ContainersOf
<1>2. /\ Places(e)' = Places(e) /\ joined' = joined /\ ran' = ran
      /\ thr' = thr
  BY DEF ScriptInspects, ScriptCopies, ScriptWrites, Places, ContainersOf,
     swarmVars, nodeVars
<1>3. CASE ScriptInspects(e)
  <2>1. scr'[e].pc = "copy" /\ scr'[e].target = Places(e)
    BY <1>1, <1>3 DEF ScriptInspects, Script, Places
  <2>2. NodesStayWritten
    BY <1>3 DEF ScriptInspects, NodesStayWritten, swarmVars
  <2>. QED
    BY <1>2, <2>1, <2>2 DEF CodeCopied
<1>4. CASE ScriptCopies(e)
  <2>1. NodesStayWritten /\ scr[e].pc = "copy"
    BY <1>4 DEF ScriptCopies, NodesStayWritten, swarmVars
  <2>2. CASE scr[e].target \intersect joined = {}
    <3>1. scr'[e].pc = "start"
      BY <1>4, <2>2, StageOf DEF ScriptCopies
    <3>2. Places(e) = {}
      BY <2>1, <2>2 DEF CodeCopied
    <3>. QED
      BY <1>2, <2>1, <3>1, <3>2 DEF CodeCopied
  <2>3. CASE scr[e].target \intersect joined # {}
    <3>1. /\ scr'[e].pc = "write" /\ scr'[e].target = scr[e].target
          /\ scr'[e].code = disk[thr[e].file]
      BY <1>1, <1>4, <2>3 DEF ScriptCopies, Script
    <3>2. disk[thr[e].file].by # NoRun
      BY <1>1, <2>1 DEF Together, FileOpened
    <3>. QED
      BY <1>2, <2>1, <3>1, <3>2 DEF CodeCopied
  <2>. QED
    BY <2>2, <2>3
<1>5. CASE ScriptWrites(e)
  <2>1. /\ scr[e].pc = "write" /\ scr[e].code.by # NoRun
        /\ scr[e].target = Places(e) /\ Places(e) \subseteq joined
    BY <1>5 DEF ScriptWrites, CodeCopied
  <2>2. thr[e].file \in FileNames
    BY <1>1, <2>1 DEF Together, Thread, NoThread
  <2>3. scr[e].target \intersect joined = Places(e)
    BY <2>1
  <2>4. ASSUME NEW n \in Nodes, NEW f \in FileNames
        PROVE  /\ nodeFile'[n][f] =
                    IF n \in Places(e) /\ f = thr[e].file THEN scr[e].code
                    ELSE nodeFile[n][f]
    <3>1. nodeFile'[n] = IF n \in Places(e)
                         THEN [nodeFile[n] EXCEPT ![thr[e].file] = scr[e].code]
                         ELSE nodeFile[n]
      BY <1>5, <2>3 DEF ScriptWrites
    <3>2. nodeFile[n] \in [FileNames -> Code]
      BY <1>1
    <3>. QED
      BY <3>1, <3>2
  <2>5. NodesStayWritten /\ \A n \in Places(e) : nodeFile'[n][thr[e].file].by # NoRun
    BY <1>1, <2>1, <2>2, <2>4 DEF NodesStayWritten
  <2>6. scr'[e].pc = "start"
    BY <1>5, StageOf DEF ScriptWrites
  <2>. QED
    BY <1>2, <2>1, <2>5, <2>6 DEF CodeCopied
<1>. QED
  BY <1>3, <1>4, <1>5

\* docker start leaves containers where they are; docker exec runs what was
\* copied there.
LEMMA CodeIsRun ==
  ASSUME ExecInv, NEW e \in Runs, CodeCopied(e),
         ScriptStarts(e) \/ ScriptExecutes(e)
  PROVE  CodeCopied(e)' /\ UNCHANGED nodeFile
<1>1. /\ ExecTypeOK /\ ran \in [Runs -> Seq(Code)] /\ ran[e] \in Seq(Code)
      /\ thr[e] \in Thread /\ Together(e) /\ Places(e) \subseteq Nodes
      /\ nodeFile \in [Nodes -> [FileNames -> Code]]
      /\ \A c \in ContainersOf(e) : c \in Container
  BY TypesOf DEF ExecInv, ExecTypeOK, SwarmTypeOK, Container, Places,
     ContainersOf
<1>2. thr' = thr /\ joined' = joined /\ UNCHANGED nodeFile
  BY DEF ScriptStarts, ScriptExecutes, swarmVars, nodeVars
<1>3. CASE ScriptStarts(e)
  <2>1. PICK b \in BOOLEAN : SetUp(e, b)
    BY <1>3 DEF ScriptStarts, Outcomes
  <2>2. ContainersOf(e)' = {[c EXCEPT !.up = b] : c \in ContainersOf(e)}
    BY <1>1, <2>1, SetUpKeeps
  <2>3. \A c \in ContainersOf(e) : [c EXCEPT !.up = b].node = c.node
    BY <1>1 DEF Container
  <2>4. Places(e)' = Places(e)
    <3>. DEFINE SetUpOne(c) == [c EXCEPT !.up = b]
    <3>1. /\ Places(e)' = {d.node : d \in ContainersOf(e)'}
          /\ ContainersOf(e)' = {SetUpOne(c) : c \in ContainersOf(e)}
          /\ \A c \in ContainersOf(e) : SetUpOne(c).node = c.node
      BY <2>2, <2>3 DEF Places
    <3>. HIDE DEF SetUpOne
    <3>2. Places(e)' = {SetUpOne(c).node : c \in ContainersOf(e)}
      BY <3>1
    <3>. QED
      BY <3>1, <3>2 DEF Places
  <2>5. scr'[e].pc = "exec" /\ scr[e].pc = "start" /\ ran' = ran
    BY <1>3, StageOf DEF ScriptStarts
  <2>. QED
    BY <1>2, <2>4, <2>5 DEF CodeCopied
<1>4. CASE ScriptExecutes(e)
  <2>1. Places(e)' = Places(e) /\ scr[e].pc = "exec"
    BY <1>4 DEF ScriptExecutes, Places, ContainersOf, swarmVars
  <2>2. CASE ScriptGoesTo(e, "stop") /\ UNCHANGED ran
    BY <1>2, <2>1, <2>2, StageOf DEF CodeCopied
  <2>3. ASSUME NEW c \in ContainersOf(e), ScriptGoesTo(e, "running"),
               ran' = [ran EXCEPT ![e] =
                         Append(@, nodeFile[c.node][thr[e].file])]
        PROVE  CodeCopied(e)'
    <3>. DEFINE code == nodeFile[c.node][thr[e].file]
    <3>1. c.node \in Places(e)
      BY DEF Places
    <3>2. code.by # NoRun
      BY <2>1, <3>1 DEF CodeCopied
    <3>3. ran'[e] = Append(ran[e], code)
      BY <1>1, <2>3
    <3>. HIDE DEF code
    <3>4. \A i \in DOMAIN ran'[e] : ran'[e][i].by # NoRun
      <4>1. /\ DOMAIN ran'[e] = 1..(Len(ran[e]) + 1)
            /\ DOMAIN ran[e] = 1..Len(ran[e])
            /\ ran'[e][Len(ran[e]) + 1] = code
            /\ \A i \in 1..Len(ran[e]) : ran'[e][i] = ran[e][i]
        BY <1>1, <3>3
      <4>2. Len(ran[e]) \in Nat
        BY <1>1
      <4>3. \A i \in DOMAIN ran[e] : ran[e][i].by # NoRun
        BY DEF CodeCopied
      <4>. QED
        BY <3>2, <4>1, <4>2, <4>3
    <3>5. scr'[e].pc = "running"
      BY <2>3, StageOf
    <3>. QED
      BY <1>2, <2>1, <3>4, <3>5 DEF CodeCopied
  <2>4. \/ ScriptGoesTo(e, "stop") /\ UNCHANGED ran
        \/ \E c \in ContainersOf(e) :
             /\ ran' = [ran EXCEPT ![e] =
                           Append(@, nodeFile[c.node][thr[e].file])]
             /\ ScriptGoesTo(e, "running")
    <3>. DEFINE up == {c \in LiveContainersOf(e) : c.up}
    <3>1. up \subseteq ContainersOf(e)
      BY DEF LiveContainersOf
    <3>2. \/ up = {} /\ ScriptGoesTo(e, "stop") /\ UNCHANGED ran
          \/ \E c \in up :
               /\ ran' = [ran EXCEPT ![e] =
                             Append(@, nodeFile[c.node][thr[e].file])]
               /\ ScriptGoesTo(e, "running")
      BY <1>4, Zenon DEF ScriptExecutes
    <3>. HIDE DEF up
    <3>. QED
      BY <3>1, <3>2
  <2>. QED
    BY <1>2, <2>2, <2>3, <2>4
<1>. QED
  BY <1>2, <1>3, <1>4

\* The rest of a script neither copies nor runs code.
LEMMA CodeIsLeft ==
  ASSUME ExecInv, NEW e \in Runs, CodeCopied(e),
         \/ ScriptCreates(e) \/ ScriptReturns(e) \/ ScriptStops(e)
         \/ ScriptRemoves(e)
  PROVE  CodeCopied(e)' /\ UNCHANGED nodeFile
<1>1. /\ ExecTypeOK /\ scr \in [Runs -> Script] /\ scr[e] \in Script
      /\ \A c \in ContainersOf(e) : c \in Container
  BY TypesOf DEF ExecInv, ExecTypeOK, SwarmTypeOK, ContainersOf
<1>2. ran' = ran /\ joined' = joined /\ UNCHANGED nodeFile
  BY DEF ScriptCreates, ScriptReturns, ScriptStops, ScriptRemoves, nodeVars,
     swarmVars
<1>3. scr'[e].pc \in {"inspect", "done", "stop", "remove"}
  <2>1. CASE ScriptCreates(e)
    <3>1. CASE ScriptGoesTo(e, "inspect")
      BY <3>1, StageOf
    <3>2. CASE scr' = [scr EXCEPT ![e].pc = "done", ![e].error = TRUE]
      BY <1>1, <3>2 DEF Script
    <3>. QED
      BY <2>1, <3>1, <3>2 DEF ScriptCreates
  <2>2. CASE ScriptReturns(e)
    BY <1>1, <2>2 DEF ScriptReturns, Script
  <2>3. CASE ScriptStops(e)
    BY <2>3, StageOf DEF ScriptStops
  <2>4. CASE ScriptRemoves(e)
    <3>1. CASE ScriptGoesTo(e, "done")
      BY <3>1, StageOf
    <3>2. CASE scr' = [scr EXCEPT ![e].pc = "done", ![e].status = 1]
      BY <1>1, <3>2 DEF Script
    <3>. QED
      BY <2>4, <3>1, <3>2 DEF ScriptRemoves
  <2>. QED
    BY <2>1, <2>2, <2>3, <2>4
<1>4. Places(e)' \subseteq joined
  <2>1. Places(e) \subseteq joined
    BY DEF CodeCopied
  <2>2. CASE containers' \subseteq containers
    BY <2>1, <2>2 DEF Places, ContainersOf
  <2>3. CASE CreateContainer(e, thr[e].memory)
    <3>1. PICK n \in Packed(thr[e].memory) :
            containers' = containers \union
              {[run |-> e, node |-> n, memory |-> thr[e].memory,
                up |-> FALSE]}
      BY <2>3 DEF CreateContainer
    <3>2. n \in joined
      BY DEF Packed, Fitting
    <3>3. Places(e)' \subseteq Places(e) \union {n}
      BY <3>1 DEF Places, ContainersOf
    <3>. QED
      BY <2>1, <3>2, <3>3
  <2>4. CASE SetUp(e, FALSE)
    <3>1. ContainersOf(e)' = {[c EXCEPT !.up = FALSE] : c \in ContainersOf(e)}
      BY <1>1, <2>4, SetUpKeeps
    <3>2. \A c \in ContainersOf(e) : [c EXCEPT !.up = FALSE].node = c.node
      BY <1>1 DEF Container
    <3>. QED
      BY <2>1, <3>1, <3>2 DEF Places
  <2>. QED
    BY <2>2, <2>3, <2>4
      DEF ScriptCreates, ScriptReturns, ScriptStops, ScriptRemoves, swarmVars
<1>. QED
  BY <1>2, <1>3, <1>4 DEF CodeCopied

----------------------------------------------------------------------------
(* The invariant. *)

LEMMA CodeCopiedNext ==
  ASSUME ServiceInv, ExecInv, PlatformInv, [PlatformNext]_platformVars
  PROVE  joined' = joined /\ \A e \in Runs : CodeCopied(e)'
<1>0. ThreadsOfJobs /\ FileOpened /\ \A e \in Runs : CodeCopied(e)
  BY DEF PlatformInv
<1>1. thr \in [Runs -> Thread] /\ scr \in [Runs -> Script]
  BY DEF ExecInv, ExecTypeOK
<1>2. ASSUME UNCHANGED swarmVars, \A e \in Runs : Alone(e)
      PROVE  joined' = joined /\ \A e \in Runs : CodeCopied(e)'
  <2>1. joined' = joined /\ NodesStayWritten
    BY <1>2 DEF swarmVars, nodeVars, NodesStayWritten
  <2>. QED
    BY <1>0, <1>2, <2>1, CodeStays
<1>3. ASSUME UNCHANGED swarmVars
      PROVE  \A e \in Runs : Places(e)' = Places(e)
  BY <1>3 DEF swarmVars, Places, ContainersOf
<1>4. CASE ListenerNext /\ ThreadsFollow /\ UNCHANGED <<req, swarmVars>>
  <2>1. ASSUME NEW job, StartsThread(job)
        PROVE  joined' = joined /\ \A e \in Runs : CodeCopied(e)'
    <3>. DEFINE new == job.event.num
    <3>1. /\ new \in Runs /\ thr[new].pc = "none" /\ ran' = ran
          /\ scr' = [scr EXCEPT ![new] = FreshScript]
          /\ \A e \in Runs \ {new} : thr'[e] = thr[e]
      BY <1>1, <2>1 DEF StartsThread, StartThread, Job, Event
    <3>. HIDE DEF new
    <3>2. \A e \in Runs \ {new} : Alone(e)
      BY <1>1, <1>3, <1>4, <3>1 DEF Alone
    <3>3. joined' = joined /\ NodesStayWritten
      BY <1>4 DEF swarmVars, nodeVars, NodesStayWritten
    <3>4. CodeCopied(new)'
      <4>1. scr'[new].pc = "create"
        BY <1>1, <3>1, FreshScriptIs
      <4>. QED
        BY <1>0, <1>3, <1>4, <3>1, <3>3, <4>1 DEF CodeCopied
    <3>. QED
      BY <1>0, <3>1, <3>2, <3>3, <3>4, CodeStays
  <2>2. CASE ThreadsDie
    <3>1. scr' = scr /\ ran' = ran
      BY <2>2 DEF ThreadsDie
    <3>2. \A e \in Runs : thr[e].pc # "none" => thr'[e].file = thr[e].file
      BY <1>1, <2>2 DEF ThreadsDie, Thread, NoThread
    <3>. QED
      BY <1>2, <1>3, <1>4, <3>1, <3>2 DEF Alone
  <2>3. CASE UNCHANGED execVars
    BY <1>2, <1>3, <1>4, <2>3 DEF execVars, Alone
  <2>. QED
    BY <1>4, <2>1, <2>2, <2>3, <1>0, ThreadsFollowJobs
<1>5. CASE ExecNext
  <2>1. PICK e \in Runs : ThreadStep(e) \/ ScriptStep(e)
    BY <1>5 DEF ExecNext, ExecStep
  <2>2. CASE ThreadStep(e)
    <3>1. /\ ran' = ran /\ UNCHANGED swarmVars
          /\ \A k \in Runs \ {e} : scr'[k] = scr[k]
          /\ scr'[e] = scr[e] \/ scr'[e].pc = "create"
      BY <1>1, <2>2, FreshScriptIs
        DEF ThreadStep, ThreadChecks, ThreadRetries
    <3>2. \A k \in Runs : thr[k].pc # "none" => thr'[k].file = thr[k].file
      BY <2>2, ThreadKeepsFile
    <3>3. \A k \in Runs : scr'[k] = scr[k] => Alone(k)
      BY <1>3, <3>1, <3>2 DEF Alone
    <3>4. joined' = joined /\ NodesStayWritten
      BY <3>1 DEF swarmVars, nodeVars, NodesStayWritten
    <3>5. scr'[e].pc = "create" => CodeCopied(e)'
      BY <1>0, <1>3, <3>1, <3>4 DEF CodeCopied
    <3>. QED
      BY <1>0, <3>1, <3>3, <3>4, <3>5, CodeStays
  <2>3. CASE ScriptStep(e)
    <3>1. /\ \A k \in Runs \ {e} : Alone(k)
          /\ thr' = thr /\ joined' = joined
      BY <2>3, OthersAlone
    <3>2. CodeCopied(e)' /\ (NodesStayWritten \/ UNCHANGED nodeFile)
      BY <1>0, <2>3, CodeIsCopied, CodeIsRun, CodeIsLeft DEF ScriptStep
    <3>3. NodesStayWritten
      BY <3>2 DEF NodesStayWritten
    <3>. QED
      BY <1>0, <3>1, <3>2, <3>3, CodeStays
  <2>. QED
    BY <2>1, <2>2, <2>3
<1>6. CASE UNCHANGED <<execVars, swarmVars>>
  BY <1>2, <1>3, <1>6 DEF execVars, Alone
<1>. QED
  BY <1>4, <1>5, <1>6 DEF PlatformNext, platformVars

\* The invariants together.
AllInv == ServiceInv /\ ExecInv /\ PlatformInv

LEMMA AllInvInit ==
  ASSUME PlatformInit
  PROVE  AllInv /\ X!ExecutionInit
<1>1. ServiceInv
  BY ServiceInvInit DEF PlatformInit
<1>2. ExecInv /\ X!ExecutionInit
  BY ExecInvInit DEF PlatformInit, ServiceInit, ListenerInit
<1>3. /\ \A e \in Runs : /\ thr[e].pc = "none" /\ scr[e].pc = "none"
                         /\ ran[e] = <<>> /\ Places(e) = {}
      /\ joined = Seed /\ lst.pc = "idle"
  BY EndOfCallback DEF PlatformInit, ServiceInit, ListenerInit, ExecInit,
     SwarmInit, NoThread, NoScript, Places, ContainersOf
<1>4. ThreadsOfJobs /\ FileOpened /\ \A e \in Runs : CodeCopied(e)
  BY <1>3 DEF ThreadsOfJobs, FileOpened, CodeCopied
<1>. QED
  BY <1>1, <1>2, <1>3, <1>4 DEF AllInv, PlatformInv

LEMMA AllInvNext ==
  ASSUME AllInv, [PlatformNext]_platformVars
  PROVE  AllInv' /\ Implements
<1>0. /\ ServiceInv /\ ExecInv /\ PlatformInv /\ ThreadsOfJobs /\ FileOpened
      /\ joined = Seed
  BY DEF AllInv, PlatformInv
<1>1. ServiceInv'
  BY <1>0, ServiceStep, ServiceInvNext
<1>2. ExecInv' /\ Implements
  BY <1>0, ExecutionsGoOn
<1>3. ThreadsOfJobs' /\ FileOpened'
  BY <1>0, ThreadsOfJobsNext, FileOpenedNext
<1>4. joined' = joined /\ \A e \in Runs : CodeCopied(e)'
  BY <1>0, CodeCopiedNext
<1>. QED
  BY <1>0, <1>1, <1>2, <1>3, <1>4 DEF AllInv, PlatformInv

LEMMA AllInvariant == PlatformSpec => []AllInv
BY AllInvInit, AllInvNext, PTL DEF PlatformSpec

\* The listener, its threads and their scripts keep the files, the records and
\* the executions in step, whatever crashes, fails or is repeated.
THEOREM PlatformInvariant == PlatformSpec => []PlatformInv
<1>1. AllInv => PlatformInv
  BY DEF AllInv
<1>. QED
  BY <1>1, AllInvariant, PTL

\* Every document, message, thread, script, container and file has the form
\* the code gives it.
THEOREM PlatformTypeCorrect == PlatformSpec => []PlatformTypeOK
<1>1. AllInv => PlatformTypeOK
  BY DEF AllInv, ServiceInv, ApiInv, ExecInv, ServiceTypeOK, PlatformTypeOK
<1>. QED
  BY <1>1, AllInvariant, PTL

\* Nothing runs that was not put on the master's disk for an event, and unless
\* DELETE is used whatever runs is on record.
THEOREM RunsAreRecordedCorrect == PlatformSpec => []RunsAreRecorded
<1>1. AllInv => RunsAreRecorded
  <2>. SUFFICES ASSUME AllInv, NEW e \in Runs, ran[e] # <<>>
                PROVE  /\ "delete" \notin Operations =>
                            \E d \in mapping : d.run = e
                       /\ \A i \in DOMAIN ran[e] : ran[e][i].by # NoRun
    BY DEF RunsAreRecorded
  <2>1. thr[e].pc # "none"
    BY DEF AllInv, ExecInv, Together, RunsOf
  <2>2. e \in StartedEvents
    BY <2>1 DEF AllInv, PlatformInv, ThreadsOfJobs
  <2>3. ThreadsRecorded
    BY DEF AllInv, ServiceInv, RecordedFirst, ThreadsRecorded
  <2>4. "delete" \notin Operations => \E d \in mapping : d.run = e
    BY <2>2, <2>3 DEF ThreadsRecorded, StartedEvents
  <2>. QED
    BY <2>4 DEF AllInv, PlatformInv, CodeCopied
<1>. QED
  BY <1>1, AllInvariant, PTL

\* What the listener starts runs its function at most once for an event ...
THEOREM RunsOnceOnPlatform == PlatformSpec => []RunsOnce
<1>1. AllInv => RunsOnce
  BY RunsOnceFollows DEF AllInv
<1>. QED
  BY <1>1, AllInvariant, PTL

\* ... has one script of an execution at work, also when the listener is killed
\* and started again ...
THEOREM OneScriptOnPlatform == PlatformSpec => []OneScriptAtATime
<1>1. AllInv => OneScriptAtATime
  BY OneScriptFollows DEF AllInv
<1>. QED
  BY <1>1, AllInvariant, PTL

\* ... and leaves no container behind that a failed script does not tell of.
THEOREM LeaksOnPlatform == PlatformSpec => []LeaksAreReported
<1>1. AllInv => LeaksAreReported
  BY LeaksReportedFollows DEF AllInv
<1>. QED
  BY <1>1, AllInvariant, PTL

\* The executions that the listener starts are sequences of attempts as
\* Execution describes them.
THEOREM ImplementsExecutionOnPlatform == PlatformSpec => ImplementsExecution
<1>1. AllInv /\ [PlatformNext]_platformVars
        => [X!ExecutionNext]_(X!executionVars)
  BY AllInvNext DEF Implements
<1>. QED
  BY <1>1, AllInvInit, AllInvariant, PTL
    DEF PlatformSpec, ImplementsExecution, X!ExecutionSpec

\* The executions do not disturb the service: its events are started in order
\* and at most once.
THEOREM ImplementsDeliveryOnPlatform ==
  PlatformSpec => ImplementsDelivery
BY ServiceGoesOn, ImplementsDeliveryCorrect, PTL

=============================================================================
