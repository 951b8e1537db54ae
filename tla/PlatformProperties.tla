------------------------- MODULE PlatformProperties -------------------------
(***************************************************************************)
(* What the execution of functions guarantees, and what the repository's   *)
(* documents say of it and the code does not keep.                         *)
(***************************************************************************)
EXTENDS LambdaPlatform, ExecProperties

PlatformTypeOK == ServiceTypeOK /\ ExecTypeOK

\* What runs was put on the master's disk for some event, and the execution is
\* on record: no execution gets to run before its record is written, and
\* nothing but DELETE takes the record away.
RunsAreRecorded ==
  \A e \in Runs : ran[e] # <<>> =>
    /\ "delete" \notin Operations => \E d \in mapping : d.run = e
    /\ \A i \in DOMAIN ran[e] : ran[e][i].by # NoRun

----------------------------------------------------------------------------
(* The inductive invariant, beside those of the service and of executions. *)

\* Threads belong to events whose callback has come to its end.
ThreadsOfJobs == \A e \in Runs : thr[e].pc # "none" => e \in StartedEvents

\* The callback has opened the file before it starts the thread.
FileOpened ==
  /\ lst.pc \in {"get", "read", "test", "increment", "copyType", "copyMemory",
                "insert", "spawn"} => disk[lst.name].by # NoRun
  /\ \A e \in Runs : thr[e].pc # "none" => disk[thr[e].file].by # NoRun

\* The nodes of a fixed cluster stay, so scp reaches the node of a container,
\* and what runs there was copied from the master.
Places(e) == {c.node : c \in ContainersOf(e)}
CodeCopied(e) ==
  /\ Places(e) \subseteq joined
  /\ scr[e].pc \in {"copy", "write"} => scr[e].target = Places(e)
  /\ scr[e].pc = "write" => scr[e].code.by # NoRun
  /\ scr[e].pc \in {"start", "exec"} =>
       \A n \in Places(e) : nodeFile[n][thr[e].file].by # NoRun
  /\ \A i \in DOMAIN ran[e] : ran[e][i].by # NoRun

PlatformInv ==
  /\ joined = Seed
  /\ ThreadsOfJobs
  /\ FileOpened
  /\ \A e \in Runs : CodeCopied(e)

----------------------------------------------------------------------------
(* Said, and not so. *)

Owner(id) == {g.user : g \in {h \in files : h.id = id}}

\* README.md: the code of a user is executed on an event of the user.
RunsItsUsersCode ==
  \A j \in DOMAIN jobs :
    LET e == jobs[j].event.num
    IN  \A i \in DOMAIN ran[e] :
          ran[e][i].id # 0 => jobs[j].event.user \in Owner(ran[e][i].id)
=============================================================================
