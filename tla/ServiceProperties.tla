------------------------- MODULE ServiceProperties -------------------------
(***************************************************************************)
(* What the REST interface and the event listener guarantee together, and  *)
(* what the repository's documents say of them and the code does not keep. *)
(***************************************************************************)
EXTENDS LambdaService, LambdaApiProperties

\* The listener delivers every event at most once and in the order of
\* publication: prefetched messages, crashes, broker restarts and lookups
\* that raise can only lose events.
ImplementsDelivery == D!DeliverySpec

\* The threads start in the order in which the events were published, each
\* event starting at most one.
StartsInOrder ==
  \A i, j \in DOMAIN jobs : i < j => jobs[i].event.num < jobs[j].event.num

\* Every thread that was started is on record: the document with its log_uuid
\* was written first, and nothing but DELETE takes it away.
ThreadsRecorded ==
  "delete" \notin Operations =>
    \A i \in DOMAIN jobs : \E d \in mapping : d.run = jobs[i].event.num

\* The records of the executions of a function for an event source, and the
\* registrations of the function.
RecordsFrom(u, f, s) ==
  {e \in FunctionDocs(u, f) : e.source = s /\ e.run # NoRun}
Registrations(u, f) == {e \in FunctionDocs(u, f) : e.run = NoRun}

\* Two uploads of a name that pass each other give a function two ids and two
\* registrations.
RegisteredOnce(u, f) == \A a, b \in Registrations(u, f) : a = b

\* The n-th execution of a function from an event source has sequence number
\* n, although the number is computed from three queries and other requests
\* upload, register and update in between: unless DELETE takes a record away,
\* or the function has a second registration, which counts as an execution
\* with number 0.
SequenceCountsExecutions ==
  "delete" \notin Operations =>
    \A d \in mapping :
      d.run # NoRun /\ RegisteredOnce(d.user, d.file) =>
        d.seq = Cardinality({e \in RecordsFrom(d.user, d.file, d.source) :
                               e.id <= d.id})

\* The code that is written for an event is code its user uploaded, although
\* the name, the memory and the _id of the function come from three queries
\* between which functions are deleted and registered.
CodeOfUser ==
  lst.pc \in {"get", "read"} =>
    \A g \in files : g.id = lst.id => g.user = lst.msg.user

\* An ObjectId that an execution record uses is never that of a file: DELETE,
\* which treats every document as a registration, deletes no other function's
\* code when it hits an execution record.
RecordsAreNoFiles ==
  \A d \in mapping, g \in files : d.run # NoRun => d.id # g.id

\* A published event is eventually started, dropped or lost, unless the
\* listener has gone down.
EventHandled ==
  \A e \in Runs :
    e \in WaitingEvents ~> (e \notin WaitingEvents \/ lst.pc = "down")

----------------------------------------------------------------------------
(* The inductive invariant. *)

\* What the callback has found out by the time it uses it.
CallbackKnows ==
  /\ lst.pc \in Stages \ {"count", "name"} => lst.name \in FileNames
  /\ lst.pc \in {"copyMemory", "insert", "spawn"} => lst.etype \in Types
  /\ lst.pc \in {"insert", "spawn"} => lst.recorded \in Memories

Before(early, late) == \A i \in early, j \in late : i < j
Increasing(messages) ==
  \A i, j \in DOMAIN messages : i < j => messages[i].num < messages[j].num
InProgress == IF lst.pc \in Stages THEN {lst.msg.num} ELSE {}

\* The events stand in one line, from the executions that were started to the
\* message that was published last.
EventsInLine ==
  /\ Increasing(queue) /\ Increasing(buffer) /\ StartsInOrder
  /\ Before(Numbers(buffer), Numbers(queue))
  /\ Before(InProgress, Numbers(buffer) \union Numbers(queue))
  /\ Before(StartedEvents, WaitingEvents)
  /\ WaitingEvents \union StartedEvents \subseteq 1..sent

\* The callback holds an _id all whose claimants are the user of the event.
IdOfUser ==
  lst.pc \in {"open", "get", "read"} =>
    /\ lst.id < nextId
    /\ \A a \in Claims : a[1] = lst.id => a[2] = lst.msg.user

\* Without DELETE, no request deletes, and the record is there before the
\* thread.
RecordedFirst ==
  "delete" \notin Operations =>
    /\ \A r \in Requests : ~Deletes(r)
    /\ ThreadsRecorded
    /\ lst.pc = "spawn" => \E d \in mapping : d.run = lst.msg.num

\* Without DELETE, the collection has no holes, every function was registered
\* before its first execution, and the number the callback computes counts
\* the record it is going to write.
Counted ==
  "delete" \notin Operations =>
    /\ IsFiniteSet(mapping)
    /\ \A d \in mapping : \A q \in 1..d.pos : \E e \in mapping : e.pos = q
    /\ \A d, e \in mapping : d.id = e.id \/ d.pos = e.pos => d = e
    /\ \A d \in mapping : d.run = NoRun => d.seq = 0
    /\ \A d \in mapping : d.run # NoRun =>
         \E e \in Registrations(d.user, d.file) : e.id < d.id /\ e.pos < d.pos
    /\ SequenceCountsExecutions
Counting ==
  "delete" \notin Operations =>
    LET u == lst.msg.user
        f == lst.msg.file
        records == RecordsFrom(u, f, lst.msg.source)
    IN  /\ lst.pc \in {"increment", "copyType", "copyMemory", "insert"} =>
             FunctionDocs(u, f) # {}
        /\ lst.pc = "increment" => records # {}
        /\ lst.pc \in {"copyType", "copyMemory", "insert"} /\ RegisteredOnce(u, f)
             => lst.seq = Cardinality(records) + 1

\* The inductive strengthening of the invariants above: the requests keep
\* ApiInv, the events stand in line, and what the callback has read is still
\* good where it relies on it.
ServiceInv ==
  /\ ApiInv
  /\ ListenerTypeOK
  /\ CallbackKnows
  /\ EventsInLine
  /\ IdOfUser
  /\ RecordsAreNoFiles
  /\ RecordedFirst
  /\ Counted
  /\ Counting

----------------------------------------------------------------------------
(* Said, and not so. *)

\* README.md: an event invokes the corresponding function.
RunsTheFunctionOfTheEvent ==
  \A i \in DOMAIN jobs : jobs[i].file = jobs[i].event.file

\* The callback comes back for every event: only an operator ends the
\* listener.
CallbackReturns == [][~(CallbackStep /\ lst'.pc = "down")]_serviceVars

\* "Function Deleted!" means that the function is not listed any more.
DeleteRemovesFunction ==
  [][\A r \in Requests :
       (req[r].pc = "delDoc" /\ mapping' # mapping) =>
         ~ \E d \in mapping' : d.user = req[r].user /\ d.file = req[r].file
    ]_serviceVars
=============================================================================
