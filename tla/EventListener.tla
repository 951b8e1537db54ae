--------------------------- MODULE EventListener ---------------------------
(***************************************************************************)
(* Events on their way from the event sources to the execution threads:    *)
(* EventSource/Queueing/EventDispatcher.rb publishes into the RabbitMQ     *)
(* queue "lambda Queue"; the process queueReceiver.py consumes it and, in  *)
(* the consumer callback, runs Estrator.createEnvironment, which looks the *)
(* function up, writes its code to the master host, records the execution  *)
(* and starts the thread that runs it.                                     *)
(*                                                                         *)
(* The callbacks of the process run one after the other.  Each query they  *)
(* make is a step, since the REST interface works on the same collections: *)
(* result[0] asks the database anew every time.  An exception leaves the   *)
(* callback and ends the process, which nothing restarts.                  *)
(*                                                                         *)
(* Definitions named X_Y are faulty variants of X that the properties must *)
(* tell from X; no specification uses them.                                *)
(***************************************************************************)
EXTENDS Mongo, MasterHost, Sequences

CONSTANTS
  DefaultMemory,  \* the memory of a container when the document has none
  None            \* no value

ASSUME ListenerAssumption ==
  /\ DefaultMemory \in Nat \ {0}
  /\ None \notin FileNames \union Types \union Event

VARIABLES
  sent,    \* number of events published so far
  queue,   \* messages the broker holds
  buffer,  \* messages delivered to the process, acknowledged on delivery
  lst,     \* the listener process: what the callback has found out so far
  jobs     \* the executions started so far, in the order of their start

listenerVars == <<sent, queue, buffer, lst, jobs, disk>>

Stages == {"count", "name", "memory", "id", "open", "get", "read", "test",
           "increment", "copyType", "copyMemory", "insert", "spawn"}

Idling == [pc |-> "idle", msg |-> None, name |-> None, memory |-> 0, id |-> 0,
           size |-> 0, seq |-> 0, etype |-> None, recorded |-> 0]
Down == [Idling EXCEPT !.pc = "down"]

Listener ==
  [pc : Stages \union {"idle", "down"}, msg : Event \union {None},
   name : FileNames \union {None},
   memory : Memories \union {DefaultMemory}  \union {0},
   id : Ids \union {0}, size : 0..MaxChunks, seq : Nat, etype : Types \union {None},
   recorded : Memories \union {0}]

Job == [event : Event, file : FileNames, memory : Nat]

ListenerTypeOK ==
  /\ sent \in 0..MaxEvents
  /\ queue \in Seq(Event)
  /\ buffer \in Seq(Event)
  /\ lst \in Listener
  /\ lst.pc \in Stages => lst.msg \in Event
  /\ jobs \in Seq(Job)
  /\ HostTypeOK

ListenerInit ==
  /\ sent = 0
  /\ queue = <<>>
  /\ buffer = <<>>
  /\ lst = Idling
  /\ jobs = <<>>
  /\ HostInit

----------------------------------------------------------------------------
(* The queue. *)

\* An event source fires: EventDispatcher.send_event publishes, unconfirmed.
Publish(u, f, s, t) ==
  /\ sent < MaxEvents
  /\ sent' = sent + 1
  /\ queue' = Append(queue, [num |-> sent + 1, user |-> u, file |-> f,
                             source |-> s, etype |-> t])
  /\ UNCHANGED <<buffer, lst, jobs, disk>>

\* no_ack: the broker forgets a message when it has sent it to the consumer,
\* which may still be busy with an earlier one.
Deliver ==
  /\ lst.pc # "down"
  /\ queue # <<>>
  /\ buffer' = Append(buffer, Head(queue))
  /\ queue' = Tail(queue)
  /\ UNCHANGED <<sent, lst, jobs, disk>>

\* The process ends: an exception in the callback, stop-lambda-service.sh, a
\* lost connection.  Buffered messages and the event in progress are gone.
Die == lst' = Down /\ buffer' = <<>>

Crash ==
  /\ lst.pc # "down"
  /\ Die
  /\ UNCHANGED <<sent, queue, jobs, disk>>

\* The queue is not durable, and the consumer does not reconnect.
BrokerRestart ==
  /\ queue' = <<>>
  /\ Die
  /\ UNCHANGED <<sent, jobs, disk>>

\* The operator runs start-lambda-service.sh again.
Restart ==
  /\ lst.pc = "down"
  /\ lst' = Idling
  /\ UNCHANGED <<sent, queue, buffer, jobs, disk>>

----------------------------------------------------------------------------
(* The consumer callback. *)

Receive_Newest ==
  /\ lst.pc = "idle"
  /\ buffer # <<>>
  /\ lst' = [lst EXCEPT !.pc = "count", !.msg = buffer[Len(buffer)]]
  /\ buffer' = SubSeq(buffer, 1, Len(buffer) - 1)
  /\ UNCHANGED <<sent, queue, jobs, disk>>

\* validatePayload accepts every body.  findData only builds a cursor.
Receive ==
  /\ lst.pc = "idle"
  /\ buffer # <<>>
  /\ lst' = [lst EXCEPT !.pc = "count", !.msg = Head(buffer)]
  /\ buffer' = Tail(buffer)
  /\ UNCHANGED <<sent, queue, jobs, disk>>

Found_AnyUser == mapping

\* The documents findData asks for: those of the user, whatever the function
\* and the event source.
Found == UserDocs(lst.msg.user)

CountMatches_Waits ==
  /\ lst.pc = "count"
  /\ lst' = IF Found = {} THEN lst ELSE [lst EXCEPT !.pc = "name"]
  /\ UNCHANGED <<sent, queue, buffer, jobs, disk>>

\* result.count(): "not matching records found for the event."
CountMatches ==
  /\ lst.pc = "count"
  /\ lst' = IF Found = {} THEN Idling ELSE [lst EXCEPT !.pc = "name"]
  /\ UNCHANGED <<sent, queue, buffer, jobs, disk>>

\* result[0] asks for the first document again: IndexError when the user has
\* none any more.
ReadName ==
  /\ lst.pc = "name"
  /\ \/ Found = {} /\ Die
     \/ \E d \in First(Found) :
          lst' = [lst EXCEPT !.pc = "memory", !.name = d.file]
            /\ UNCHANGED buffer
  /\ UNCHANGED <<sent, queue, jobs, disk>>

\* result[0]["memory"] or 128
ReadMemory ==
  /\ lst.pc = "memory"
  /\ \/ Found = {} /\ Die
     \/ \E d \in First(Found) :
          lst' = [lst EXCEPT !.pc = "id",
                    !.memory = IF d.memory = 0 THEN DefaultMemory
                               ELSE d.memory]
            /\ UNCHANGED buffer
  /\ UNCHANGED <<sent, queue, jobs, disk>>

\* result[0]["_id"]
ReadId ==
  /\ lst.pc = "id"
  /\ \/ Found = {} /\ Die
     \/ \E d \in First(Found) :
          lst' = [lst EXCEPT !.pc = "open", !.id = d.id] /\ UNCHANGED buffer
  /\ UNCHANGED <<sent, queue, jobs, disk>>

\* Database.writeFile: open(fileName, 'w+') empties the file.
OpenFile ==
  /\ lst.pc = "open"
  /\ disk' = [disk EXCEPT ![lst.name] = [by |-> lst.msg.num, id |-> 0]]
  /\ lst' = [lst EXCEPT !.pc = "get"]
  /\ UNCHANGED <<sent, queue, buffer, jobs>>

\* fs.get(objId) raises NoFile when fs.files does not list it.
GetFile ==
  /\ lst.pc = "get"
  /\ \/ lst.id \notin FileIds /\ Die
     \/ \E g \in files :
          /\ g.id = lst.id
          /\ lst' = [lst EXCEPT !.pc = "read", !.size = g.size]
          /\ UNCHANGED buffer
  /\ UNCHANGED <<sent, queue, jobs, disk>>

\* .read() raises CorruptGridFile when a chunk is missing; otherwise the
\* content is in the file when writeFile returns.
ReadFile ==
  LET whole == ChunksOf(lst.id, lst.size) \subseteq chunks
  IN  /\ lst.pc = "read"
      /\ \/ ~whole /\ Die /\ UNCHANGED disk
         \/ /\ whole
            /\ disk' = [disk EXCEPT ![lst.name] =
                          [by |-> lst.msg.num, id |-> lst.id]]
            /\ lst' = [lst EXCEPT !.pc = "test"]
            /\ UNCHANGED buffer
      /\ UNCHANGED <<sent, queue, jobs>>

----------------------------------------------------------------------------
(* Database.updateSequenceCount: each record[0] is a query of its own. *)

\* What __findLatestRecord's cursor looks for.
Recorded == {d \in FunctionDocs(lst.msg.user, lst.msg.file) :
               d.source = lst.msg.source}

\* record[0]['sequence_count'] > 0, after it has been printed.
TestSequence ==
  /\ lst.pc = "test"
  /\ \/ Recorded = {} /\ Die
     \/ \E d \in Latest(Recorded) :
          /\ lst' = IF d.seq > 0 THEN [lst EXCEPT !.pc = "increment"]
                    ELSE [lst EXCEPT !.pc = "copyType", !.seq = 1]
          /\ UNCHANGED buffer
  /\ UNCHANGED <<sent, queue, jobs, disk>>

\* record[0]['sequence_count'] + 1
IncrementSequence ==
  /\ lst.pc = "increment"
  /\ \/ Recorded = {} /\ Die
     \/ \E d \in Latest(Recorded) :
          /\ lst' = [lst EXCEPT !.pc = "copyType", !.seq = d.seq + 1]
          /\ UNCHANGED buffer
  /\ UNCHANGED <<sent, queue, jobs, disk>>

\* record[0]['eventType']; the file name, the user name and the event source
\* of the record are what the query asks for.
CopyType ==
  /\ lst.pc = "copyType"
  /\ \/ Recorded = {} /\ Die
     \/ \E d \in Latest(Recorded) :
          /\ lst' = [lst EXCEPT !.pc = "copyMemory", !.etype = d.etype]
          /\ UNCHANGED buffer
  /\ UNCHANGED <<sent, queue, jobs, disk>>

CopyMemory_NoInsert ==
  /\ lst.pc = "copyMemory"
  /\ \/ Recorded = {} /\ Die
     \/ \E d \in Latest(Recorded) :
          /\ lst' = [lst EXCEPT !.pc = "spawn", !.recorded = d.memory]
          /\ UNCHANGED buffer
  /\ UNCHANGED <<sent, queue, jobs, disk>>

\* record[0]['memory']
CopyMemory ==
  /\ lst.pc = "copyMemory"
  /\ \/ Recorded = {} /\ Die
     \/ \E d \in Latest(Recorded) :
          /\ lst' = [lst EXCEPT !.pc = "insert", !.recorded = d.memory]
          /\ UNCHANGED buffer
  /\ UNCHANGED <<sent, queue, jobs, disk>>

InsertRecord_SameId ==
  /\ lst.pc = "insert"
  /\ InsertDoc([id |-> lst.id, pos |-> lst.id, user |-> lst.msg.user,
                file |-> lst.msg.file, source |-> lst.msg.source,
                etype |-> lst.etype, memory |-> lst.recorded,
                seq |-> lst.seq, run |-> lst.msg.num])
  /\ lst' = [lst EXCEPT !.pc = "spawn"]
  /\ UNCHANGED <<files, chunks, nextId, sent, queue, buffer, jobs, disk>>

\* insert_one of the execution record, under a new ObjectId.
InsertRecord ==
  /\ lst.pc = "insert"
  /\ nextId <= MaxId
  /\ nextId' = nextId + 1
  /\ InsertDoc([id |-> nextId, pos |-> nextId, user |-> lst.msg.user,
                file |-> lst.msg.file, source |-> lst.msg.source,
                etype |-> lst.etype, memory |-> lst.recorded,
                seq |-> lst.seq, run |-> lst.msg.num])
  /\ lst' = [lst EXCEPT !.pc = "spawn"]
  /\ UNCHANGED <<files, chunks, sent, queue, buffer, jobs, disk>>

SpawnThread_Repeats ==
  /\ lst.pc = "spawn"
  /\ jobs' = Append(jobs, [event |-> lst.msg, file |-> lst.name,
                           memory |-> lst.memory])
  /\ UNCHANGED <<lst, sent, queue, buffer, disk>>

\* deploy_and_execute_docker starts the thread; the callback returns.
SpawnThread ==
  /\ lst.pc = "spawn"
  /\ jobs' = Append(jobs, [event |-> lst.msg, file |-> lst.name,
                           memory |-> lst.memory])
  /\ lst' = Idling
  /\ UNCHANGED <<sent, queue, buffer, disk>>

----------------------------------------------------------------------------
CallbackQuery ==
  \/ Receive \/ CountMatches \/ ReadName \/ ReadMemory \/ ReadId
  \/ OpenFile \/ GetFile \/ ReadFile
  \/ TestSequence \/ IncrementSequence \/ CopyType \/ CopyMemory
  \/ SpawnThread

\* The steps the process takes by itself.
CallbackStep ==
  \/ CallbackQuery /\ UNCHANGED dbVars
  \/ InsertRecord

ListenerNext ==
  \/ CallbackStep
  \/ /\ \/ Deliver \/ Crash \/ BrokerRestart \/ Restart
        \/ \E u \in Users, f \in FileNames, s \in Sources, t \in Types :
             Publish(u, f, s, t)
     /\ UNCHANGED dbVars
=============================================================================
