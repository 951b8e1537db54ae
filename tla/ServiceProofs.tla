---------------------------- MODULE ServiceProofs ----------------------------
(***************************************************************************)
(* ServiceInv is an invariant of the REST interface and the listener       *)
(* together, for any users, functions, connections and events; the         *)
(* listener implements Delivery.                                           *)
(***************************************************************************)
EXTENDS ServiceProperties, LambdaApiProofs, FiniteSetTheorems

(* Sequences of messages. *)

\* A message that is appended is numbered like the others, and stays in line
\* if it is newer than all of them.
LEMMA AppendedMessage ==
  ASSUME NEW s \in Seq(Event), NEW e \in Event
  PROVE  /\ Append(s, e) \in Seq(Event)
         /\ Numbers(Append(s, e)) = Numbers(s) \union {e.num}
         /\ Increasing(s) /\ Before(Numbers(s), {e.num}) => Increasing(Append(s, e))
<1>1. /\ Append(s, e) \in Seq(Event) /\ Len(s) \in Nat
      /\ DOMAIN s = 1..Len(s) /\ DOMAIN Append(s, e) = 1..(Len(s) + 1)
      /\ \A i \in 1..Len(s) : Append(s, e)[i] = s[i]
      /\ Append(s, e)[Len(s) + 1] = e
  OBVIOUS
<1>2. Numbers(Append(s, e)) \subseteq Numbers(s) \union {e.num}
  BY <1>1 DEF Numbers
<1>3. Numbers(s) \subseteq Numbers(Append(s, e))
  BY <1>1 DEF Numbers
<1>4. e.num \in Numbers(Append(s, e))
  BY <1>1 DEF Numbers
<1>5. ASSUME Increasing(s), Before(Numbers(s), {e.num}),
             NEW i \in DOMAIN Append(s, e), NEW j \in DOMAIN Append(s, e), i < j
      PROVE  Append(s, e)[i].num < Append(s, e)[j].num
  BY <1>1, <1>5 DEF Increasing, Before, Numbers
<1>. QED
  BY <1>1, <1>2, <1>3, <1>4, <1>5 DEF Increasing

\* Taking the first message of a line leaves a line behind it.
LEMMA FirstMessage ==
  ASSUME NEW s \in Seq(Event), s # <<>>
  PROVE  /\ Head(s) \in Event /\ Tail(s) \in Seq(Event)
         /\ Numbers(s) = {Head(s).num} \union Numbers(Tail(s))
         /\ Increasing(s) => /\ Increasing(Tail(s))
                             /\ Before({Head(s).num}, Numbers(Tail(s)))
<1>1. /\ Head(s) \in Event /\ Tail(s) \in Seq(Event)
      /\ Len(s) \in Nat \ {0} /\ Head(s) = s[1]
      /\ DOMAIN s = 1..Len(s) /\ DOMAIN Tail(s) = 1..(Len(s) - 1)
      /\ \A i \in 1..(Len(s) - 1) : Tail(s)[i] = s[i + 1]
  OBVIOUS
<1>2. Numbers(s) \subseteq {Head(s).num} \union Numbers(Tail(s))
  <2>1. ASSUME NEW i \in DOMAIN s, i # 1
        PROVE  i - 1 \in DOMAIN Tail(s) /\ Tail(s)[i - 1] = s[i]
    BY <1>1, <2>1
  <2>. SUFFICES ASSUME NEW i \in DOMAIN s
                PROVE  s[i].num \in {Head(s).num} \union Numbers(Tail(s))
    BY DEF Numbers
  <2>2. CASE i = 1
    BY <1>1, <2>2
  <2>3. CASE i # 1
    BY <2>1, <2>3, Zenon DEF Numbers
  <2>. QED
    BY <2>2, <2>3
<1>3. {Head(s).num} \union Numbers(Tail(s)) \subseteq Numbers(s)
  BY <1>1 DEF Numbers
<1>4. ASSUME Increasing(s)
      PROVE  Increasing(Tail(s)) /\ Before({Head(s).num}, Numbers(Tail(s)))
  BY <1>1, <1>4 DEF Increasing, Before, Numbers
<1>5. Numbers(s) = {Head(s).num} \union Numbers(Tail(s))
  BY <1>2, <1>3, Zenon
<1>. QED
  BY <1>1, <1>4, <1>5

\* The numbers of messages are numbers of events.
LEMMA MessageNumbers ==
  ASSUME NEW s \in Seq(Event)
  PROVE  Numbers(s) \subseteq Runs
<1>1. \A i \in DOMAIN s : s[i] \in Event
  OBVIOUS
<1>2. \A e \in Event : e.num \in Runs
  BY DEF Event
<1>. QED
  BY <1>1, <1>2 DEF Numbers

LEMMA NoMessage == Numbers(<<>>) = {} /\ Increasing(<<>>) /\ <<>> \in Seq(Event)
BY DEF Numbers, Increasing

\* The executions that were started, likewise.
LEMMA AppendedJob ==
  ASSUME jobs \in Seq(Job), NEW job \in Job, jobs' = Append(jobs, job)
  PROVE  /\ jobs' \in Seq(Job)
         /\ StartedEvents' = StartedEvents \union {job.event.num}
         /\ StartsInOrder /\ Before(StartedEvents, {job.event.num}) => StartsInOrder'
<1>1. /\ jobs' \in Seq(Job) /\ Len(jobs) \in Nat
      /\ DOMAIN jobs = 1..Len(jobs) /\ DOMAIN jobs' = 1..(Len(jobs) + 1)
      /\ \A i \in 1..Len(jobs) : jobs'[i] = jobs[i]
      /\ jobs'[Len(jobs) + 1] = job
  OBVIOUS
<1>2. StartedEvents' \subseteq StartedEvents \union {job.event.num}
  BY <1>1 DEF StartedEvents
<1>3. StartedEvents \subseteq StartedEvents'
  BY <1>1 DEF StartedEvents
<1>4. job.event.num \in StartedEvents'
  BY <1>1 DEF StartedEvents
<1>5. ASSUME StartsInOrder, Before(StartedEvents, {job.event.num}),
             NEW i \in DOMAIN jobs', NEW j \in DOMAIN jobs', i < j
      PROVE  jobs'[i].event.num < jobs'[j].event.num
  BY <1>1, <1>5 DEF StartsInOrder, Before, StartedEvents
<1>. QED
  BY <1>1, <1>2, <1>3, <1>4, <1>5 DEF StartsInOrder

LEMMA StartedNumbers ==
  ASSUME jobs \in Seq(Job)
  PROVE  StartedEvents \subseteq Runs
<1>1. \A i \in DOMAIN jobs : jobs[i] \in Job
  OBVIOUS
<1>2. \A job \in Job : job.event.num \in Runs
  BY DEF Job, Event
<1>. QED
  BY <1>1, <1>2 DEF StartedEvents

----------------------------------------------------------------------------
(* The callback. *)

LEMMA EndOfCallback ==
  /\ Idling \in Listener /\ Idling.pc = "idle"
  /\ Down \in Listener /\ Down.pc = "down"
<1>1. 0 \in 0..MaxChunks /\ 0 \in Nat
  BY TypesAssumption
<1>2. Idling \in Listener /\ Idling.pc = "idle"
  BY <1>1 DEF Idling, Listener
<1>. QED
  BY <1>2 DEF Down, Listener

\* A step of the callback, or the end of the process, keeps the types and what
\* the callback knows.
LEMMA CallbackType ==
  ASSUME MongoTypeOK, ListenerTypeOK, CallbackKnows, CallbackStep
  PROVE  /\ lst' \in Listener
         /\ lst'.pc \in Stages => lst'.msg \in Event
         /\ HostTypeOK'
         /\ CallbackKnows'
<1>. DEFINE Goal == /\ lst' \in Listener
                    /\ lst'.pc \in Stages => lst'.msg \in Event
                    /\ CallbackKnows'
<1>0. /\ lst \in Listener /\ buffer \in Seq(Event)
      /\ lst.pc \in Stages => lst.msg \in Event
  BY DEF ListenerTypeOK
<1>1. HostTypeOK'
  <2>1. CASE OpenFile \/ ReadFile
    <3>1. lst.msg \in Event /\ lst.msg.num \in Runs /\ lst.id \in Ids \union {0}
      BY <1>0, <2>1 DEF OpenFile, ReadFile, Event, Listener, Stages
    <3>2. \A i \in Ids \union {0} : [by |-> lst.msg.num, id |-> i] \in Code
      BY <3>1 DEF Code
    <3>3. \/ UNCHANGED disk
          \/ \E i \in Ids \union {0} :
               disk' = [disk EXCEPT ![lst.name] = [by |-> lst.msg.num, id |-> i]]
      BY <2>1, <3>1 DEF OpenFile, ReadFile
    <3>. QED
      BY <3>2, <3>3 DEF ListenerTypeOK, HostTypeOK
  <2>2. CASE UNCHANGED disk
    BY <2>2 DEF ListenerTypeOK, HostTypeOK
  <2>. QED
    BY <2>1, <2>2 DEF CallbackStep, CallbackQuery, Receive, CountMatches, ReadName,
       ReadMemory, ReadId, GetFile, TestSequence, IncrementSequence, CopyType,
       CopyMemory, InsertRecord, SpawnThread
<1>. SUFFICES Goal
  BY <1>1
<1>2. ASSUME lst' \in {Idling, Down}
      PROVE  Goal
  BY <1>2, EndOfCallback DEF CallbackKnows, Stages
<1>3. CASE Receive
  <2>1. Head(buffer) \in Event
    BY <1>0, <1>3, FirstMessage DEF Receive
  <2>2. lst' = [lst EXCEPT !.pc = "count", !.msg = Head(buffer)]
    BY <1>3 DEF Receive
  <2>. QED
    BY <1>0, <2>1, <2>2 DEF Listener, CallbackKnows, Stages
<1>4. CASE CountMatches
  <2>1. CASE lst' = [lst EXCEPT !.pc = "name"]
    BY <1>0, <1>4, <2>1 DEF CountMatches, Listener, CallbackKnows, Stages
  <2>. QED
    BY <1>2, <1>4, <2>1 DEF CountMatches
<1>5. CASE ReadName
  <2>1. ASSUME NEW d \in Found, lst' = [lst EXCEPT !.pc = "memory", !.name = d.file]
        PROVE  Goal
    <3>1. d.file \in FileNames
      BY DEF MongoTypeOK, Document, Found, UserDocs
    <3>. QED
      BY <1>0, <1>5, <2>1, <3>1 DEF ReadName, Listener, CallbackKnows, Stages
  <2>. QED
    BY <1>2, <1>5, <2>1 DEF ReadName, Die, First
<1>6. CASE ReadMemory
  <2>1. ASSUME NEW m \in Memories \union {DefaultMemory},
               lst' = [lst EXCEPT !.pc = "id", !.memory = m]
        PROVE  Goal
    BY <1>0, <1>6, <2>1 DEF ReadMemory, Listener, CallbackKnows, Stages
  <2>2. \A d \in Found : d.memory \in Memories
    BY DEF MongoTypeOK, Document, Found, UserDocs
  <2>. QED
    BY <1>2, <1>6, <2>1, <2>2 DEF ReadMemory, Die, First
<1>7. CASE ReadId
  <2>1. ASSUME NEW d \in Found, lst' = [lst EXCEPT !.pc = "open", !.id = d.id]
        PROVE  Goal
    <3>1. d.id \in Ids
      BY DEF MongoTypeOK, Document, Found, UserDocs
    <3>. QED
      BY <1>0, <1>7, <2>1, <3>1 DEF ReadId, CallbackKnows, Listener, Stages
  <2>. QED
    BY <1>2, <1>7, <2>1 DEF ReadId, Die, First
<1>8. CASE OpenFile
  <2>1. lst' = [lst EXCEPT !.pc = "get"]
    BY <1>8 DEF OpenFile
  <2>. QED
    BY <1>0, <1>8, <2>1 DEF OpenFile, Listener, CallbackKnows, Stages
<1>9. CASE GetFile
  <2>1. ASSUME NEW g \in files, lst' = [lst EXCEPT !.pc = "read", !.size = g.size]
        PROVE  Goal
    <3>1. g.size \in 0..MaxChunks
      BY DEF MongoTypeOK, File
    <3>. QED
      BY <1>0, <1>9, <2>1, <3>1 DEF GetFile, Listener, CallbackKnows, Stages
  <2>. QED
    BY <1>2, <1>9, <2>1 DEF GetFile, Die
<1>10. CASE ReadFile
  <2>1. CASE lst' = [lst EXCEPT !.pc = "test"]
    BY <1>0, <1>10, <2>1 DEF ReadFile, Listener, CallbackKnows, Stages
  <2>. QED
    BY <1>2, <1>10, <2>1 DEF ReadFile, Die
<1>11. CASE TestSequence
  <2>1. CASE lst' = [lst EXCEPT !.pc = "increment"]
    BY <1>0, <1>11, <2>1 DEF TestSequence, Listener, CallbackKnows, Stages
  <2>2. CASE lst' = [lst EXCEPT !.pc = "copyType", !.seq = 1]
    BY <1>0, <1>11, <2>2 DEF TestSequence, Listener, CallbackKnows, Stages
  <2>. QED
    BY <1>2, <1>11, <2>1, <2>2 DEF TestSequence, Die
<1>12. CASE IncrementSequence
  <2>1. ASSUME NEW d \in Recorded,
               lst' = [lst EXCEPT !.pc = "copyType", !.seq = d.seq + 1]
        PROVE  Goal
    <3>1. d.seq + 1 \in Nat
      BY DEF MongoTypeOK, Document, Recorded, FunctionDocs
    <3>. QED
      BY <1>0, <1>12, <2>1, <3>1
      DEF IncrementSequence, Listener, CallbackKnows, Stages
  <2>. QED
    BY <1>2, <1>12, <2>1 DEF IncrementSequence, Die, Latest
<1>13. CASE CopyType
  <2>1. ASSUME NEW d \in Recorded,
               lst' = [lst EXCEPT !.pc = "copyMemory", !.etype = d.etype]
        PROVE  Goal
    <3>1. d.etype \in Types
      BY DEF MongoTypeOK, Document, Recorded, FunctionDocs
    <3>. QED
      BY <1>0, <1>13, <2>1, <3>1 DEF CopyType, Listener, CallbackKnows, Stages
  <2>. QED
    BY <1>2, <1>13, <2>1 DEF CopyType, Die, Latest
<1>14. CASE CopyMemory
  <2>1. ASSUME NEW d \in Recorded,
               lst' = [lst EXCEPT !.pc = "insert", !.recorded = d.memory]
        PROVE  Goal
    <3>1. d.memory \in Memories
      BY DEF MongoTypeOK, Document, Recorded, FunctionDocs
    <3>. QED
      BY <1>0, <1>14, <2>1, <3>1 DEF CopyMemory, Listener, CallbackKnows, Stages
  <2>. QED
    BY <1>2, <1>14, <2>1 DEF CopyMemory, Die, Latest
<1>15. CASE InsertRecord
  <2>1. lst' = [lst EXCEPT !.pc = "spawn"]
    BY <1>15 DEF InsertRecord
  <2>. QED
    BY <1>0, <1>15, <2>1 DEF InsertRecord, Listener, CallbackKnows, Stages
<1>16. CASE SpawnThread
  BY <1>2, <1>16 DEF SpawnThread
<1>. QED
  BY <1>3, <1>4, <1>5, <1>6, <1>7, <1>8, <1>9, <1>10, <1>11, <1>12, <1>13,
     <1>14, <1>15, <1>16 DEF CallbackStep, CallbackQuery

----------------------------------------------------------------------------
(* The line of events. *)

\* What a step does to the line: an event is published, delivered to the
\* process, taken by the callback, started or lost.
Published(e) ==
  /\ e.num = sent + 1 /\ sent < MaxEvents /\ sent' = sent + 1
  /\ queue' = Append(queue, e)
  /\ InProgress' = InProgress /\ UNCHANGED <<buffer, jobs>>
Delivered ==
  /\ queue # <<>>
  /\ buffer' = Append(buffer, Head(queue)) /\ queue' = Tail(queue)
  /\ InProgress' = InProgress /\ UNCHANGED <<sent, jobs>>
Taken ==
  /\ buffer # <<>>
  /\ InProgress = {} /\ InProgress' = {Head(buffer).num}
  /\ buffer' = Tail(buffer) /\ UNCHANGED <<sent, queue, jobs>>
Started(job) ==
  /\ InProgress = {job.event.num} /\ InProgress' = {}
  /\ jobs' = Append(jobs, job) /\ UNCHANGED <<sent, queue, buffer>>
Lost ==
  /\ queue' \in {queue, <<>>} /\ buffer' \in {buffer, <<>>}
  /\ InProgress' \in {InProgress, {}} /\ UNCHANGED <<sent, jobs>>
LineStep ==
  \/ \E e \in Event : Published(e)
  \/ Delivered
  \/ Taken
  \/ \E job \in Job : Started(job)
  \/ Lost

\* The queries of the callback leave the line alone or end the process.
LEMMA QueryStep ==
  ASSUME ListenerTypeOK,
         \/ CountMatches \/ ReadName \/ ReadMemory \/ ReadId \/ OpenFile
         \/ GetFile \/ ReadFile \/ TestSequence \/ IncrementSequence
         \/ CopyType \/ CopyMemory \/ InsertRecord
  PROVE  Lost
<1>. USE DEF Lost, InProgress, ListenerTypeOK, Listener, Stages, Die, Down, Idling
<1>1. CASE CountMatches
  BY <1>1 DEF CountMatches
<1>2. CASE ReadName
  BY <1>2 DEF ReadName
<1>3. CASE ReadMemory
  BY <1>3 DEF ReadMemory
<1>4. CASE ReadId
  BY <1>4 DEF ReadId
<1>5. CASE OpenFile
  BY <1>5 DEF OpenFile
<1>6. CASE GetFile
  BY <1>6 DEF GetFile
<1>7. CASE ReadFile
  BY <1>7 DEF ReadFile
<1>8. CASE TestSequence
  BY <1>8 DEF TestSequence
<1>9. CASE IncrementSequence
  BY <1>9 DEF IncrementSequence
<1>10. CASE CopyType
  BY <1>10 DEF CopyType
<1>11. CASE CopyMemory
  BY <1>11 DEF CopyMemory
<1>12. CASE InsertRecord
  BY <1>12 DEF InsertRecord
<1>. QED
  BY <1>1, <1>2, <1>3, <1>4, <1>5, <1>6, <1>7, <1>8, <1>9, <1>10, <1>11, <1>12

LEMMA ListenerStep ==
  ASSUME ListenerTypeOK, CallbackKnows, ListenerNext
  PROVE  LineStep
<1>. USE DEF ListenerTypeOK, Stages
<1>1. CASE CallbackStep
  <2>1. CASE Receive
    <3>1. Taken
      BY <2>1 DEF Receive, Taken, InProgress, Listener
    <3>. QED
      BY <3>1 DEF LineStep
  <2>2. CASE SpawnThread
    <3>. DEFINE job == [event |-> lst.msg, file |-> lst.name,
                        memory |-> lst.memory]
    <3>0. lst.msg \in Event /\ lst.name \in FileNames
      BY <2>2 DEF SpawnThread, CallbackKnows
    <3>2. lst.memory \in Nat
      <4>1. lst.memory \in Memories \union {DefaultMemory} \union {0}
        BY DEF Listener
      <4>2. Memories \union {DefaultMemory} \union {0} \subseteq Nat
        BY TypesAssumption, ListenerAssumption
      <4>. QED
        BY <4>1, <4>2, Zenon
    <3>1. job \in Job
      BY <3>0, <3>2 DEF Job
    <3>3. Started(job)
      BY <2>2 DEF SpawnThread, Started, InProgress, Idling
    <3>. QED
      BY <3>1, <3>3 DEF LineStep
  <2>. QED
    BY <1>1, <2>1, <2>2, QueryStep DEF CallbackStep, CallbackQuery, LineStep
<1>2. CASE Deliver
  BY <1>2 DEF Deliver, LineStep, Delivered, InProgress
<1>3. CASE Crash \/ BrokerRestart \/ Restart
  BY <1>3 DEF Crash, BrokerRestart, Restart, LineStep, Lost, InProgress, Die,
     Down, Idling
<1>4. ASSUME NEW u \in Users, NEW f \in FileNames, NEW s \in Sources,
             NEW t \in Types, Publish(u, f, s, t)
      PROVE  LineStep
  <2>. DEFINE e == [num |-> sent + 1, user |-> u, file |-> f, source |-> s,
                    etype |-> t]
  <2>1. e \in Event
    BY <1>4, TypesAssumption DEF Publish, Event, Runs
  <2>2. Published(e)
    BY <1>4 DEF Publish, Published, InProgress
  <2>. QED
    BY <2>1, <2>2 DEF LineStep
<1>. QED
  BY <1>1, <1>2, <1>3, <1>4 DEF ListenerNext

\* The line stays a line, and the step is one that Delivery allows.
LEMMA LineNext ==
  ASSUME ListenerTypeOK, EventsInLine, LineStep
  PROVE  /\ sent' \in 0..MaxEvents
         /\ queue' \in Seq(Event) /\ buffer' \in Seq(Event)
         /\ jobs' \in Seq(Job)
         /\ EventsInLine'
         /\ [D!DeliveryNext]_(D!deliveryVars)
<1>. DEFINE Goal == /\ sent' \in 0..MaxEvents
                    /\ queue' \in Seq(Event) /\ buffer' \in Seq(Event)
                    /\ jobs' \in Seq(Job)
                    /\ EventsInLine'
                    /\ [D!DeliveryNext]_(D!deliveryVars)
<1>. USE DEF EventsInLine
<1>0. /\ queue \in Seq(Event) /\ buffer \in Seq(Event) /\ jobs \in Seq(Job)
      /\ sent \in 0..MaxEvents /\ MaxEvents \in Nat
      /\ WaitingEvents = Numbers(queue) \union Numbers(buffer) \union InProgress
      /\ WaitingEvents' = Numbers(queue') \union Numbers(buffer') \union InProgress'
  BY TypesAssumption DEF ListenerTypeOK, WaitingEvents, InProgress
<1>1. ASSUME NEW e \in Event, Published(e)
      PROVE  Goal
  <2>1. /\ queue' \in Seq(Event)
        /\ Numbers(queue') = Numbers(queue) \union {sent + 1}
        /\ Before(Numbers(queue), {sent + 1}) => Increasing(queue')
    BY <1>0, <1>1, AppendedMessage DEF Published
  <2>2. /\ sent' = sent + 1 /\ sent' \in 0..MaxEvents
        /\ UNCHANGED <<buffer, jobs>> /\ InProgress' = InProgress
        /\ StartedEvents' = StartedEvents
    BY <1>0, <1>1 DEF Published, StartedEvents
  <2>3. Before(WaitingEvents \union StartedEvents, {sent + 1})
    BY <1>0 DEF Before
  <2>4. WaitingEvents' = WaitingEvents \union {sent + 1}
    BY <1>0, <2>1, <2>2
  <2>5. EventsInLine'
    <3>1. Increasing(queue') /\ Increasing(buffer') /\ StartsInOrder'
      BY <1>0, <2>1, <2>2, <2>3 DEF Before, StartsInOrder
    <3>2. Before(Numbers(buffer'), Numbers(queue'))
      BY <1>0, <2>1, <2>2, <2>3 DEF Before
    <3>3. Before(InProgress', Numbers(buffer') \union Numbers(queue'))
      BY <1>0, <2>1, <2>2, <2>3 DEF Before
    <3>4. Before(StartedEvents', WaitingEvents')
      BY <2>2, <2>3, <2>4 DEF Before
    <3>5. WaitingEvents' \union StartedEvents' \subseteq 1..sent'
      BY <1>0, <2>2, <2>4
    <3>. QED
      BY <3>1, <3>2, <3>3, <3>4, <3>5
  <2>6. D!Send
    BY <1>1, <2>2, <2>4 DEF Published, D!Send
  <2>. QED
    BY <1>0, <2>1, <2>2, <2>5, <2>6 DEF D!DeliveryNext
<1>2. CASE Delivered
  <2>1. /\ Head(queue) \in Event /\ queue' \in Seq(Event)
        /\ Numbers(queue) = {Head(queue).num} \union Numbers(queue')
        /\ Increasing(queue') /\ Before({Head(queue).num}, Numbers(queue'))
    BY <1>0, <1>2, FirstMessage DEF Delivered
  <2>2. /\ buffer' \in Seq(Event)
        /\ Numbers(buffer') = Numbers(buffer) \union {Head(queue).num}
        /\ Increasing(buffer')
    <3>1. Before(Numbers(buffer), {Head(queue).num})
      BY <2>1 DEF Before
    <3>. QED
      BY <1>0, <1>2, <2>1, <3>1, AppendedMessage DEF Delivered
  <2>3. /\ UNCHANGED <<sent, jobs>> /\ InProgress' = InProgress
        /\ StartedEvents' = StartedEvents
    BY <1>2 DEF Delivered, StartedEvents
  <2>4. WaitingEvents' = WaitingEvents
    BY <1>0, <2>1, <2>2, <2>3
  <2>5. EventsInLine'
    <3>1. StartsInOrder'
      BY <2>3 DEF StartsInOrder
    <3>2. Before(Numbers(buffer'), Numbers(queue'))
      BY <2>1, <2>2 DEF Before
    <3>3. Before(InProgress', Numbers(buffer') \union Numbers(queue'))
      BY <2>1, <2>2, <2>3 DEF Before
    <3>. QED
      BY <2>1, <2>2, <2>3, <2>4, <3>1, <3>2, <3>3
  <2>. QED
    BY <1>0, <2>1, <2>2, <2>3, <2>4, <2>5 DEF D!deliveryVars
<1>3. CASE Taken
  <2>1. /\ buffer' \in Seq(Event)
        /\ Numbers(buffer) = InProgress' \union Numbers(buffer')
        /\ Increasing(buffer') /\ Before(InProgress', Numbers(buffer'))
    BY <1>0, <1>3, FirstMessage DEF Taken
  <2>2. /\ UNCHANGED <<sent, queue, jobs>> /\ InProgress = {}
        /\ StartedEvents' = StartedEvents
    BY <1>3 DEF Taken, StartedEvents
  <2>3. WaitingEvents' = WaitingEvents
    BY <1>0, <2>1, <2>2
  <2>4. EventsInLine'
    <3>1. StartsInOrder' /\ Increasing(queue')
      BY <2>2 DEF StartsInOrder
    <3>2. Before(Numbers(buffer'), Numbers(queue'))
      BY <2>1, <2>2 DEF Before
    <3>3. Before(InProgress', Numbers(buffer') \union Numbers(queue'))
      BY <2>1, <2>2 DEF Before
    <3>. QED
      BY <2>1, <2>2, <2>3, <3>1, <3>2, <3>3
  <2>. QED
    BY <1>0, <2>1, <2>2, <2>3, <2>4 DEF D!deliveryVars
<1>4. ASSUME NEW job \in Job, Started(job)
      PROVE  Goal
  <2>. DEFINE n == job.event.num
  <2>1. /\ UNCHANGED <<sent, queue, buffer>>
        /\ InProgress = {n} /\ InProgress' = {}
    BY <1>4 DEF Started
  <2>2. n \in WaitingEvents /\ n \in 1..sent /\ n \in Nat
    <3>1. n \in WaitingEvents
      BY <1>0, <2>1, Zenon
    <3>2. n \in 1..sent
      BY <3>1, Zenon
    <3>. QED
      BY <1>0, <3>1, <3>2
  <2>3. /\ jobs' \in Seq(Job)
        /\ StartedEvents' = StartedEvents \union {n}
        /\ StartsInOrder'
    <3>1. Before(StartedEvents, {n})
      BY <2>2 DEF Before
    <3>. QED
      BY <1>0, <1>4, <3>1, AppendedJob DEF Started
  <2>4. Before({n}, Numbers(queue) \union Numbers(buffer))
    BY <2>1 DEF Before
  <2>5. Numbers(queue) \union Numbers(buffer) \subseteq Nat
    BY <1>0
  <2>6. WaitingEvents' = WaitingEvents \ {n}
    <3>1. n \notin Numbers(queue) \union Numbers(buffer)
      BY <2>2, <2>4 DEF Before
    <3>. QED
      BY <1>0, <2>1, <3>1
  <2>7. EventsInLine'
    <3>1. Increasing(queue') /\ Increasing(buffer')
      BY <2>1
    <3>2. Before(Numbers(buffer'), Numbers(queue'))
      BY <2>1
    <3>3. Before(InProgress', Numbers(buffer') \union Numbers(queue'))
      BY <2>1 DEF Before
    <3>4. Before(StartedEvents', WaitingEvents')
      BY <1>0, <2>1, <2>3, <2>4 DEF Before
    <3>5. WaitingEvents' \union StartedEvents' \subseteq 1..sent'
      BY <2>1, <2>2, <2>3, <2>6
    <3>. QED
      BY <2>3, <3>1, <3>2, <3>3, <3>4, <3>5
  <2>8. D!Start(n)
    <3>1. \A w \in WaitingEvents : n <= w
      BY <1>0, <2>1, <2>2, <2>4, <2>5 DEF Before
    <3>. QED
      BY <2>1, <2>2, <2>3, <2>6, <3>1 DEF D!Start
  <2>. QED
    BY <1>0, <2>1, <2>2, <2>3, <2>7, <2>8 DEF D!DeliveryNext
<1>5. CASE Lost
  <2>1. /\ queue' \in Seq(Event) /\ Increasing(queue')
        /\ Numbers(queue') \subseteq Numbers(queue)
    BY <1>0, <1>5, NoMessage DEF Lost
  <2>2. /\ buffer' \in Seq(Event) /\ Increasing(buffer')
        /\ Numbers(buffer') \subseteq Numbers(buffer)
    BY <1>0, <1>5, NoMessage DEF Lost
  <2>3. /\ InProgress' \subseteq InProgress
        /\ UNCHANGED <<sent, jobs>> /\ StartedEvents' = StartedEvents
    BY <1>5 DEF Lost, StartedEvents
  <2>4. WaitingEvents' \subseteq WaitingEvents
    BY <1>0, <2>1, <2>2, <2>3
  <2>5. EventsInLine'
    <3>1. StartsInOrder'
      BY <2>3 DEF StartsInOrder
    <3>2. Before(Numbers(buffer'), Numbers(queue'))
      BY <2>1, <2>2 DEF Before
    <3>3. Before(InProgress', Numbers(buffer') \union Numbers(queue'))
      BY <2>1, <2>2, <2>3 DEF Before
    <3>4. Before(StartedEvents', WaitingEvents')
      BY <2>3, <2>4 DEF Before
    <3>. QED
      BY <2>1, <2>2, <2>3, <2>4, <3>1, <3>2, <3>3, <3>4
  <2>6. \E lost \in SUBSET WaitingEvents : D!Lose(lost)
    <3>1. WaitingEvents' = WaitingEvents \ (WaitingEvents \ WaitingEvents')
      BY <2>4
    <3>2. D!Lose(WaitingEvents \ WaitingEvents')
      BY <2>3, <3>1 DEF D!Lose
    <3>. QED
      BY <3>2
  <2>. QED
    BY <1>0, <2>1, <2>2, <2>3, <2>5, <2>6 DEF D!DeliveryNext
<1>. QED
  BY <1>1, <1>2, <1>3, <1>4, <1>5 DEF LineStep

----------------------------------------------------------------------------
(* The collections. *)

\* What a request does to them in one step: it registers a function, sets a
\* field of the function's first document, deletes, or lists an upload.
Inserted(doc) ==
  /\ mapping' = mapping \union {doc}
  /\ doc.id \notin DocIds /\ doc.pos \in FreePositions
Replaced(d, doc) ==
  /\ mapping' = (mapping \ {d}) \union {doc}
  /\ doc.id = d.id /\ doc.pos = d.pos /\ doc.user = d.user
  /\ doc.file = d.file /\ doc.seq = d.seq /\ doc.run = d.run
DocumentsStep ==
  \/ UNCHANGED mapping
  \/ \E doc \in Document : Inserted(doc) /\ doc.run = NoRun /\ doc.seq = 0
  \/ \E u \in Users, f \in FileNames, doc \in Document :
       \E d \in First(FunctionDocs(u, f)) : Replaced(d, doc)
  \/ mapping' \subseteq mapping /\ \E r \in Requests : Deletes(r)
UploadsStep ==
  \/ files' \subseteq files
  \/ /\ UNCHANGED mapping
     /\ \E r \in Requests, g \in File :
          Uploads(r) /\ g.id = req[r].id /\ files' = files \union {g}

LEMMA RegisteredDocument ==
  ASSUME MongoTypeOK, NEW doc \in Document, InsertDoc(doc), doc.id \notin DocIds
  PROVE  \E new \in Document :
           /\ Inserted(new) /\ new.id = doc.id /\ new.user = doc.user
           /\ new.file = doc.file /\ new.source = doc.source
           /\ new.seq = doc.seq /\ new.run = doc.run
<1>1. PICK p \in FreePositions : mapping' = mapping \union {[doc EXCEPT !.pos = p]}
  BY DEF InsertDoc
<1>. DEFINE new == [doc EXCEPT !.pos = p]
<1>2. /\ new \in Document /\ new.pos = p /\ new.id = doc.id
      /\ new.user = doc.user /\ new.file = doc.file
      /\ new.source = doc.source /\ new.seq = doc.seq /\ new.run = doc.run
  BY DEF FreePositions, Document
<1>. HIDE DEF new
<1>. QED
  BY <1>1, <1>2 DEF Inserted, new

LEMMA SetDocument ==
  ASSUME MongoTypeOK, NEW u \in Users, NEW f \in FileNames, NEW meta \in Metadata,
         NEW field \in {"etype", "source", "memory"},
         SetFirst(FunctionDocs(u, f), field, meta[field])
  PROVE  DocumentsStep
<1>1. CASE UNCHANGED mapping
  BY <1>1 DEF DocumentsStep
<1>2. ASSUME NEW d \in First(FunctionDocs(u, f)),
             mapping' = (mapping \ {d}) \union {[d EXCEPT ![field] = meta[field]]}
      PROVE  DocumentsStep
  <2>. DEFINE doc == [d EXCEPT ![field] = meta[field]]
  <2>1. d \in Document
    BY DEF First, FunctionDocs, MongoTypeOK
  <2>2. /\ doc \in Document /\ doc.id = d.id /\ doc.pos = d.pos
        /\ doc.user = d.user /\ doc.file = d.file
        /\ doc.seq = d.seq /\ doc.run = d.run
    <3>1. CASE field = "etype"
      BY <2>1, <3>1 DEF Document, Metadata
    <3>2. CASE field = "source"
      BY <2>1, <3>2 DEF Document, Metadata
    <3>3. CASE field = "memory"
      BY <2>1, <3>3 DEF Document, Metadata
    <3>. QED
      BY <3>1, <3>2, <3>3
  <2>3. mapping' = (mapping \ {d}) \union {doc}
    BY <1>2
  <2>. HIDE DEF doc
  <2>4. Replaced(d, doc)
    BY <2>2, <2>3 DEF Replaced
  <2>. QED
    BY <2>2, <2>4 DEF DocumentsStep
<1>. QED
  BY <1>1, <1>2 DEF SetFirst

LEMMA RequestStep ==
  ASSUME ApiTypeOK, ApiNext
  PROVE  DocumentsStep /\ UploadsStep
<1>0. MongoTypeOK
  BY DEF ApiTypeOK
<1>1. PICK r \in Requests : RequestBegins(r) \/ HandlerStep(r) \/ RequestFails(r)
  BY DEF ApiNext
<1>2. CASE RequestBegins(r) \/ RequestFails(r) \/ UploadOpen(r) \/ UploadChunks(r)
           \/ RegisterCount(r) \/ RegisterFind(r) \/ DeleteChunk(r)
  BY <1>2 DEF RequestBegins, UploadBegin, RegisterBegin, UpdateBegin, DeleteBegin,
     RequestFails, UploadOpen, UploadChunks, RegisterCount, RegisterFind,
     DeleteChunk, dbVars, DocumentsStep, UploadsStep
<1>3. CASE UploadCommit(r)
  <2>. DEFINE g == [id |-> req[r].id, user |-> req[r].user, name |-> req[r].file,
                    size |-> req[r].size]
  <2>1. Uploads(r) /\ req[r] \in Uploading
    BY <1>3, HandlerType DEF UploadCommit, Uploads
  <2>2. g \in File /\ g.id = req[r].id
    BY <2>1 DEF Uploading, File
  <2>. QED
    BY <1>3, <2>1, <2>2 DEF UploadCommit, DocumentsStep, UploadsStep
<1>4. CASE RegisterInsert(r)
  <2>1. req[r] \in Inserting
    BY <1>4, HandlerType DEF RegisterInsert
  <2>2. UNCHANGED files
    BY <1>4 DEF RegisterInsert
  <2>3. PICK i \in req[r].todo :
          \/ UNCHANGED mapping
          \/ /\ i \notin DocIds
             /\ InsertDoc([id |-> i, pos |-> i, user |-> req[r].user,
                           file |-> req[r].file,
                           source |-> req[r].meta.source,
                           etype |-> req[r].meta.etype,
                           memory |-> req[r].meta.memory,
                           seq |-> 0, run |-> NoRun])
    BY <1>4 DEF RegisterInsert
  <2>. DEFINE doc == [id |-> i, pos |-> i, user |-> req[r].user,
                      file |-> req[r].file, source |-> req[r].meta.source,
                      etype |-> req[r].meta.etype,
                      memory |-> req[r].meta.memory, seq |-> 0, run |-> NoRun]
  <2>4. /\ doc \in Document /\ doc.id = i /\ doc.seq = 0 /\ doc.run = NoRun
    BY <2>1 DEF Inserting, Metadata, Document, NoRun
  <2>5. UNCHANGED mapping \/ (i \notin DocIds /\ InsertDoc(doc))
    BY <2>3
  <2>. HIDE DEF doc
  <2>. QED
    BY <1>0, <2>2, <2>4, <2>5, RegisteredDocument DEF DocumentsStep, UploadsStep
<1>5. CASE UpdateField(r)
  <2>. DEFINE field == NextField(req[r].fields)
  <2>1. req[r] \in Updating
    BY <1>5, HandlerType DEF UpdateField
  <2>2. /\ req[r].user \in Users /\ req[r].file \in FileNames
        /\ req[r].meta \in Metadata
    BY <2>1 DEF Updating
  <2>3. field \in {"etype", "source", "memory"}
    BY DEF NextField
  <2>4. /\ SetFirst(FunctionDocs(req[r].user, req[r].file), field,
                    req[r].meta[field])
        /\ UNCHANGED files
    BY <1>5 DEF UpdateField
  <2>. HIDE DEF field
  <2>. QED
    BY <1>0, <2>2, <2>3, <2>4, SetDocument DEF UploadsStep
<1>6. CASE DeleteFile(r)
  BY <1>6 DEF DeleteFile, DeleteFileDoc, DocumentsStep, UploadsStep
<1>7. CASE DeleteDoc(r)
  BY <1>7 DEF DeleteDoc, DeleteDocument, DocumentsStep, UploadsStep, Deletes
<1>. QED
  BY <1>1, <1>2, <1>3, <1>4, <1>5, <1>6, <1>7 DEF HandlerStep

\* The only document the listener writes: the record of an execution, under an
\* ObjectId that was never used.
RecordWritten(doc) ==
  /\ Inserted(doc)
  /\ doc.id = nextId /\ doc.run = lst.msg.num /\ doc.seq = lst.seq
  /\ doc.user = lst.msg.user /\ doc.file = lst.msg.file
  /\ doc.source = lst.msg.source
  /\ nextId' = nextId + 1 /\ nextId' \in 1..(MaxId + 1)
  /\ lst.pc = "insert" /\ lst' = [lst EXCEPT !.pc = "spawn"]
  /\ UNCHANGED <<files, chunks>>

LEMMA FreshId ==
  ASSUME ApiInv
  PROVE  /\ nextId \notin DocIds \union FileIds
         /\ \A s \in Requests : nextId \notin HeldIds(s)
<1>1. nextId \in Nat /\ \A a \in Claims : a[1] # nextId
  <2>1. nextId \in Nat
    BY DEF ApiInv, ApiTypeOK, MongoTypeOK
  <2>. QED
    BY <2>1 DEF ApiInv, Ownership
<1>. QED
  BY <1>1, ClaimsNow DEF DocIds, FileIds

LEMMA ListenerWrites ==
  ASSUME ApiInv, ListenerTypeOK, CallbackKnows, ListenerNext
  PROVE  \/ UNCHANGED dbVars
         \/ InsertRecord /\ \E doc \in Document : RecordWritten(doc)
<1>1. CASE InsertRecord
  <2>. DEFINE new == [id |-> nextId, pos |-> nextId, user |-> lst.msg.user,
                      file |-> lst.msg.file, source |-> lst.msg.source,
                      etype |-> lst.etype, memory |-> lst.recorded,
                      seq |-> lst.seq, run |-> lst.msg.num]
  <2>1. lst.pc = "insert" /\ lst.msg \in Event /\ lst \in Listener
    BY <1>1 DEF InsertRecord, ListenerTypeOK, Stages
  <2>2. /\ nextId \in Ids /\ nextId' = nextId + 1
        /\ nextId' \in 1..(MaxId + 1)
    BY <1>1, TypesAssumption
    DEF InsertRecord, ApiInv, ApiTypeOK, MongoTypeOK, Ids
  <2>3. new \in Document
    <3>1. lst.etype \in Types /\ lst.recorded \in Memories
      BY <2>1 DEF CallbackKnows
    <3>. QED
      BY <2>1, <2>2, <3>1 DEF Document, Event, Listener
  <2>4. InsertDoc(new)
    BY <1>1 DEF InsertRecord
  <2>5. /\ new.id = nextId /\ new.user = lst.msg.user /\ new.file = lst.msg.file
        /\ new.source = lst.msg.source /\ new.seq = lst.seq
        /\ new.run = lst.msg.num
    OBVIOUS
  <2>6. MongoTypeOK /\ nextId \notin DocIds
    BY FreshId DEF ApiInv, ApiTypeOK
  <2>. HIDE DEF new
  <2>7. PICK doc \in Document :
          /\ Inserted(doc) /\ doc.id = new.id /\ doc.user = new.user
          /\ doc.file = new.file /\ doc.source = new.source
          /\ doc.seq = new.seq /\ doc.run = new.run
    BY <2>3, <2>4, <2>5, <2>6, RegisteredDocument
  <2>8. /\ lst' = [lst EXCEPT !.pc = "spawn"]
        /\ UNCHANGED <<files, chunks>>
    BY <1>1 DEF InsertRecord
  <2>9. RecordWritten(doc)
    BY <2>1, <2>2, <2>5, <2>7, <2>8 DEF RecordWritten
  <2>. QED
    BY <1>1, <2>9
<1>. QED
  BY <1>1 DEF ListenerNext, CallbackStep

\* The requests in progress find the collections as ApiInv says.
LEMMA ListenerKeepsApiInv ==
  ASSUME ApiInv, NEW doc \in Document, RecordWritten(doc), UNCHANGED req
  PROVE  ApiInv' /\ ClaimStep
<1>0. /\ ApiTypeOK /\ FilesComplete /\ Ownership /\ UploadsPrivate
      /\ CommitReady /\ FileGone
  BY DEF ApiInv
<1>1. \A s \in Requests : HeldIds(s)' = HeldIds(s) /\ Uploads(s)' = Uploads(s)
  BY DEF HeldIds, Uploads, Deletes
<1>2. /\ mapping' = mapping \union {doc} /\ doc.id = nextId
      /\ UNCHANGED <<files, chunks>> /\ nextId' = nextId + 1
      /\ nextId' \in 1..(MaxId + 1)
  BY DEF RecordWritten, Inserted
<1>3. ApiTypeOK'
  BY <1>0, <1>2 DEF ApiTypeOK, MongoTypeOK
<1>4. ClaimStep
  <2>1. Claims' \subseteq Claims \union {<<nextId, doc.user, doc.file>>}
    BY <1>1, <1>2 DEF Claims
  <2>. QED
    BY <1>2, <2>1 DEF ClaimStep
<1>5. Ownership'
  BY <1>0, <1>4, OwnershipKept
<1>6. UploadsPrivate'
  <2>1. DocIds' = DocIds \union {nextId} /\ FileIds' = FileIds
    BY <1>2 DEF DocIds, FileIds
  <2>2. \A r \in Requests : Uploads(r) => req[r].id # nextId
    BY <1>0, FreshId, HandlerType DEF HeldIds, Uploading
  <2>. QED
    BY <1>0, <1>1, <2>1, <2>2 DEF UploadsPrivate
<1>7. FilesComplete' /\ CommitReady' /\ FileGone'
  BY <1>0, <1>2 DEF FilesComplete, CommitReady, FileGone, FileIds, ChunksOf
<1>. QED
  BY <1>3, <1>4, <1>5, <1>6, <1>7 DEF ApiInv

----------------------------------------------------------------------------
(* The parts of the invariant. *)

LEMMA ListenerTypeNext ==
  ASSUME MongoTypeOK, ListenerTypeOK, CallbackKnows, EventsInLine, ListenerNext
  PROVE  /\ ListenerTypeOK' /\ CallbackKnows' /\ EventsInLine'
         /\ [D!DeliveryNext]_(D!deliveryVars)
<1>1. /\ sent' \in 0..MaxEvents
      /\ queue' \in Seq(Event) /\ buffer' \in Seq(Event) /\ jobs' \in Seq(Job)
      /\ EventsInLine' /\ [D!DeliveryNext]_(D!deliveryVars)
  BY ListenerStep, LineNext
<1>2. /\ lst' \in Listener /\ (lst'.pc \in Stages => lst'.msg \in Event)
      /\ HostTypeOK' /\ CallbackKnows'
  <2>1. CASE CallbackStep
    BY <2>1, CallbackType
  <2>2. CASE Crash \/ BrokerRestart \/ Restart
    <3>1. lst' \in {Down, Idling} /\ UNCHANGED disk
      BY <2>2 DEF Crash, BrokerRestart, Restart, Die
    <3>2. /\ Down \in Listener /\ Down.pc = "down"
          /\ Idling \in Listener /\ Idling.pc = "idle"
      BY EndOfCallback
    <3>. QED
      BY <3>1, <3>2 DEF Stages, CallbackKnows, HostTypeOK, ListenerTypeOK
  <2>3. CASE UNCHANGED <<lst, disk>>
    BY <2>3 DEF ListenerTypeOK, HostTypeOK, CallbackKnows
  <2>. QED
    BY <2>1, <2>2, <2>3 DEF ListenerNext, Deliver, Publish
<1>. QED
  BY <1>1, <1>2 DEF ListenerTypeOK

\* The _id the callback holds remains with the user of the event.
LEMMA IdOfUserNext ==
  ASSUME ApiInv, ListenerTypeOK, IdOfUser, ClaimStep,
         \/ UNCHANGED lst
         \/ ListenerNext
  PROVE  IdOfUser'
<1>0. nextId \in Nat /\ (nextId' = nextId \/ nextId' = nextId + 1)
  BY DEF ClaimStep, ApiInv, ApiTypeOK, MongoTypeOK
<1>1. \A a \in Claims' : a \in Claims \/ a[1] = nextId
  BY DEF ClaimStep
<1>2. ASSUME lst'.id = lst.id, lst'.msg = lst.msg, lst.pc \in {"open", "get", "read"}
      PROVE  IdOfUser'
  <2>1. lst.id < nextId /\ lst.id \in Nat
    BY <1>2 DEF IdOfUser, ListenerTypeOK, Listener, Ids
  <2>2. lst'.id < nextId' /\ lst'.id # nextId
    BY <1>0, <1>2, <2>1
  <2>. QED
    BY <1>1, <1>2, <2>2 DEF IdOfUser
<1>3. CASE UNCHANGED lst
  BY <1>2, <1>3 DEF IdOfUser
<1>4. CASE ReadId
  <2>1. CASE lst' = Down
    BY <2>1, EndOfCallback DEF IdOfUser
  <2>2. ASSUME NEW d \in First(Found), lst' = [lst EXCEPT !.pc = "open", !.id = d.id]
        PROVE  IdOfUser'
    <3>1. d \in mapping /\ d.user = lst.msg.user
      BY DEF First, Found, UserDocs
    <3>2. lst'.id = d.id /\ lst'.msg = lst.msg
      BY <2>2 DEF ListenerTypeOK, Listener
    <3>3. d.id < nextId /\ \A a \in Claims : a[1] = d.id => a[2] = d.user
      <4>1. PICK c \in Claims : c = <<d.id, d.user, d.file>>
        BY <3>1, ClaimsNow
      <4>2. c[1] = d.id /\ c[2] = d.user
        BY <4>1
      <4>. QED
        BY <4>2 DEF ApiInv, Ownership
    <3>4. d.id < nextId' /\ d.id # nextId
      <4>1. d.id \in Nat
        BY <3>1 DEF ApiInv, ApiTypeOK, MongoTypeOK, Document, Ids
      <4>. QED
        BY <1>0, <3>3, <4>1
    <3>. QED
      BY <1>1, <3>1, <3>2, <3>3, <3>4 DEF IdOfUser
  <2>. QED
    BY <1>4, <2>1, <2>2 DEF ReadId, Die
<1>5. CASE OpenFile \/ GetFile
  <2>1. \/ lst' = Down
        \/ lst' = [lst EXCEPT !.pc = "get"]
        \/ \E n : lst' = [lst EXCEPT !.pc = "read", !.size = n]
    BY <1>5 DEF OpenFile, GetFile, Die
  <2>2. lst.pc \in {"open", "get"}
    BY <1>5 DEF OpenFile, GetFile
  <2>3. CASE lst' = Down
    BY <2>3, EndOfCallback DEF IdOfUser
  <2>4. CASE lst' # Down
    BY <1>2, <2>1, <2>2, <2>4 DEF ListenerTypeOK, Listener
  <2>. QED
    BY <2>3, <2>4
<1>6. CASE lst'.pc \notin {"open", "get", "read"}
  BY <1>6 DEF IdOfUser
<1>7. ASSUME CallbackStep, ~ReadId, ~OpenFile, ~GetFile
      PROVE  lst'.pc \notin {"open", "get", "read"}
  <2>. USE DEF ListenerTypeOK, Listener, Die, Down, Idling
  <2>1. CASE Receive
    BY <2>1 DEF Receive
  <2>2. CASE CountMatches
    BY <2>2 DEF CountMatches
  <2>3. CASE ReadName
    BY <2>3 DEF ReadName
  <2>4. CASE ReadMemory
    BY <2>4 DEF ReadMemory
  <2>5. CASE ReadFile
    BY <2>5 DEF ReadFile
  <2>6. CASE TestSequence
    BY <2>6 DEF TestSequence
  <2>7. CASE IncrementSequence
    BY <2>7 DEF IncrementSequence
  <2>8. CASE CopyType
    BY <2>8 DEF CopyType
  <2>9. CASE CopyMemory
    BY <2>9 DEF CopyMemory
  <2>10. CASE SpawnThread
    BY <2>10 DEF SpawnThread
  <2>11. CASE InsertRecord
    BY <2>11 DEF InsertRecord
  <2>. QED
    BY <1>7, <2>1, <2>2, <2>3, <2>4, <2>5, <2>6, <2>7,
       <2>8, <2>9, <2>10, <2>11
    DEF CallbackStep, CallbackQuery
<1>8. CASE ListenerNext
  <2>1. CASE Crash \/ BrokerRestart \/ Restart
    <3>1. lst' \in {Down, Idling}
      BY <2>1 DEF Crash, BrokerRestart, Restart, Die
    <3>. QED
      BY <1>6, <3>1, EndOfCallback
  <2>. QED
    BY <1>3, <1>4, <1>5, <1>6, <1>7, <1>8, <2>1 DEF ListenerNext, Deliver, Publish
<1>. QED
  BY <1>3, <1>8

\* Records keep ids of their own.
LEMMA RecordsAreNoFilesNext ==
  ASSUME ApiInv, RecordsAreNoFiles,
         \/ DocumentsStep /\ UploadsStep
         \/ UNCHANGED <<mapping, files>>
         \/ \E doc \in Document : RecordWritten(doc)
  PROVE  RecordsAreNoFiles'
<1>1. CASE UNCHANGED <<mapping, files>>
  BY <1>1 DEF RecordsAreNoFiles
<1>2. ASSUME NEW doc \in Document, RecordWritten(doc)
      PROVE  RecordsAreNoFiles'
  BY <1>2, FreshId DEF RecordWritten, Inserted, RecordsAreNoFiles, FileIds
<1>3. CASE DocumentsStep /\ files' \subseteq files
  <2>1. \A d \in mapping' : d.run # NoRun =>
          \E e \in mapping : e.id = d.id /\ e.run = d.run
    BY <1>3 DEF DocumentsStep, Inserted, Replaced, First, FunctionDocs
  <2>. QED
    BY <1>3, <2>1 DEF RecordsAreNoFiles
<1>4. ASSUME UNCHANGED mapping, NEW r \in Requests, NEW g \in File, Uploads(r),
             g.id = req[r].id, files' = files \union {g}
      PROVE  RecordsAreNoFiles'
  <2>1. g.id \notin DocIds
    BY <1>4 DEF ApiInv, UploadsPrivate
  <2>. QED
    BY <1>4, <2>1 DEF RecordsAreNoFiles, DocIds
<1>. QED
  BY <1>1, <1>2, <1>3, <1>4 DEF UploadsStep

\* Without DELETE among the operations no request ever deletes.
LEMMA NoDeletesNext ==
  ASSUME ApiTypeOK, ApiNext, "delete" \notin Operations,
         \A r \in Requests : ~Deletes(r)
  PROVE  \A r \in Requests : ~Deletes(r)'
<1>1. PICK r \in Requests : RequestBegins(r) \/ HandlerStep(r) \/ RequestFails(r)
  BY DEF ApiNext
<1>2. ASSUME NEW state, Goto(r, state),
             state.pc \notin {"delFile", "delChunk", "delDoc"}
      PROVE  \A s \in Requests : ~Deletes(s)'
  <2>1. req'[r] = state /\ \A s \in Requests \ {r} : req'[s] = req[s]
    BY <1>2 DEF Goto, ApiTypeOK
  <2>. QED
    BY <1>2, <2>1 DEF Deletes
<1>. DEFINE Elsewhere == \E state : /\ Goto(r, state)
                                  /\ state.pc \notin {"delFile", "delChunk", "delDoc"}
<1>3. CASE RequestBegins(r)
  <2>1. PICK u \in Users, f \in FileNames :
          \/ \E n \in 1..MaxChunks : UploadBegin(r, u, f, n)
          \/ \E m \in Metadata :
               \/ RegisterBegin(r, u, f, m)
               \/ \E fields \in SUBSET UpdateFields :
                    UpdateBegin(r, u, f, m, fields)
    BY <1>3 DEF RequestBegins
  <2>2. CASE \E n \in 1..MaxChunks : UploadBegin(r, u, f, n)
    BY <1>2, <2>2 DEF UploadBegin
  <2>3. CASE \E m \in Metadata : RegisterBegin(r, u, f, m)
    BY <1>2, <2>3 DEF RegisterBegin
  <2>4. CASE \E m \in Metadata : \E fields \in SUBSET UpdateFields :
               UpdateBegin(r, u, f, m, fields)
    BY <1>2, <2>4 DEF UpdateBegin
  <2>. QED
    BY <2>1, <2>2, <2>3, <2>4
<1>4. CASE UploadOpen(r) \/ UploadCommit(r) \/ RequestFails(r)
  <2>1. Elsewhere
    BY <1>4 DEF UploadOpen, UploadCommit, RequestFails, Idle
  <2>. QED
    BY <1>2, <2>1
<1>5. CASE UploadChunks(r)
  <2>1. req[r] \in Uploading
    BY <1>5, HandlerType DEF UploadChunks, Uploads
  <2>2. [req[r] EXCEPT !.pc = "commit"].pc = "commit"
    BY <2>1 DEF Uploading
  <2>. QED
    BY <1>2, <1>5, <2>2 DEF UploadChunks
<1>6. CASE RegisterCount(r)
  <2>1. req[r] \in Registering
    BY <1>6, HandlerType DEF RegisterCount
  <2>2. Idle.pc = "idle" /\ [req[r] EXCEPT !.pc = "find"].pc = "find"
    BY <2>1 DEF Registering, Idle
  <2>. QED
    BY <1>2, <1>6, <2>2 DEF RegisterCount
<1>7. CASE RegisterFind(r)
  <2>1. Elsewhere
    BY <1>7 DEF RegisterFind, Idle
  <2>. QED
    BY <1>2, <2>1
<1>8. CASE RegisterInsert(r)
  <2>1. req[r] \in Inserting
    BY <1>8, HandlerType DEF RegisterInsert
  <2>2. /\ Idle.pc = "idle"
        /\ \A i : [req[r] EXCEPT !.todo = @ \ {i}].pc = "insert"
    BY <2>1 DEF Inserting, Idle
  <2>. QED
    BY <1>2, <1>8, <2>2 DEF RegisterInsert
<1>9. CASE UpdateField(r)
  <2>1. req[r] \in Updating
    BY <1>9, HandlerType DEF UpdateField
  <2>2. Idle.pc = "idle" /\ \A fs : [req[r] EXCEPT !.fields = fs].pc = "set"
    BY <2>1 DEF Updating, Idle
  <2>. QED
    BY <1>2, <1>9, <2>2 DEF UpdateField
<1>10. ~ (DeleteFile(r) \/ DeleteChunk(r) \/ DeleteDoc(r))
  BY DEF DeleteFile, DeleteChunk, DeleteDoc, Deletes
<1>. QED
  BY <1>1, <1>3, <1>4, <1>5, <1>6, <1>7, <1>8, <1>9, <1>10 DEF HandlerStep

\* Then documents stay, but for the fields a PUT sets.
LEMMA DocumentsStay ==
  ASSUME \A r \in Requests : ~Deletes(r),
         \/ DocumentsStep
         \/ UNCHANGED mapping
         \/ \E doc \in Document : RecordWritten(doc)
  PROVE  \A d \in mapping : \E e \in mapping' :
           /\ e.id = d.id /\ e.pos = d.pos /\ e.user = d.user
           /\ e.file = d.file /\ e.seq = d.seq /\ e.run = d.run
BY DEF DocumentsStep, Inserted, Replaced, RecordWritten

\* The record of an execution is there before its thread, and stays.
LEMMA RecordedFirstNext ==
  ASSUME ApiInv, ListenerTypeOK, CallbackKnows, RecordedFirst,
         \/ ApiNext /\ UNCHANGED listenerVars
         \/ ListenerNext /\ UNCHANGED req
  PROVE  RecordedFirst'
<1>. SUFFICES ASSUME "delete" \notin Operations
              PROVE  /\ \A r \in Requests : ~Deletes(r)'
                     /\ ThreadsRecorded'
                     /\ lst'.pc = "spawn" =>
                          \E d \in mapping' : d.run = lst'.msg.num
  BY DEF RecordedFirst
<1>0. /\ \A r \in Requests : ~Deletes(r)
      /\ \A i \in DOMAIN jobs : \E d \in mapping : d.run = jobs[i].event.num
      /\ lst.pc = "spawn" => \E d \in mapping : d.run = lst.msg.num
  BY DEF RecordedFirst, ThreadsRecorded
<1>1. \A r \in Requests : ~Deletes(r)'
  BY <1>0, NoDeletesNext DEF Deletes, ApiInv
<1>2. \A d \in mapping : \E e \in mapping' : e.run = d.run
  <2>1. \/ DocumentsStep
        \/ UNCHANGED mapping
        \/ \E doc \in Document : RecordWritten(doc)
    BY RequestStep, ListenerWrites DEF ApiInv, dbVars
  <2>. QED
    BY <1>0, <2>1, DocumentsStay
<1>3. CASE UNCHANGED <<lst, jobs>>
  BY <1>0, <1>1, <1>2, <1>3 DEF ThreadsRecorded
<1>4. CASE ListenerNext
  <2>1. CASE InsertRecord
    <3>1. PICK doc \in Document : RecordWritten(doc)
      BY <1>4, <2>1, ListenerWrites DEF InsertRecord, ApiInv, dbVars,
         ApiTypeOK, MongoTypeOK
    <3>2. doc \in mapping' /\ doc.run = lst.msg.num /\ lst'.msg = lst.msg
      BY <3>1 DEF RecordWritten, Inserted, ListenerTypeOK, Listener
    <3>3. UNCHANGED jobs
      BY <2>1 DEF InsertRecord
    <3>. QED
      BY <1>0, <1>1, <1>2, <3>2, <3>3 DEF ThreadsRecorded
  <2>2. CASE SpawnThread
    <3>. DEFINE job == [event |-> lst.msg, file |-> lst.name,
                        memory |-> lst.memory]
    <3>1. lst.pc = "spawn" /\ jobs' = Append(jobs, job) /\ lst' = Idling
      BY <2>2 DEF SpawnThread
    <3>2. /\ DOMAIN jobs' = DOMAIN jobs \union {Len(jobs) + 1}
          /\ \A i \in DOMAIN jobs : jobs'[i] = jobs[i]
          /\ jobs'[Len(jobs) + 1].event = lst.msg
      <4>1. jobs \in Seq(Job)
        BY DEF ListenerTypeOK
      <4>2. jobs' = Append(jobs, job) /\ job.event = lst.msg
        BY <3>1
      <4>. HIDE DEF job
      <4>. QED
        BY <4>1, <4>2
    <3>. QED
      BY <1>0, <1>1, <1>2, <3>1, <3>2, EndOfCallback DEF ThreadsRecorded
  <2>3. CASE UNCHANGED jobs /\ lst'.pc # "spawn"
    BY <1>0, <1>1, <1>2, <2>3 DEF ThreadsRecorded
  <2>4. ASSUME CallbackStep, ~InsertRecord, ~SpawnThread
        PROVE  UNCHANGED jobs /\ lst'.pc # "spawn"
    <3>. USE DEF ListenerTypeOK, Listener, Die, Down, Idling
    <3>1. CASE Receive
      BY <3>1 DEF Receive
    <3>9. CASE CountMatches
      BY <3>9 DEF CountMatches
    <3>8. CASE ReadName
      BY <3>8 DEF ReadName
    <3>2. CASE ReadMemory \/ ReadId
      BY <3>2 DEF ReadMemory, ReadId
    <3>3. CASE OpenFile \/ GetFile \/ ReadFile
      BY <3>3 DEF OpenFile, GetFile, ReadFile
    <3>4. CASE TestSequence
      BY <3>4 DEF TestSequence
    <3>5. CASE IncrementSequence
      BY <3>5 DEF IncrementSequence
    <3>6. CASE CopyType
      BY <3>6 DEF CopyType
    <3>7. CASE CopyMemory
      BY <3>7 DEF CopyMemory
    <3>. QED
      BY <2>4, <3>1, <3>2, <3>3, <3>4, <3>5, <3>6, <3>7, <3>8, <3>9
      DEF CallbackStep, CallbackQuery
  <2>5. CASE Crash \/ BrokerRestart \/ Restart
    <3>1. lst' \in {Down, Idling} /\ UNCHANGED jobs
      BY <2>5 DEF Crash, BrokerRestart, Restart, Die
    <3>. QED
      BY <2>3, <3>1, EndOfCallback
  <2>. QED
    BY <1>3, <1>4, <2>1, <2>2, <2>3, <2>4, <2>5
    DEF ListenerNext, Deliver, Publish
<1>. QED
  BY <1>3, <1>4 DEF listenerVars

----------------------------------------------------------------------------
(* The count of the executions. *)

\* The document a PUT changes is a registration.
LEMMA FirstIsRegistration ==
  ASSUME MongoTypeOK, Counted, "delete" \notin Operations,
         NEW u, NEW f, NEW d \in First(FunctionDocs(u, f))
  PROVE  d.run = NoRun
<1>. SUFFICES ASSUME d.run # NoRun
              PROVE  FALSE
  OBVIOUS
<1>1. d \in mapping /\ d.user = u /\ d.file = f
  BY DEF First, FunctionDocs
<1>2. PICK e \in Registrations(u, f) : e.pos < d.pos
  BY <1>1 DEF Counted
<1>3. d.pos <= e.pos /\ d.pos \in Nat /\ e.pos \in Nat
  BY <1>1 DEF First, Registrations, FunctionDocs, MongoTypeOK, Document, Ids
<1>. QED
  BY <1>2, <1>3

\* An inserted document continues the collection without a hole.
LEMMA NoHoles ==
  ASSUME MongoTypeOK, Counted, "delete" \notin Operations,
         NEW doc \in Document, Inserted(doc)
  PROVE  /\ IsFiniteSet(mapping')
         /\ \A d \in mapping' : \A q \in 1..d.pos : \E e \in mapping' : e.pos = q
         /\ \A d, e \in mapping' : d.id = e.id \/ d.pos = e.pos => d = e
         /\ \A d \in mapping : d.pos < doc.pos
<1>. USE DEF Inserted, Counted
<1>0. /\ mapping' = mapping \union {doc}
      /\ doc.pos \in Nat /\ \A d \in mapping : d.pos \in Nat
  BY DEF MongoTypeOK, Document, Ids
<1>1. IsFiniteSet(mapping')
  BY <1>0, FS_AddElement
<1>2. \A q \in 1..doc.pos : q = doc.pos \/ \E e \in mapping : e.pos = q
  <2>. SUFFICES ASSUME NEW q \in 1..doc.pos, q # doc.pos
                PROVE  \E e \in mapping : e.pos = q
    OBVIOUS
  <2>1. PICK d \in mapping : d.pos >= doc.pos - 1
    BY <1>0 DEF FreePositions
  <2>2. q \in 1..d.pos
    BY <1>0, <2>1
  <2>. QED
    BY <2>2
<1>3. \A d \in mapping' : \A q \in 1..d.pos : \E e \in mapping' : e.pos = q
  BY <1>0, <1>2
<1>4. \A d, e \in mapping' : d.id = e.id \/ d.pos = e.pos => d = e
  BY <1>0 DEF DocIds, FreePositions
<1>5. \A d \in mapping : d.pos < doc.pos
  <2>. SUFFICES ASSUME NEW d \in mapping, ~(d.pos < doc.pos)
                PROVE  FALSE
    OBVIOUS
  <2>1. doc.pos \in 1..d.pos
    BY <1>0 DEF FreePositions, Ids
  <2>. QED
    BY <2>1 DEF FreePositions
<1>. QED
  BY <1>1, <1>3, <1>4, <1>5

\* What a new registration and a changed one have in common.
SameCount ==
  /\ \A u, f, s : RecordsFrom(u, f, s)' = RecordsFrom(u, f, s)
  /\ \A u, f : FunctionDocs(u, f) # {} => FunctionDocs(u, f)' # {}
  /\ \A u, f : RegisteredOnce(u, f)' => RegisteredOnce(u, f)

LEMMA RegistrationCounted ==
  ASSUME MongoTypeOK, Counted, "delete" \notin Operations,
         NEW doc \in Document, Inserted(doc), doc.run = NoRun, doc.seq = 0
  PROVE  Counted' /\ SameCount
<1>1. mapping' = mapping \union {doc}
  BY DEF Inserted
<1>2. SameCount
  BY <1>1 DEF SameCount, RecordsFrom, FunctionDocs, Registrations, RegisteredOnce
<1>3. \A d \in mapping' : d.run = NoRun => d.seq = 0
  BY <1>1 DEF Counted
<1>4. ASSUME NEW d \in mapping', d.run # NoRun
      PROVE  \E e \in Registrations(d.user, d.file)' : e.id < d.id /\ e.pos < d.pos
  <2>1. d \in mapping
    BY <1>1, <1>4
  <2>2. PICK e \in Registrations(d.user, d.file) : e.id < d.id /\ e.pos < d.pos
    BY <1>4, <2>1 DEF Counted
  <2>3. e \in Registrations(d.user, d.file)'
    BY <1>1 DEF Registrations, FunctionDocs
  <2>. QED
    BY <2>2, <2>3
<1>5. SequenceCountsExecutions'
  <2>. SUFFICES ASSUME NEW d \in mapping', d.run # NoRun,
                       RegisteredOnce(d.user, d.file)'
                PROVE  d.seq = Cardinality({e \in RecordsFrom(d.user, d.file, d.source)' :
                                              e.id <= d.id})
    BY DEF SequenceCountsExecutions
  <2>1. d \in mapping /\ RegisteredOnce(d.user, d.file)
    BY <1>1, <1>2 DEF SameCount
  <2>2. RecordsFrom(d.user, d.file, d.source)' = RecordsFrom(d.user, d.file, d.source)
    BY <1>2 DEF SameCount
  <2>. QED
    BY <2>1, <2>2 DEF Counted, SequenceCountsExecutions
<1>. QED
  BY <1>2, <1>3, <1>4, <1>5, NoHoles DEF Counted

LEMMA ReplacedCounted ==
  ASSUME MongoTypeOK, Counted, "delete" \notin Operations,
         NEW u, NEW f, NEW d \in First(FunctionDocs(u, f)),
         NEW doc \in Document, Replaced(d, doc)
  PROVE  Counted' /\ SameCount
<1>. DEFINE Same(a, b) == /\ a.id = b.id /\ a.pos = b.pos /\ a.user = b.user
                          /\ a.file = b.file /\ a.seq = b.seq /\ a.run = b.run
<1>1. d \in mapping /\ d.run = NoRun
  BY FirstIsRegistration DEF First, FunctionDocs
<1>2. /\ mapping' = (mapping \ {d}) \union {doc}
      /\ Same(d, doc) /\ doc.run = NoRun
  BY <1>1 DEF Replaced
<1>3. /\ \A a \in mapping : \E b \in mapping' : Same(a, b)
      /\ \A b \in mapping' : \E a \in mapping : Same(a, b)
  BY <1>1, <1>2
<1>4. \A e : e.run # NoRun => (e \in mapping' <=> e \in mapping)
  BY <1>1, <1>2
<1>5. SameCount
  <2>1. \A v, g, s : RecordsFrom(v, g, s)' = RecordsFrom(v, g, s)
    BY <1>4 DEF RecordsFrom, FunctionDocs
  <2>2. \A v, g : FunctionDocs(v, g) # {} => FunctionDocs(v, g)' # {}
    BY <1>3 DEF FunctionDocs
  <2>3. ASSUME NEW v, NEW g, RegisteredOnce(v, g)',
               NEW a \in Registrations(v, g), NEW b \in Registrations(v, g)
        PROVE  a = b
    <3>1. PICK a1 \in mapping', b1 \in mapping' : Same(a, a1) /\ Same(b, b1)
      BY <1>3 DEF Registrations, FunctionDocs
    <3>2. a1 \in Registrations(v, g)' /\ b1 \in Registrations(v, g)'
      BY <3>1 DEF Registrations, FunctionDocs
    <3>3. a.id = b.id
      BY <2>3, <3>1, <3>2 DEF RegisteredOnce
    <3>. QED
      BY <3>3 DEF Counted, Registrations, FunctionDocs
  <2>. QED
    BY <2>1, <2>2, <2>3 DEF SameCount, RegisteredOnce
<1>6. IsFiniteSet(mapping')
  BY <1>2, FS_AddElement, FS_RemoveElement DEF Counted
<1>7. \A b \in mapping' : \A q \in 1..b.pos : \E e \in mapping' : e.pos = q
  <2>. SUFFICES ASSUME NEW b \in mapping', NEW q \in 1..b.pos
                PROVE  \E e \in mapping' : e.pos = q
    OBVIOUS
  <2>1. PICK a \in mapping : a.pos = b.pos
    BY <1>3
  <2>2. PICK e \in mapping : e.pos = q
    BY <2>1 DEF Counted
  <2>. QED
    BY <1>3, <2>2
<1>8. \A a, b \in mapping' : a.id = b.id \/ a.pos = b.pos => a = b
  <2>1. \A e \in mapping \ {d} : e.id # d.id /\ e.pos # d.pos
    BY <1>1 DEF Counted
  <2>2. \A a, b \in mapping : a.id = b.id \/ a.pos = b.pos => a = b
    BY DEF Counted
  <2>. QED
    BY <1>2, <2>1, <2>2
<1>9. \A b \in mapping' : b.run = NoRun => b.seq = 0
  BY <1>3 DEF Counted
<1>10. ASSUME NEW b \in mapping', b.run # NoRun
       PROVE  \E e \in Registrations(b.user, b.file)' : e.id < b.id /\ e.pos < b.pos
  <2>1. b \in mapping
    BY <1>4, <1>10
  <2>2. PICK e \in Registrations(b.user, b.file) : e.id < b.id /\ e.pos < b.pos
    BY <1>10, <2>1 DEF Counted
  <2>3. PICK e1 \in mapping' : Same(e, e1)
    BY <1>3 DEF Registrations, FunctionDocs
  <2>4. e1 \in Registrations(b.user, b.file)'
    BY <2>3 DEF Registrations, FunctionDocs
  <2>. QED
    BY <2>2, <2>3, <2>4
<1>11. SequenceCountsExecutions'
  <2>. SUFFICES ASSUME NEW b \in mapping', b.run # NoRun,
                       RegisteredOnce(b.user, b.file)'
                PROVE  b.seq = Cardinality({e \in RecordsFrom(b.user, b.file, b.source)' :
                                              e.id <= b.id})
    BY DEF SequenceCountsExecutions
  <2>1. b \in mapping /\ RegisteredOnce(b.user, b.file)
    BY <1>4, <1>5 DEF SameCount
  <2>2. RecordsFrom(b.user, b.file, b.source)' = RecordsFrom(b.user, b.file, b.source)
    BY <1>5 DEF SameCount
  <2>. QED
    BY <2>1, <2>2 DEF Counted, SequenceCountsExecutions
<1>. QED
  BY <1>5, <1>6, <1>7, <1>8, <1>9, <1>10, <1>11 DEF Counted

\* The record that is written has the number the callback computed, and the
\* older records keep theirs.
LEMMA RecordCounted ==
  ASSUME ApiInv, ListenerTypeOK, Counted, Counting, "delete" \notin Operations,
         NEW doc \in Document, RecordWritten(doc)
  PROVE  Counted'
<1>. DEFINE u == doc.user
            f == doc.file
<1>1. /\ mapping' = mapping \union {doc} /\ Inserted(doc)
      /\ doc.id = nextId /\ doc.seq = lst.seq
      /\ u = lst.msg.user /\ f = lst.msg.file /\ doc.source = lst.msg.source
      /\ lst.pc = "insert"
  BY DEF RecordWritten, Inserted
<1>2. /\ doc.run # NoRun /\ MongoTypeOK
      /\ nextId \in Nat /\ \A d \in mapping : d.id \in Nat
  <2>1. doc.run \in Runs
    <3>1. lst.msg \in Event
      BY <1>1 DEF ListenerTypeOK, Stages
    <3>. QED
      BY <3>1 DEF RecordWritten, Event
  <2>2. MongoTypeOK
    BY DEF ApiInv, ApiTypeOK
  <2>. QED
    BY <2>1, <2>2 DEF Runs, NoRun, MongoTypeOK, Document, Ids
<1>3. \A d \in mapping : d.id < nextId
  <2>. SUFFICES ASSUME NEW d \in mapping
                PROVE  d.id < nextId
    OBVIOUS
  <2>1. PICK c \in Claims : c = <<d.id, d.user, d.file>>
    BY ClaimsNow DEF ApiInv
  <2>. QED
    BY <2>1 DEF ApiInv, Ownership
<1>4. \A d \in mapping : d.pos < doc.pos
  BY <1>1, <1>2, NoHoles
<1>5. \A v, g : Registrations(v, g)' = Registrations(v, g)
  BY <1>1, <1>2 DEF Registrations, FunctionDocs
<1>6. \E e \in Registrations(u, f) : e.id < doc.id /\ e.pos < doc.pos
  <2>1. PICK d \in FunctionDocs(u, f) : TRUE
    BY <1>1 DEF Counting
  <2>2. \E e \in Registrations(u, f) : TRUE
    BY <2>1 DEF Counted, FunctionDocs, Registrations
  <2>. QED
    BY <1>1, <1>3, <1>4, <2>2 DEF Registrations, FunctionDocs
<1>7. \A d \in mapping' : d.run = NoRun => d.seq = 0
  BY <1>1, <1>2 DEF Counted
<1>8. ASSUME NEW d \in mapping', d.run # NoRun
      PROVE  \E e \in Registrations(d.user, d.file)' : e.id < d.id /\ e.pos < d.pos
  BY <1>1, <1>5, <1>6, <1>8 DEF Counted
<1>9. ASSUME NEW d \in mapping', d.run # NoRun, RegisteredOnce(d.user, d.file)'
      PROVE  d.seq = Cardinality({e \in RecordsFrom(d.user, d.file, d.source)' :
                                    e.id <= d.id})
  <2>. DEFINE counted == {e \in RecordsFrom(d.user, d.file, d.source)' :
                            e.id <= d.id}
              records == RecordsFrom(d.user, d.file, d.source)
  <2>1. RegisteredOnce(d.user, d.file)
    BY <1>5, <1>9 DEF RegisteredOnce
  <2>2. CASE d \in mapping
    <3>1. counted = {e \in records : e.id <= d.id}
      BY <1>1, <1>2, <1>3, <2>2 DEF RecordsFrom, FunctionDocs
    <3>. QED
      BY <1>9, <2>1, <2>2, <3>1 DEF Counted, SequenceCountsExecutions
  <2>3. CASE d = doc
    <3>1. counted = records \union {doc} /\ doc \notin records
      BY <1>1, <1>2, <1>3, <2>3 DEF RecordsFrom, FunctionDocs
    <3>2. IsFiniteSet(records)
      <4>1. records \subseteq mapping /\ IsFiniteSet(mapping)
        BY DEF RecordsFrom, FunctionDocs, Counted
      <4>. QED
        BY <4>1, FS_Subset
    <3>3. Cardinality(counted) = Cardinality(records) + 1
      BY <3>1, <3>2, FS_AddElement
    <3>4. doc.seq = Cardinality(records) + 1
      BY <1>1, <2>1, <2>3 DEF Counting
    <3>. QED
      BY <2>3, <3>3, <3>4
  <2>. QED
    BY <1>1, <2>2, <2>3
<1>10. SequenceCountsExecutions'
  BY <1>9 DEF SequenceCountsExecutions
<1>. QED
  BY <1>1, <1>2, <1>7, <1>8, <1>10, NoHoles DEF Counted

\* The latest document of a function and an event source is the record of its
\* latest execution, once there is one.
LEMMA LatestRecord ==
  ASSUME MongoTypeOK, Counted, "delete" \notin Operations,
         NEW u, NEW f, NEW s, RegisteredOnce(u, f),
         NEW d \in Latest({e \in FunctionDocs(u, f) : e.source = s})
  PROVE  IF RecordsFrom(u, f, s) = {}
         THEN d.seq = 0
         ELSE d.seq = Cardinality(RecordsFrom(u, f, s)) /\ d.seq > 0
<1>. DEFINE records == RecordsFrom(u, f, s)
<1>1. /\ d \in FunctionDocs(u, f) /\ d.source = s /\ d \in mapping
      /\ d.user = u /\ d.file = f
      /\ \A e \in records : e.id <= d.id
  BY DEF Latest, RecordsFrom, FunctionDocs
<1>2. CASE records = {}
  <2>1. d.run = NoRun
    BY <1>1, <1>2 DEF RecordsFrom
  <2>. QED
    BY <1>1, <1>2, <2>1 DEF Counted
<1>3. CASE records # {}
  <2>1. d.run # NoRun
    <3>. SUFFICES ASSUME d.run = NoRun
                  PROVE  FALSE
      OBVIOUS
    <3>1. PICK e \in records : TRUE
      BY <1>3
    <3>2. PICK r \in Registrations(u, f) : r.id < e.id
      BY <3>1 DEF Counted, RecordsFrom, FunctionDocs
    <3>3. d \in Registrations(u, f)
      BY <1>1 DEF Registrations
    <3>4. r = d
      BY <3>2, <3>3 DEF RegisteredOnce
    <3>5. e.id <= d.id /\ e.id \in Nat /\ d.id \in Nat
      BY <1>1, <3>1 DEF MongoTypeOK, Document, Ids, RecordsFrom, FunctionDocs
    <3>. QED
      BY <3>2, <3>4, <3>5
  <2>2. d.seq = Cardinality(records)
    <3>1. {e \in RecordsFrom(d.user, d.file, d.source) : e.id <= d.id} = records
      BY <1>1
    <3>. QED
      BY <1>1, <2>1, <3>1 DEF Counted, SequenceCountsExecutions
  <2>3. Cardinality(records) \in Nat /\ Cardinality(records) # 0
    <3>1. records \subseteq mapping /\ IsFiniteSet(mapping)
      BY DEF RecordsFrom, FunctionDocs, Counted
    <3>2. IsFiniteSet(records)
      BY <3>1, FS_Subset
    <3>. QED
      BY <1>3, <3>2, FS_CardinalityType, FS_EmptySet
  <2>. QED
    BY <1>3, <2>2, <2>3
<1>. QED
  BY <1>2, <1>3


LEMMA SameCollection ==
  ASSUME UNCHANGED mapping
  PROVE  SameCount /\ (Counted => Counted')
BY DEF SameCount, Counted, SequenceCountsExecutions, RecordsFrom, Registrations,
       RegisteredOnce, FunctionDocs

\* The requests leave the count of the executions alone.
LEMMA RequestsKeepCount ==
  ASSUME ApiTypeOK, RecordedFirst, Counted, ApiNext, "delete" \notin Operations
  PROVE  Counted' /\ SameCount
<1>1. MongoTypeOK /\ \A r \in Requests : ~Deletes(r)
  BY DEF ApiTypeOK, RecordedFirst
<1>2. DocumentsStep
  BY RequestStep
<1>. QED
  BY <1>1, <1>2, SameCollection, RegistrationCounted, ReplacedCounted DEF DocumentsStep

LEMMA CountingKept ==
  ASSUME Counting, SameCount, UNCHANGED lst
  PROVE  Counting'
BY DEF Counting, SameCount

\* The callback computes the number of the record it is going to write.
LEMMA CallbackCounts ==
  ASSUME ApiInv, ListenerTypeOK, Counted, Counting, "delete" \notin Operations,
         CallbackQuery, UNCHANGED dbVars
  PROVE  Counting'
<1>. DEFINE u == lst.msg.user
            f == lst.msg.file
            records == RecordsFrom(u, f, lst.msg.source)
<1>. USE DEF Die, Down, Idling
<1>1. /\ MongoTypeOK /\ lst \in Listener
      /\ \A v, g, s : RecordsFrom(v, g, s)' = RecordsFrom(v, g, s)
      /\ \A v, g : FunctionDocs(v, g)' = FunctionDocs(v, g)
      /\ \A v, g : RegisteredOnce(v, g)' = RegisteredOnce(v, g)
  BY DEF ApiInv, ApiTypeOK, ListenerTypeOK, dbVars, RecordsFrom, FunctionDocs,
     Registrations, RegisteredOnce
<1>2. CASE lst'.pc \notin {"increment", "copyType", "copyMemory", "insert"}
  BY <1>2 DEF Counting
<1>3. ASSUME lst'.msg = lst.msg, FunctionDocs(u, f) # {},
             lst'.pc = "increment" => records # {},
             lst'.pc \in {"copyType", "copyMemory", "insert"} /\ RegisteredOnce(u, f)
               => lst'.seq = Cardinality(records) + 1
      PROVE  Counting'
  BY <1>1, <1>3 DEF Counting
<1>4. \A d \in Latest(Recorded) :
         /\ d \in FunctionDocs(u, f) /\ d.seq \in Nat
         /\ RegisteredOnce(u, f) =>
              IF records = {} THEN d.seq = 0
              ELSE d.seq = Cardinality(records) /\ d.seq > 0
  BY <1>1, LatestRecord DEF Recorded, Latest, FunctionDocs, MongoTypeOK, Document
<1>5. CASE TestSequence
  <2>1. CASE lst' = Down
    BY <1>2, <2>1
  <2>2. ASSUME NEW d \in Latest(Recorded),
               lst' = IF d.seq > 0 THEN [lst EXCEPT !.pc = "increment"]
                      ELSE [lst EXCEPT !.pc = "copyType", !.seq = 1]
        PROVE  Counting'
    <3>1. CASE d.seq > 0
      <4>1. lst'.pc = "increment" /\ lst'.msg = lst.msg
        BY <1>1, <2>2, <3>1 DEF Listener
      <4>2. records # {}
        <5>1. d.run # NoRun
          BY <3>1, <1>4 DEF Counted, FunctionDocs
        <5>. QED
          BY <5>1 DEF RecordsFrom, Latest, Recorded
      <4>. QED
        BY <1>3, <1>4, <4>1, <4>2
    <3>2. CASE ~(d.seq > 0)
      <4>1. lst'.pc = "copyType" /\ lst'.msg = lst.msg /\ lst'.seq = 1
        BY <1>1, <2>2, <3>2 DEF Listener
      <4>2. RegisteredOnce(u, f) => Cardinality(records) = 0
        BY <1>4, <3>2, FS_EmptySet
      <4>. QED
        BY <1>3, <1>4, <4>1, <4>2
    <3>. QED
      BY <3>1, <3>2
  <2>. QED
    BY <1>5, <2>1, <2>2 DEF TestSequence
<1>6. CASE IncrementSequence
  <2>1. CASE lst' = Down
    BY <1>2, <2>1
  <2>2. ASSUME NEW d \in Latest(Recorded),
               lst' = [lst EXCEPT !.pc = "copyType", !.seq = d.seq + 1]
        PROVE  Counting'
    <3>1. lst'.pc = "copyType" /\ lst'.msg = lst.msg /\ lst'.seq = d.seq + 1
      BY <1>1, <1>4, <2>2 DEF Listener
    <3>2. records # {}
      BY <1>6 DEF Counting, IncrementSequence
    <3>. QED
      BY <1>3, <1>4, <3>1, <3>2
  <2>. QED
    BY <1>6, <2>1, <2>2 DEF IncrementSequence
<1>7. CASE CopyType
  <2>1. \/ lst' = Down
        \/ \E d \in Latest(Recorded) : lst' = [lst EXCEPT !.pc = "copyMemory", !.etype = d.etype]
    BY <1>7 DEF CopyType
  <2>2. CASE lst' # Down
    <3>1. lst'.pc = "copyMemory" /\ lst'.msg = lst.msg /\ lst'.seq = lst.seq
      BY <1>1, <2>1, <2>2 DEF Listener
    <3>. QED
      BY <1>3, <1>7, <3>1 DEF Counting, CopyType
  <2>. QED
    BY <1>2, <2>2
<1>8. CASE CopyMemory
  <2>1. \/ lst' = Down
        \/ \E d \in Latest(Recorded) : lst' = [lst EXCEPT !.pc = "insert", !.recorded = d.memory]
    BY <1>8 DEF CopyMemory
  <2>2. CASE lst' # Down
    <3>1. lst'.pc = "insert" /\ lst'.msg = lst.msg /\ lst'.seq = lst.seq
      BY <1>1, <2>1, <2>2 DEF Listener
    <3>. QED
      BY <1>3, <1>8, <3>1 DEF Counting, CopyMemory
  <2>. QED
    BY <1>2, <2>2
<1>9. ASSUME ~TestSequence, ~IncrementSequence, ~CopyType, ~CopyMemory
      PROVE  lst'.pc \notin {"increment", "copyType", "copyMemory", "insert"}
  <2>. USE DEF Listener
  <2>1. CASE Receive
    BY <1>1, <2>1 DEF Receive
  <2>2. CASE CountMatches
    BY <1>1, <2>2 DEF CountMatches
  <2>3. CASE ReadName
    BY <1>1, <2>3 DEF ReadName
  <2>4. CASE ReadMemory \/ ReadId
    BY <1>1, <2>4 DEF ReadMemory, ReadId
  <2>5. CASE OpenFile \/ GetFile \/ ReadFile
    BY <1>1, <2>5 DEF OpenFile, GetFile, ReadFile
  <2>6. CASE SpawnThread
    BY <2>6 DEF SpawnThread
  <2>. QED
    BY <1>9, <2>1, <2>2, <2>3, <2>4, <2>5, <2>6 DEF CallbackQuery
<1>. QED
  BY <1>2, <1>5, <1>6, <1>7, <1>8, <1>9

LEMMA CountNext ==
  ASSUME ApiInv, ListenerTypeOK, CallbackKnows, RecordedFirst, Counted, Counting,
         \/ ApiNext /\ UNCHANGED listenerVars
         \/ ListenerNext /\ UNCHANGED req
  PROVE  Counted' /\ Counting'
<1>. SUFFICES ASSUME "delete" \notin Operations
              PROVE  Counted' /\ Counting'
  BY DEF Counted, Counting
<1>1. CASE ApiNext /\ UNCHANGED listenerVars
  BY <1>1, RequestsKeepCount, CountingKept DEF listenerVars, ApiInv
<1>2. CASE CallbackQuery /\ UNCHANGED dbVars
  BY <1>2, CallbackCounts, SameCollection DEF dbVars
<1>3. CASE InsertRecord /\ ListenerNext
  <2>1. PICK doc \in Document : RecordWritten(doc)
    BY <1>3, ListenerWrites DEF InsertRecord, ApiInv, dbVars, ApiTypeOK,
       MongoTypeOK
  <2>2. lst'.pc = "spawn"
    BY <2>1 DEF RecordWritten, ListenerTypeOK, Listener
  <2>. QED
    BY <2>1, <2>2, RecordCounted DEF Counting
<1>4. CASE ListenerNext /\ ~CallbackStep
  <2>1. UNCHANGED mapping /\ (UNCHANGED lst \/ lst' \in {Down, Idling})
    BY <1>4 DEF ListenerNext, Deliver, Crash, BrokerRestart, Restart, Publish,
       Die, dbVars
  <2>2. CASE UNCHANGED lst
    BY <2>1, <2>2, SameCollection, CountingKept
  <2>3. CASE lst' \in {Down, Idling}
    BY <2>1, <2>3, SameCollection, EndOfCallback DEF Counting
  <2>. QED
    BY <2>1, <2>2, <2>3
<1>. QED
  BY <1>1, <1>2, <1>3, <1>4 DEF CallbackStep


----------------------------------------------------------------------------
(* The theorems. *)

LEMMA ServiceInvInit ==
  ASSUME ServiceInit
  PROVE  ServiceInv /\ D!DeliveryInit
<1>. USE DEF ServiceInit, ListenerInit, ApiInit, MongoInit
<1>1. ApiInv /\ mapping = {} /\ files = {}
  BY ApiInvInit
<1>2. /\ queue = <<>> /\ buffer = <<>> /\ jobs = <<>> /\ sent = 0
      /\ lst \in Listener /\ lst.pc = "idle"
  BY EndOfCallback
<1>3. HostTypeOK
  BY DEF HostInit, HostTypeOK, Code, NoCode
<1>4. ListenerTypeOK /\ CallbackKnows
  BY <1>2, <1>3, TypesAssumption DEF ListenerTypeOK, CallbackKnows, Stages
<1>5. WaitingEvents = {} /\ StartedEvents = {} /\ InProgress = {}
  BY <1>2, NoMessage DEF WaitingEvents, StartedEvents, InProgress, Stages
<1>6. EventsInLine
  BY <1>2, <1>5, NoMessage DEF EventsInLine, StartsInOrder, Before
<1>7. IdOfUser /\ RecordsAreNoFiles
  BY <1>1, <1>2 DEF IdOfUser, RecordsAreNoFiles
<1>8. RecordedFirst
  <2>1. \A r \in Requests : ~Deletes(r)
    BY DEF Deletes, Idle
  <2>. QED
    BY <1>2, <2>1 DEF RecordedFirst, ThreadsRecorded
<1>9. Counted /\ Counting
  BY <1>1, <1>2, FS_EmptySet DEF Counted, Counting, SequenceCountsExecutions
<1>. QED
  BY <1>1, <1>2, <1>4, <1>5, <1>6, <1>7, <1>8, <1>9 DEF ServiceInv, D!DeliveryInit

LEMMA ServiceInvNext ==
  ASSUME ServiceInv, [ServiceNext]_serviceVars
  PROVE  /\ ServiceInv'
         /\ [D!DeliveryNext]_(D!deliveryVars)
         /\ [DeleteStep]_apiVars
<1>0. /\ ApiInv /\ ListenerTypeOK /\ CallbackKnows /\ EventsInLine /\ IdOfUser
      /\ RecordsAreNoFiles /\ RecordedFirst /\ Counted /\ Counting
      /\ ApiTypeOK /\ MongoTypeOK
  BY DEF ServiceInv, ApiInv, ApiTypeOK
<1>1. ASSUME UNCHANGED listenerVars
      PROVE  /\ ListenerTypeOK' /\ CallbackKnows' /\ EventsInLine'
             /\ UNCHANGED D!deliveryVars
  BY <1>0, <1>1 DEF listenerVars, ListenerTypeOK, HostTypeOK, CallbackKnows,
     EventsInLine, InProgress, WaitingEvents, StartedEvents, StartsInOrder,
     D!deliveryVars
<1>2. CASE ApiNext /\ UNCHANGED listenerVars
  <2>1. ApiInv' /\ ClaimStep
    BY <1>0, <1>2, ApiTypeNext, ClaimsNext, OwnershipKept, UploadsPrivateNext,
       FilesNext DEF ApiInv
  <2>2. IdOfUser'
    BY <1>0, <1>2, <2>1, IdOfUserNext DEF listenerVars
  <2>3. RecordsAreNoFiles'
    BY <1>0, <1>2, RequestStep, RecordsAreNoFilesNext
  <2>4. RecordedFirst' /\ Counted' /\ Counting'
    BY <1>0, <1>2, RecordedFirstNext, CountNext
  <2>5. [DeleteStep]_apiVars
    BY <1>0, <1>2, DeletesOnly DEF DeleteStep
  <2>. QED
    BY <1>1, <1>2, <2>1, <2>2, <2>3, <2>4, <2>5 DEF ServiceInv
<1>3. CASE ListenerNext /\ UNCHANGED req
  <2>1. ApiInv' /\ ClaimStep
    <3>1. CASE UNCHANGED dbVars
      <4>1. UNCHANGED apiVars
        BY <1>3, <3>1 DEF apiVars, dbVars
      <4>2. ClaimStep
        BY <3>1, <4>1 DEF ClaimStep, Claims, HeldIds, Uploads, Deletes, apiVars
      <4>. QED
        BY <1>0, <4>1, <4>2, ApiInvStutter
    <3>. QED
      BY <1>0, <1>3, <3>1, ListenerWrites, ListenerKeepsApiInv
  <2>2. /\ ListenerTypeOK' /\ CallbackKnows' /\ EventsInLine'
        /\ [D!DeliveryNext]_(D!deliveryVars)
    BY <1>0, <1>3, ListenerTypeNext
  <2>3. IdOfUser'
    BY <1>0, <1>3, <2>1, IdOfUserNext
  <2>4. RecordsAreNoFiles'
    BY <1>0, <1>3, ListenerWrites, RecordsAreNoFilesNext DEF dbVars
  <2>5. RecordedFirst' /\ Counted' /\ Counting'
    BY <1>0, <1>3, RecordedFirstNext, CountNext
  <2>6. DeleteStep
    BY <1>3 DEF DeleteStep
  <2>. QED
    BY <2>1, <2>2, <2>3, <2>4, <2>5, <2>6 DEF ServiceInv
<1>4. CASE UNCHANGED serviceVars
  <2>1. UNCHANGED apiVars /\ UNCHANGED listenerVars /\ UNCHANGED <<mapping, files, req, lst, jobs>>
    BY <1>4 DEF serviceVars, apiVars, listenerVars
  <2>2. ApiInv'
    BY <1>0, <2>1, ApiInvStutter
  <2>3. IdOfUser'
    BY <1>0, <2>1 DEF IdOfUser, Claims, HeldIds, Uploads, Deletes, apiVars
  <2>4. RecordsAreNoFiles' /\ RecordedFirst'
    BY <1>0, <2>1 DEF RecordsAreNoFiles, RecordedFirst, ThreadsRecorded, Deletes
  <2>5. Counted' /\ Counting'
    BY <1>0, <2>1, SameCollection, CountingKept
  <2>. QED
    BY <1>1, <2>1, <2>2, <2>3, <2>4, <2>5 DEF ServiceInv
<1>. QED
  BY <1>2, <1>3, <1>4 DEF ServiceNext

\* However requests, callbacks, crashes and restarts interleave, the events
\* stand in line and what the callback has read is still good where it relies
\* on it.
THEOREM ServiceInvariant == ServiceSpec => []ServiceInv
BY ServiceInvInit, ServiceInvNext, PTL DEF ServiceSpec

\* Every document, message and handler has the form the code gives it.
THEOREM ServiceTypeCorrect == ServiceSpec => []ServiceTypeOK
<1>1. ServiceInv => ServiceTypeOK
  BY DEF ServiceInv, ApiInv, ServiceTypeOK
<1>. QED
  BY <1>1, ServiceInvariant, PTL

\* The listener's writes keep what the handlers of the REST interface rely
\* on: listed files are whole, and an ObjectId belongs to one function.
THEOREM ServiceKeepsApiInv == ServiceSpec => []ApiInv
<1>1. ServiceInv => ApiInv
  BY DEF ServiceInv
<1>. QED
  BY <1>1, ServiceInvariant, PTL

\* The threads start in the order in which the events were published, each
\* event starting at most one.
THEOREM StartsInOrderCorrect == ServiceSpec => []StartsInOrder
<1>1. ServiceInv => StartsInOrder
  BY DEF ServiceInv, EventsInLine
<1>. QED
  BY <1>1, ServiceInvariant, PTL

\* The code that is written for an event was uploaded by its user.
THEOREM CodeOfUserCorrect == ServiceSpec => []CodeOfUser
<1>1. ServiceInv => CodeOfUser
  <2>. SUFFICES ASSUME ServiceInv, lst.pc \in {"get", "read"},
                       NEW g \in files, g.id = lst.id
                PROVE  g.user = lst.msg.user
    BY DEF CodeOfUser
  <2>1. PICK c \in Claims : c = <<g.id, g.user, g.name>>
    BY ClaimsNow DEF ServiceInv, ApiInv
  <2>2. c[1] = g.id /\ c[2] = g.user
    BY <2>1
  <2>. QED
    BY <2>2 DEF ServiceInv, IdOfUser
<1>. QED
  BY <1>1, ServiceInvariant, PTL

\* An ObjectId of an execution record is never that of a file.
THEOREM RecordsAreNoFilesCorrect == ServiceSpec => []RecordsAreNoFiles
<1>1. ServiceInv => RecordsAreNoFiles
  BY DEF ServiceInv
<1>. QED
  BY <1>1, ServiceInvariant, PTL

\* Unless DELETE is used, every thread that was started is on record.
THEOREM ThreadsRecordedCorrect == ServiceSpec => []ThreadsRecorded
<1>1. ServiceInv => ThreadsRecorded
  BY DEF ServiceInv, RecordedFirst, ThreadsRecorded
<1>. QED
  BY <1>1, ServiceInvariant, PTL

\* Unless DELETE is used or the function is registered twice, the n-th
\* execution of a function from an event source has sequence number n.
THEOREM SequenceCountsCorrect == ServiceSpec => []SequenceCountsExecutions
<1>1. ServiceInv => SequenceCountsExecutions
  BY DEF ServiceInv, Counted, SequenceCountsExecutions
<1>. QED
  BY <1>1, ServiceInvariant, PTL

\* DELETE removes only documents of the function its URL names, also with the
\* listener at work on the same collections.
THEOREM ServiceDeletesOnly == ServiceSpec => DeletesOnlyItsFunction
BY ServiceInvariant, ServiceInvNext, PTL DEF ServiceSpec, DeletesOnlyItsFunction

\* The listener implements Delivery: every event starts at most one execution,
\* in the order of publication, and every failure only loses events.
THEOREM ImplementsDeliveryCorrect == ServiceSpec => ImplementsDelivery
BY ServiceInvariant, ServiceInvInit, ServiceInvNext, PTL
DEF ServiceSpec, ImplementsDelivery, D!DeliverySpec

=============================================================================
