---------------------------- MODULE DriverProofs ----------------------------
(***************************************************************************)
(* What threads that share a connection can rely on: the host it points to *)
(* and the replies they read (NodeDiscovery), the nonce of a login         *)
(* (Credentials), the indexes the cache knows of and the _ids of documents *)
(* (Collection, ObjectIds), the members of a replica set that are asked    *)
(* again (ReplicaSet), the server a call goes to (Routing), what a cursor  *)
(* returns and leaves behind (Cursor), and the bytes a read returns        *)
(* (GridFS), for any number of threads, members, sockets, databases,       *)
(* documents, files, writers, readers and faults.                          *)
(***************************************************************************)
EXTENDS Driver, ConnectionPoolProofs, SequenceTheorems

----------------------------------------------------------------------------
(* Finding the primary. *)

\* A thread that will ask the host of the Connection whether it is the primary,
\* or point the Connection elsewhere: it has pointed the Connection there, and
\* its next socket goes there, because DropHost has closed the one it had.
Responsible(t) ==
  /\ Searches(t)
  /\ \/ task[t].pc \in {"next", "drop"}
     \/ task[t].pc = "socket" /\ sock[t] = Closed
     \/ task[t].pc = "get" /\ task[t].pair = conn.host /\ sock[t] = Closed
     \/ task[t].pc = "ismaster" /\ sock[t].node = conn.host

\* Where a thread is fits what it has; a reply is still to come only while the
\* thread waits for it.
TaskOK(t) ==
  /\ task[t].pc \in {"socket", "next", "drop", "point", "ismaster"} =>
       Searches(t)
  /\ task[t].pc = "point" => sock[t] = Closed
  /\ sock[t].unread => task[t].pc = "receive"

HostInv ==
  /\ DiscoveryTypeOK
  /\ \A t \in Threads : TaskOK(t)
  /\ conn.host = NoMember \/ conn.checked \/ \E t \in Threads : Responsible(t)

Conns == [host : Members \union {NoMember}, nodes : SUBSET Members,
          checked : BOOLEAN]
ReplSets == [up : SUBSET Members, primary : Members \union {NoMember},
             faults : 0..MaxFaults]

\* What HostInv says of one thread.
LEMMA OfTask ==
  ASSUME HostInv, NEW t \in Threads
  PROVE  /\ task[t] \in Task /\ sock[t] \in Socket
         /\ conn \in Conns /\ replset \in ReplSets
         /\ task[t].find \in Seq(Frame)
         /\ TaskOK(t)
BY DEF HostInv, DiscoveryTypeOK, Conns, ReplSets, Task

LEMMA ClosedType == Closed \in Socket /\ ~Closed.unread /\ ~Closed.alive
BY DEF Closed, Socket

LEMMA IdleType ==
  /\ DoingTask("idle", "none") \in Task
  /\ DoingTask("idle", "none").pc = "idle"
  /\ DoingTask("idle", "none").find = <<>>
BY DEF DoingTask, Task

\* A step of thread t: either no host is left, or it was checked, or t is
\* responsible for it now, or t was not and the host and the others are as
\* they were.
LEMMA TaskGoesOn ==
  ASSUME HostInv, NEW t \in Threads, NEW c \in Task, GoTask(t, c),
         conn' \in Conns, sock' \in [Threads -> Socket], replset' \in ReplSets,
         \A u \in Threads \ {t} : sock'[u] \in {sock[u], Closed},
         c.pc \in {"socket", "next", "drop", "point", "ismaster"} =>
           c.find # <<>>,
         c.pc = "point" => sock'[t] = Closed,
         sock'[t].unread => c.pc = "receive",
         \/ conn'.host = NoMember \/ conn'.checked
         \/ Responsible(t)'
         \/ /\ conn'.host = conn.host /\ conn'.checked = conn.checked
            /\ \A u \in Threads \ {t} : sock'[u] = sock[u]
            /\ ~Responsible(t)
  PROVE  HostInv'
<1>1. /\ task' \in [Threads -> Task] /\ task'[t] = c
      /\ \A u \in Threads \ {t} : task'[u] = task[u]
  BY DEF GoTask, HostInv, DiscoveryTypeOK
<1>2. DiscoveryTypeOK'
  BY <1>1 DEF DiscoveryTypeOK, Conns, ReplSets
<1>3. ASSUME NEW u \in Threads
      PROVE  TaskOK(u)'
  <2>1. CASE u = t
    BY <1>1, <2>1 DEF TaskOK, Searches
  <2>2. CASE u # t
    BY <1>1, <2>2, ClosedType DEF HostInv, TaskOK, Searches
  <2> QED
    BY <2>1, <2>2
<1>4. \/ conn'.host = NoMember \/ conn'.checked
      \/ \E u \in Threads : Responsible(u)'
  <2>1. CASE Responsible(t)'
    BY <2>1
  <2>2. CASE /\ conn'.host = conn.host /\ conn'.checked = conn.checked
             /\ \A u \in Threads \ {t} : sock'[u] = sock[u]
             /\ ~Responsible(t)
             /\ conn.host # NoMember /\ ~conn.checked
    <3>1. PICK u \in Threads \ {t} : Responsible(u)
      BY <2>2 DEF HostInv
    <3>2. Responsible(u)'
      BY <1>1, <2>2, <3>1 DEF Responsible, Searches
    <3> QED
      BY <3>2
  <2> QED
    BY <2>1, <2>2
<1> QED
  BY <1>2, <1>3, <1>4 DEF HostInv

\* The states a thread gets to by an exception, and by reading the host.
LEMMA RaiseTask ==
  ASSUME NEW t \in Threads, task[t] \in Task, NEW find \in Seq(Frame),
         Raise(t, find)
  PROVE  \E c \in Task :
           /\ GoTask(t, c)
           /\ \/ c.pc = "idle" /\ find = <<>>
              \/ c.pc = "next" /\ c.find = find /\ find # <<>>
<1>1. CASE find = <<>>
  BY <1>1, IdleType DEF Raise
<1>2. CASE find # <<>>
  <2> DEFINE c == [task[t] EXCEPT !.pc = "next", !.pair = NoMember,
                                  !.find = find]
  <2>1. c \in Task /\ c.pc = "next" /\ c.find = find
    BY DEF Task
  <2>2. GoTask(t, c)
    BY <1>2 DEF Raise
  <2> HIDE DEF c
  <2> QED
    BY <1>2, <2>1, <2>2
<1> QED
  BY <1>1, <1>2

LEMMA HostRead ==
  ASSUME NEW t \in Threads, conn \in Conns, NEW c \in Task, ReadHost(t, c)
  PROVE  \E d \in Task :
           /\ GoTask(t, d)
           /\ \/ d.pc = "get" /\ d.pair = conn.host /\ d.find = c.find
              \/ d.pc = "next" /\ d.find # <<>> /\ conn.host = NoMember
<1>1. CASE GoTask(t, [c EXCEPT !.pc = "get", !.pair = conn.host])
  <2> DEFINE d == [c EXCEPT !.pc = "get", !.pair = conn.host]
  <2>1. d \in Task /\ d.pc = "get" /\ d.pair = conn.host /\ d.find = c.find
    BY DEF Task, Conns
  <2> HIDE DEF d
  <2>2. GoTask(t, d)
    BY <1>1 DEF d
  <2> QED
    BY <2>1, <2>2
<1>2. CASE conn.host = NoMember
  <2> DEFINE frame == [first |-> conn.nodes, todo |-> conn.nodes,
                       second |-> FALSE, node |-> NoMember]
             find == <<frame>> \o c.find
             d == [c EXCEPT !.pc = "next", !.find = find]
  <2>1. frame \in Frame /\ c.find \in Seq(Frame)
    BY DEF Frame, Conns, Task
  <2> HIDE DEF frame
  <2>2. find \in Seq(Frame) /\ find # <<>>
    BY <2>1
  <2> HIDE DEF find
  <2>3. d \in Task /\ d.pc = "next" /\ d.find = find
    BY <2>2 DEF Task
  <2>4. GoTask(t, d) \/ GoTask(t, [c EXCEPT !.pc = "get", !.pair = conn.host])
    BY DEF ReadHost, d, find, frame
  <2> HIDE DEF d
  <2> QED
    BY <1>1, <1>2, <2>2, <2>3, <2>4
<1> QED
  BY <1>1, <1>2 DEF ReadHost

\* After DropConnection no host is left, and every socket is closed.
LEMMA HostDropped ==
  ASSUME HostInv, DropConnection
  PROVE  /\ conn' \in Conns /\ conn'.host = NoMember
         /\ sock' \in [Threads -> Socket]
         /\ \A t \in Threads : sock'[t] = Closed
<1>1. conn \in Conns
  BY DEF HostInv, DiscoveryTypeOK, Conns
<1>2. conn' = [conn EXCEPT !.host = NoMember]
      /\ sock' = [t \in Threads |-> Closed]
  BY DEF DropConnection
<1>3. conn' \in Conns /\ conn'.host = NoMember
  BY <1>1, <1>2 DEF Conns
<1> QED
  BY <1>2, <1>3, ClosedType

LEMMA InnermostFrame ==
  ASSUME NEW find \in Seq(Frame), find # <<>>, NEW f \in Frame
  PROVE  [find EXCEPT ![1] = f] \in Seq(Frame) /\ [find EXCEPT ![1] = f] # <<>>
OBVIOUS

\* A thread that goes on to c after DropConnection.
LEMMA DropsAndGoesOn ==
  ASSUME HostInv, NEW t \in Threads, DropConnection, UNCHANGED replset,
         NEW c \in Task, GoTask(t, c),
         c.pc \in {"idle", "point"} \/ c.pc = "next",
         c.pc # "idle" => c.find # <<>>
  PROVE  HostInv'
<1>1. /\ conn' \in Conns /\ conn'.host = NoMember
      /\ sock' \in [Threads -> Socket]
      /\ \A u \in Threads : sock'[u] = Closed
  BY HostDropped
<1>2. replset' \in ReplSets
  BY OfTask
<1> QED
  BY <1>1, <1>2, ClosedType, TaskGoesOn

\* Beginning an operation, and __socket of __try_node.
LEMMA ReadsHost ==
  ASSUME HostInv, NEW t \in Threads,
         SocketToTry(t) \/ \E op \in {"unsafe", "reply"} : BeginOperation(t, op)
  PROVE  HostInv'
<1>1. /\ UNCHANGED <<conn, sock, replset>>
      /\ conn \in Conns /\ replset \in ReplSets /\ sock \in [Threads -> Socket]
      /\ task[t] \in Task /\ TaskOK(t) /\ task[t].pc \in {"idle", "socket"}
  BY OfTask DEF SocketToTry, BeginOperation, HostInv, DiscoveryTypeOK
<1>2. ~sock[t].unread
  BY <1>1 DEF TaskOK
<1> DEFINE From(c) == /\ ReadHost(t, c)
                      /\ task[t].pc = "socket" => c = task[t]
                      /\ task[t].pc # "socket" => c.find = <<>>
<1>3. PICK c \in Task : From(c)
  <2>1. CASE SocketToTry(t)
    BY <1>1, <2>1 DEF SocketToTry
  <2>2. CASE \E op \in {"unsafe", "reply"} : BeginOperation(t, op)
    <3>1. PICK op \in {"unsafe", "reply"} : BeginOperation(t, op)
      BY <2>2
    <3> DEFINE d == DoingTask("socket", op)
    <3>2. d \in Task /\ d.find = <<>>
      BY DEF DoingTask, Task
    <3>3. ReadHost(t, d) /\ task[t].pc = "idle"
      BY <3>1 DEF BeginOperation
    <3> HIDE DEF d
    <3> QED
      BY <3>2, <3>3
  <2> QED
    BY <2>1, <2>2
<1>4. PICK d \in Task :
        /\ GoTask(t, d)
        /\ \/ d.pc = "get" /\ d.pair = conn.host /\ d.find = c.find
           \/ d.pc = "next" /\ d.find # <<>> /\ conn.host = NoMember
  BY <1>1, <1>3, HostRead
<1>5. ASSUME d.pc = "get", d.pair = conn.host, d.find = c.find, Responsible(t)
      PROVE  Responsible(t)'
  <2>1. task'[t] = d
    BY <1>4 DEF GoTask, HostInv, DiscoveryTypeOK
  <2>2. task[t].pc = "socket" /\ sock[t] = Closed /\ task[t].find # <<>>
    BY <1>1, <1>5 DEF Responsible, Searches
  <2> QED
    BY <1>1, <1>3, <1>5, <2>1, <2>2 DEF Responsible, Searches
<1>6. \/ conn'.host = NoMember \/ conn'.checked \/ Responsible(t)'
      \/ ~Responsible(t)
  BY <1>1, <1>4, <1>5
<1> QED
  BY <1>1, <1>2, <1>4, <1>6, TaskGoesOn

\* get_socket, to the host that was read or with the socket of the request.
LEMMA GetsSocket ==
  ASSUME HostInv, NEW t \in Threads, SocketToHost(t)
  PROVE  HostInv'
<1>1. /\ UNCHANGED <<conn, replset>> /\ UseSocket(t) /\ task[t].pc = "get"
      /\ conn \in Conns /\ replset \in ReplSets /\ sock \in [Threads -> Socket]
      /\ task[t] \in Task /\ TaskOK(t)
  BY OfTask DEF SocketToHost, HostInv, DiscoveryTypeOK
<1> DEFINE c == [task[t] EXCEPT
                   !.pc = IF task[t].find = <<>> THEN "send" ELSE "ismaster",
                   !.pair = NoMember]
<1>2. /\ c \in Task /\ c.find = task[t].find
      /\ c.pc = IF task[t].find = <<>> THEN "send" ELSE "ismaster"
  BY <1>1 DEF Task
<1>3. GoTask(t, c)
  BY <1>1 DEF UseSocket
<1> HIDE DEF c
<1>4. task'[t] = c
  BY <1>3 DEF GoTask, HostInv, DiscoveryTypeOK
<1>5. CASE sock[t] # Closed /\ UNCHANGED sock
  <2>1. ~Responsible(t) /\ ~sock[t].unread
    BY <1>1, <1>5 DEF Responsible, TaskOK
  <2> QED
    BY <1>1, <1>2, <1>3, <1>5, <2>1, TaskGoesOn
<1>6. CASE sock' = [sock EXCEPT ![t] =
             [node |-> task[t].pair, alive |-> TRUE, unread |-> FALSE]]
  <2> DEFINE s == [node |-> task[t].pair, alive |-> TRUE, unread |-> FALSE]
  <2>1. s \in Socket /\ s.node = task[t].pair /\ ~s.unread
    BY <1>1 DEF Socket, Task
  <2>2. sock' = [sock EXCEPT ![t] = s]
    BY <1>6
  <2> HIDE DEF s
  <2>3. /\ sock' \in [Threads -> Socket] /\ sock'[t] = s
        /\ \A u \in Threads \ {t} : sock'[u] = sock[u]
    BY <1>1, <2>1, <2>2
  <2>4. Responsible(t) => Responsible(t)'
    BY <1>1, <1>2, <1>4, <2>1, <2>3 DEF Responsible, Searches
  <2> QED
    BY <1>1, <1>2, <1>3, <2>1, <2>3, <2>4, TaskGoesOn
<1> QED
  BY <1>5, <1>6 DEF SocketToHost

\* An exception in a step that leaves the Connection alone, or drops it.
LEMMA Raises ==
  ASSUME HostInv, NEW t \in Threads, NEW find \in Seq(Frame), Raise(t, find),
         UNCHANGED replset,
         \/ DropConnection
         \/ /\ conn' \in Conns /\ conn'.host = conn.host
            /\ conn'.checked = conn.checked
            /\ sock' \in [Threads -> Socket] /\ ~sock'[t].unread
            /\ \A u \in Threads \ {t} : sock'[u] = sock[u]
            /\ Responsible(t) => find # <<>>
  PROVE  HostInv'
<1>1. task[t] \in Task /\ replset' \in ReplSets
  BY OfTask
<1>2. PICK c \in Task : /\ GoTask(t, c)
                        /\ \/ c.pc = "idle" /\ find = <<>>
                           \/ c.pc = "next" /\ c.find = find /\ find # <<>>
  BY <1>1, RaiseTask
<1>3. task'[t] = c
  BY <1>2 DEF GoTask, HostInv, DiscoveryTypeOK
<1>4. CASE DropConnection
  BY <1>2, <1>4, DropsAndGoesOn
<1>5. CASE /\ conn' \in Conns /\ conn'.host = conn.host
           /\ conn'.checked = conn.checked
           /\ sock' \in [Threads -> Socket] /\ ~sock'[t].unread
           /\ \A u \in Threads \ {t} : sock'[u] = sock[u]
           /\ Responsible(t) => find # <<>>
  <2>1. find # <<>> => Responsible(t)'
    BY <1>2, <1>3 DEF Responsible, Searches
  <2> QED
    BY <1>1, <1>2, <1>5, <2>1, TaskGoesOn
<1> QED
  BY <1>4, <1>5

LEMMA GivesNodeUp ==
  ASSUME HostInv, NEW t \in Threads,
         NodeUnreachable(t) \/ SendFails(t) \/ ReceiveFails(t)
  PROVE  HostInv'
<1>1. task[t].find \in Seq(Frame) /\ <<>> \in Seq(Frame)
  BY OfTask
<1> QED
  BY <1>1, Raises DEF NodeUnreachable, SendFails, ReceiveFails

LEMMA TriesNext ==
  ASSUME HostInv, NEW t \in Threads, NextCandidate(t)
  PROVE  HostInv'
<1> DEFINE find == task[t].find
           frame == Head(find)
<1>1. /\ task[t].pc = "next" /\ UNCHANGED replset
      /\ conn \in Conns /\ replset \in ReplSets /\ sock \in [Threads -> Socket]
      /\ task[t] \in Task /\ TaskOK(t) /\ find \in Seq(Frame)
  BY OfTask DEF NextCandidate, HostInv, DiscoveryTypeOK
<1>2. find # <<>> /\ ~sock[t].unread
  BY <1>1 DEF TaskOK, Searches
<1>3. frame \in Frame /\ Tail(find) \in Seq(Frame)
  BY <1>1, <1>2
<1>4. ASSUME NEW f \in Frame, NEW pc \in {"next", "drop"},
             UNCHANGED <<conn, sock>>,
             GoTask(t, [task[t] EXCEPT !.pc = pc, !.find[1] = f])
      PROVE  HostInv'
  <2> DEFINE fs == [find EXCEPT ![1] = f]
             c == [task[t] EXCEPT !.pc = pc, !.find[1] = f]
  <2>1. fs \in Seq(Frame) /\ fs # <<>>
    BY <1>1, <1>2
  <2>2. c = [task[t] EXCEPT !.pc = pc, !.find = fs]
    BY <1>1 DEF Task
  <2> HIDE DEF fs
  <2>3. c \in Task /\ c.pc = pc /\ c.find = fs
    BY <1>1, <2>1, <2>2 DEF Task
  <2> HIDE DEF c
  <2>4. GoTask(t, c)
    BY <1>4 DEF c
  <2>5. task'[t] = c
    BY <2>4 DEF GoTask, HostInv, DiscoveryTypeOK
  <2>6. Responsible(t)'
    BY <2>1, <2>3, <2>5 DEF Responsible, Searches
  <2> QED
    BY <1>1, <1>2, <1>4, <2>1, <2>3, <2>4, <2>6, TaskGoesOn
<1>5. ASSUME NEW x \in frame.todo, UNCHANGED <<conn, sock>>,
             GoTask(t, [task[t] EXCEPT
                         !.pc = "drop",
                         !.find[1] = [frame EXCEPT !.todo = @ \ {x},
                                                   !.node = x]])
      PROVE  HostInv'
  <2>1. [frame EXCEPT !.todo = @ \ {x}, !.node = x] \in Frame
    BY <1>3, <1>5 DEF Frame
  <2> QED
    BY <1>4, <1>5, <2>1
<1>6. ASSUME UNCHANGED <<conn, sock>>,
             GoTask(t, [task[t] EXCEPT
                         !.find[1] = [frame EXCEPT
                                        !.second = TRUE,
                                        !.todo = conn.nodes \ frame.first]])
      PROVE  HostInv'
  <2> DEFINE f == [frame EXCEPT !.second = TRUE,
                                !.todo = conn.nodes \ frame.first]
  <2>1. f \in Frame
    BY <1>1, <1>3 DEF Frame, Conns
  <2>2. GoTask(t, [task[t] EXCEPT !.find[1] = f])
    BY <1>6
  <2> HIDE DEF f
  <2>3. [task[t] EXCEPT !.pc = "next", !.find[1] = f]
          = [task[t] EXCEPT !.find[1] = f]
    BY <1>1 DEF Task
  <2> QED
    BY <1>4, <1>6, <2>1, <2>2, <2>3
<1>7. CASE DropConnection /\ Raise(t, Tail(find))
  BY <1>1, <1>3, <1>7, Raises
<1> HIDE DEF frame
<1>8. \/ \E x \in frame.todo :
           /\ GoTask(t, [task[t] EXCEPT
                          !.pc = "drop",
                          !.find[1] = [frame EXCEPT !.todo = @ \ {x},
                                                    !.node = x]])
           /\ UNCHANGED <<conn, sock>>
      \/ /\ GoTask(t, [task[t] EXCEPT
                        !.find[1] = [frame EXCEPT
                                       !.second = TRUE,
                                       !.todo = conn.nodes \ frame.first]])
         /\ UNCHANGED <<conn, sock>>
      \/ DropConnection /\ Raise(t, Tail(find))
  BY DEF NextCandidate, frame
<1> QED
  BY <1>5, <1>6, <1>7, <1>8

\* The candidate is pointed to, after the sockets have been closed.
LEMMA PointsToNode ==
  ASSUME HostInv, NEW t \in Threads, DropHost(t) \/ PointToNode(t)
  PROVE  HostInv'
<1> DEFINE find == task[t].find
<1>1. /\ task[t].pc \in {"drop", "point"} /\ UNCHANGED replset
      /\ conn \in Conns /\ replset \in ReplSets /\ sock \in [Threads -> Socket]
      /\ task[t] \in Task /\ TaskOK(t) /\ find \in Seq(Frame)
  BY OfTask DEF DropHost, PointToNode, HostInv, DiscoveryTypeOK
<1>2. find # <<>>
  BY <1>1 DEF TaskOK, Searches
<1>3. ASSUME NEW pc \in {"point", "socket"}, GotoTask(t, pc)
      PROVE  \E c \in Task : GoTask(t, c) /\ c.pc = pc /\ c.find = find
                             /\ task'[t] = c
  <2> DEFINE c == [task[t] EXCEPT !.pc = pc]
  <2>1. c \in Task /\ c.pc = pc /\ c.find = find
    BY <1>1 DEF Task
  <2>2. GoTask(t, c)
    BY <1>3 DEF GotoTask
  <2> HIDE DEF c
  <2>3. task'[t] = c
    BY <2>2 DEF GoTask, HostInv, DiscoveryTypeOK
  <2> QED
    BY <2>1, <2>2, <2>3
<1>4. CASE DropHost(t)
  <2>1. PICK c \in Task : GoTask(t, c) /\ c.pc = "point" /\ c.find = find
    BY <1>3, <1>4 DEF DropHost
  <2>2. DropConnection
    BY <1>4 DEF DropHost
  <2> QED
    BY <1>1, <1>2, <2>1, <2>2, DropsAndGoesOn
<1>5. CASE PointToNode(t)
  <2>1. /\ conn' = [conn EXCEPT !.host = TriedNode(find), !.checked = FALSE]
        /\ UNCHANGED sock /\ GotoTask(t, "socket") /\ task[t].pc = "point"
    BY <1>5 DEF PointToNode
  <2>2. PICK c \in Task : /\ GoTask(t, c) /\ c.pc = "socket"
                          /\ c.find = find /\ task'[t] = c
    BY <1>3, <2>1
  <2>3. Head(find) \in Frame
    BY <1>1, <1>2
  <2>4. TriedNode(find) \in Members \union {NoMember}
    BY <2>3 DEF TriedNode, Frame
  <2>5. conn' \in Conns
    BY <1>1, <2>1, <2>4 DEF Conns
  <2>6. sock[t] = Closed
    BY <1>1, <2>1 DEF TaskOK
  <2>7. Responsible(t)'
    BY <1>2, <2>1, <2>2, <2>6 DEF Responsible, Searches
  <2> QED
    BY <1>1, <1>2, <2>1, <2>2, <2>5, <2>6, <2>7, ClosedType, TaskGoesOn
<1> QED
  BY <1>4, <1>5

\* The answer to isMaster: the thread was responsible only if it asked the
\* host of the Connection.
LEMMA AsksNode ==
  ASSUME HostInv, NEW t \in Threads, IsMaster(t)
  PROVE  HostInv'
<1> DEFINE find == task[t].find
           peer == sock[t].node
<1>1. /\ task[t].pc = "ismaster" /\ UNCHANGED <<sock, replset>>
      /\ conn \in Conns /\ replset \in ReplSets /\ sock \in [Threads -> Socket]
      /\ task[t] \in Task /\ TaskOK(t) /\ find \in Seq(Frame)
  BY OfTask DEF IsMaster, HostInv, DiscoveryTypeOK
<1>2. find # <<>> /\ ~sock[t].unread
  BY <1>1 DEF TaskOK, Searches
<1>3. Head(find) \in Frame /\ Tail(find) \in Seq(Frame)
  BY <1>1, <1>2
<1>4. CASE /\ conn' = [conn EXCEPT !.nodes = Members,
                                   !.checked = @ \/ conn.host = peer]
           /\ GoTask(t, [task[t] EXCEPT !.pc = "get", !.pair = TriedNode(find),
                                        !.find = Tail(find)])
  <2> DEFINE c == [task[t] EXCEPT !.pc = "get", !.pair = TriedNode(find),
                                  !.find = Tail(find)]
  <2>1. TriedNode(find) \in Members \union {NoMember}
    BY <1>3 DEF TriedNode, Frame
  <2>2. c \in Task /\ c.pc = "get"
    BY <1>1, <1>3, <2>1 DEF Task
  <2>3. GoTask(t, c)
    BY <1>4
  <2> HIDE DEF c
  <2>4. /\ conn' \in Conns /\ conn'.host = conn.host
        /\ conn'.checked = (conn.checked \/ conn.host = peer)
    BY <1>1, <1>4 DEF Conns
  <2>5. conn'.checked \/ (~Responsible(t) /\ conn'.checked = conn.checked)
    BY <1>1, <2>4 DEF Responsible, Conns
  <2> QED
    BY <1>1, <1>2, <2>2, <2>3, <2>4, <2>5, TaskGoesOn
<1>5. CASE /\ conn' = [conn EXCEPT !.nodes = Members]
           /\ GoTask(t, [task[t] EXCEPT !.pc = "drop",
                                        !.find[1].node = replset.primary])
  <2> DEFINE f == [find[1] EXCEPT !.node = replset.primary]
             fs == [find EXCEPT ![1] = f]
             c == [task[t] EXCEPT !.pc = "drop", !.find = fs]
  <2>0. find[1] \in Frame
    BY <1>1, <1>2
  <2>1. f \in Frame
    BY <1>1, <2>0 DEF Frame, ReplSets
  <2>2. GoTask(t, c)
    <3>1. c = [task[t] EXCEPT !.pc = "drop", !.find[1].node = replset.primary]
      BY <1>1 DEF Task
    <3> QED
      BY <1>5, <3>1
  <2> HIDE DEF f
  <2>3. fs \in Seq(Frame) /\ fs # <<>>
    BY <1>1, <1>2, <2>1, InnermostFrame
  <2> HIDE DEF fs
  <2>4. c \in Task /\ c.pc = "drop" /\ c.find = fs
    BY <1>1, <2>3 DEF Task
  <2> HIDE DEF c
  <2>5. task'[t] = c
    BY <2>2 DEF GoTask, HostInv, DiscoveryTypeOK
  <2>6. Responsible(t)'
    BY <2>3, <2>4, <2>5 DEF Responsible, Searches
  <2>7. conn' \in Conns
    BY <1>1, <1>5 DEF Conns
  <2> QED
    BY <1>1, <1>2, <2>2, <2>3, <2>4, <2>6, <2>7, TaskGoesOn
<1>6. CASE conn' = [conn EXCEPT !.nodes = Members] /\ Raise(t, find)
  <2>1. /\ conn' \in Conns /\ conn'.host = conn.host
        /\ conn'.checked = conn.checked
    BY <1>1, <1>6 DEF Conns
  <2> QED
    BY <1>1, <1>2, <1>6, <2>1, Raises
<1> QED
  BY <1>4, <1>5, <1>6 DEF IsMaster

LEMMA IsNotAnswered ==
  ASSUME HostInv, NEW t \in Threads, IsMasterFails(t)
  PROVE  HostInv'
<1>1. /\ UNCHANGED <<conn, replset>> /\ Raise(t, task[t].find)
      /\ conn \in Conns /\ sock \in [Threads -> Socket]
      /\ TaskOK(t) /\ task[t].find \in Seq(Frame) /\ task[t].pc = "ismaster"
  BY OfTask DEF IsMasterFails, HostInv, DiscoveryTypeOK
<1>2. task[t].find # <<>> /\ ~sock[t].unread
  BY <1>1 DEF TaskOK, Searches
<1>3. UNCHANGED sock \/ sock' = [sock EXCEPT ![t] = Closed]
  BY DEF IsMasterFails
<1>4. /\ sock' \in [Threads -> Socket] /\ ~sock'[t].unread
      /\ \A u \in Threads \ {t} : sock'[u] = sock[u]
  BY <1>1, <1>2, <1>3, ClosedType
<1> QED
  BY <1>1, <1>2, <1>4, Raises

LEMMA SendsMessage ==
  ASSUME HostInv, NEW t \in Threads, SendMessage(t)
  PROVE  HostInv'
<1>1. /\ UNCHANGED <<conn, replset>> /\ task[t].pc = "send"
      /\ conn \in Conns /\ replset \in ReplSets /\ sock \in [Threads -> Socket]
      /\ task[t] \in Task /\ TaskOK(t)
  BY OfTask DEF SendMessage, HostInv, DiscoveryTypeOK
<1>2. ~Responsible(t) /\ ~sock[t].unread
  BY <1>1 DEF Responsible, TaskOK
<1>3. CASE GoTask(t, DoingTask("idle", "none")) /\ UNCHANGED sock
  BY <1>1, <1>2, <1>3, IdleType, TaskGoesOn
<1>4. CASE GotoTask(t, "receive") /\ sock' = [sock EXCEPT ![t].unread = TRUE]
  <2> DEFINE c == [task[t] EXCEPT !.pc = "receive"]
             s == [sock[t] EXCEPT !.unread = TRUE]
  <2>1. c \in Task /\ c.pc = "receive" /\ s \in Socket
    BY <1>1 DEF Task, Socket
  <2>2. GoTask(t, c) /\ sock' = [sock EXCEPT ![t] = s]
    BY <1>4 DEF GotoTask
  <2> HIDE DEF c, s
  <2>3. /\ sock' \in [Threads -> Socket]
        /\ \A u \in Threads \ {t} : sock'[u] = sock[u]
    BY <1>1, <2>1, <2>2
  <2> QED
    BY <1>1, <1>2, <2>1, <2>2, <2>3, TaskGoesOn
<1> QED
  BY <1>3, <1>4 DEF SendMessage

LEMMA ReceivesReply ==
  ASSUME HostInv, NEW t \in Threads, Receive(t)
  PROVE  HostInv'
<1>1. /\ UNCHANGED replset /\ task[t].pc = "receive" /\ Raise(t, <<>>)
      /\ conn \in Conns /\ sock \in [Threads -> Socket] /\ <<>> \in Seq(Frame)
  BY OfTask DEF Receive, HostInv, DiscoveryTypeOK
<1>2. ~Responsible(t)
  BY <1>1 DEF Responsible
<1>3. CASE DropConnection
  BY <1>1, <1>3, Raises
<1>4. CASE sock' = [sock EXCEPT ![t].unread = FALSE] /\ UNCHANGED conn
  <2> DEFINE s == [sock[t] EXCEPT !.unread = FALSE]
  <2>1. s \in Socket /\ ~s.unread
    BY <1>1 DEF Socket
  <2>2. sock' = [sock EXCEPT ![t] = s]
    BY <1>4
  <2> HIDE DEF s
  <2>3. /\ sock' \in [Threads -> Socket] /\ ~sock'[t].unread
        /\ \A u \in Threads \ {t} : sock'[u] = sock[u]
    BY <1>1, <2>1, <2>2
  <2> QED
    BY <1>1, <1>2, <1>4, <2>3, Raises
<1> QED
  BY <1>3, <1>4 DEF Receive

\* What the replica set does closes sockets at their other end only.
LEMMA ReplicaSetMoves ==
  ASSUME HostInv,
         \E n \in Members : Fault(n) \/ ElectPrimary(n) \/ Recover(n)
  PROVE  HostInv'
<1>1. PICK n \in Members : Fault(n) \/ ElectPrimary(n) \/ Recover(n)
  OBVIOUS
<1>2. UNCHANGED <<conn, task>> /\ replset \in ReplSets
      /\ sock \in [Threads -> Socket]
  BY <1>1 DEF Fault, ElectPrimary, Recover, HostInv, DiscoveryTypeOK, ReplSets
<1>3. replset' \in ReplSets
  <2>1. CASE Fault(n)
    <3>1. PICK up \in {replset.up, replset.up \ {n}} :
            replset' = [up |-> up, faults |-> replset.faults + 1,
                        primary |-> IF n = replset.primary THEN NoMember
                                    ELSE replset.primary]
      BY <2>1 DEF Fault
    <3>2. replset.faults + 1 \in 0..MaxFaults
      BY <1>2, <2>1, DiscoveryAssumption DEF Fault, ReplSets
    <3> QED
      BY <1>2, <3>1, <3>2 DEF ReplSets
  <2>2. CASE ElectPrimary(n) \/ Recover(n)
    BY <1>2, <2>2 DEF ElectPrimary, Recover, ReplSets
  <2> QED
    BY <1>1, <2>1, <2>2
<1>4. /\ sock' \in [Threads -> Socket]
      /\ \A t \in Threads : /\ sock'[t].unread = sock[t].unread
                            /\ sock'[t].node = sock[t].node
                            /\ sock[t] = Closed => sock'[t] = Closed
  <2>1. CASE Fault(n)
    <3>1. n # NoMember
      BY DriverAssumption
    <3>2. ASSUME NEW t \in Threads
          PROVE  /\ [sock[t] EXCEPT !.alive = FALSE] \in Socket
                 /\ [sock[t] EXCEPT !.alive = FALSE].unread = sock[t].unread
                 /\ [sock[t] EXCEPT !.alive = FALSE].node = sock[t].node
      BY <1>2 DEF Socket
    <3>3. Closed.node # n
      BY <3>1 DEF Closed
    <3>4. sock' = [t \in Threads |-> IF sock[t].node = n
                                     THEN [sock[t] EXCEPT !.alive = FALSE]
                                     ELSE sock[t]]
      BY <2>1 DEF Fault, PeersOf
    <3>5. sock' \in [Threads -> Socket]
      BY <1>2, <3>2, <3>4
    <3>6. ASSUME NEW t \in Threads
          PROVE  /\ sock'[t].unread = sock[t].unread
                 /\ sock'[t].node = sock[t].node
                 /\ sock[t] = Closed => sock'[t] = Closed
      <4>1. CASE sock[t].node = n
        BY <3>2, <3>3, <3>4, <4>1
      <4>2. CASE sock[t].node # n
        BY <3>4, <4>2
      <4> QED
        BY <4>1, <4>2
    <3> QED
      BY <3>5, <3>6
  <2>2. CASE ElectPrimary(n) \/ Recover(n)
    BY <1>2, <2>2 DEF ElectPrimary, Recover
  <2> QED
    BY <1>1, <2>1, <2>2
<1>5. DiscoveryTypeOK'
  BY <1>2, <1>3, <1>4 DEF HostInv, DiscoveryTypeOK, ReplSets
<1>6. \A t \in Threads : TaskOK(t)'
  BY <1>2, <1>4 DEF HostInv, TaskOK, Searches
<1>7. \A t \in Threads : Responsible(t) => Responsible(t)'
  BY <1>2, <1>4 DEF Responsible, Searches
<1> QED
  BY <1>2, <1>5, <1>6, <1>7 DEF HostInv

THEOREM HostInvariant == DiscoverySpec => []HostInv
<1>1. DiscoveryInit => HostInv
  <2>1. SUFFICES ASSUME DiscoveryInit PROVE HostInv
    OBVIOUS
  <2>2. PICK p \in Members :
          /\ conn = [host |-> p, nodes |-> Members, checked |-> TRUE]
          /\ sock = [t \in Threads |-> Closed]
          /\ task = [t \in Threads |-> DoingTask("idle", "none")]
          /\ replset = [up |-> Members, primary |-> p, faults |-> 0]
    BY <2>1 DEF DiscoveryInit
  <2>3. 0 \in 0..MaxFaults
    BY DiscoveryAssumption
  <2>4. DiscoveryTypeOK
    BY <2>2, <2>3, ClosedType, IdleType DEF DiscoveryTypeOK
  <2>5. \A t \in Threads : TaskOK(t)
    BY <2>2, ClosedType, IdleType DEF TaskOK
  <2> QED
    BY <2>2, <2>4, <2>5 DEF HostInv
<1>2. HostInv /\ [DiscoveryNext]_discoveryVars => HostInv'
  <2>1. SUFFICES ASSUME HostInv, [DiscoveryNext]_discoveryVars
                 PROVE  HostInv'
    OBVIOUS
  <2>2. CASE UNCHANGED discoveryVars
    BY <2>1, <2>2 DEF discoveryVars, HostInv, DiscoveryTypeOK, TaskOK,
                      Responsible, Searches
  <2>3. ASSUME NEW t \in Threads,
               DiscoveryStep(t)
                 \/ \E op \in {"unsafe", "reply"} : BeginOperation(t, op)
        PROVE  HostInv'
    BY <2>1, <2>3, ReadsHost, GetsSocket, GivesNodeUp, TriesNext, PointsToNode,
       AsksNode, IsNotAnswered, SendsMessage, ReceivesReply DEF DiscoveryStep
  <2> QED
    BY <2>1, <2>2, <2>3, ReplicaSetMoves DEF DiscoveryNext
<1> QED
  BY <1>1, <1>2, PTL DEF DiscoverySpec

\* The variables of the Connection keep their types.
THEOREM DiscoveryTypeCorrect == DiscoverySpec => []DiscoveryTypeOK
<1>1. HostInv => DiscoveryTypeOK
  BY DEF HostInv
<1> QED
  BY <1>1, HostInvariant, PTL

\* When no thread looks for the primary, the host of the Connection is unknown
\* or has answered that it is the primary since the Connection was pointed to
\* it, whatever searches have run at the same time (connection.py:
\* __find_node, __try_node).
THEOREM HostIsCheckedCorrect == DiscoverySpec => []HostIsChecked
<1>1. HostInv => HostIsChecked
  BY DEF HostInv, HostIsChecked, Responsible
<1> QED
  BY <1>1, HostInvariant, PTL

\* No message is sent over a socket on which the reply to an earlier one is
\* still to come (connection.py: _send_message_with_response).
THEOREM NoStaleReplyCorrect == DiscoverySpec => []NoStaleReply
<1>1. HostInv => NoStaleReply
  BY DEF HostInv, NoStaleReply, TaskOK
<1> QED
  BY <1>1, HostInvariant, PTL

----------------------------------------------------------------------------
(* The nonce of a login. *)

LoginOps == {"authenticate", "copy"}

\* The sockets a thread has: that of its request, and the one it uses.
Holds(t) ==
  ({request[t]} \union (IF auth[t].pc \in {"check", "command"}
                        THEN {auth[t].sock} ELSE {})) \intersect Sockets

\* A socket in use is not in the pool, nor does another thread have it.
SocketsApart ==
  \A t \in Threads : \A k \in Holds(t) :
    ~login[k].idle /\ \A u \in Threads \ {t} : k \notin Holds(u)

\* __check_auth would do nothing to a socket with these logins.
InLine(set) ==
  /\ set \subseteq cached
  /\ Admin \in set \/ (Admin \notin cached /\ cached \subseteq set)

\* The operation has taken its socket from the pool.
Started(a) ==
  a.pc \in {"check", "command"} \/ (a.pc = "take" /\ a.stage = 2)

\* Unless the cache or the pool has changed, the socket of the request is
\* neither connected again nor authenticated again between the nonce and the
\* key.
Steady(t) ==
  LET a == auth[t]
      l == login[request[t]]
  IN  /\ a.pc = "check" => a.names = cached
      /\ Started(a) => ~l.stale
      /\ Started(a) /\ (a.pc = "command" \/ a.stage = 2) =>
           cached = {} \/ InLine(l.authset)
      /\ Started(a) /\ a.stage = 2 /\ a.op = "authenticate" => l.nonce = {t}

\* A login is in a request, which keeps the socket of its nonce.
LoginOK(t) ==
  LET a == auth[t]
  IN  /\ a.pc = "idle" => a.op = "none"
      /\ a.pc \in {"check", "command"} => a.sock \in Sockets
      /\ a.mine \/ a.stage = 2 => a.op \in LoginOps
      /\ a.op \in LoginOps =>
           /\ request[t] # "none"
           /\ a.pc \in {"check", "command", "store"} =>
                request[t] = a.sock /\ a.sock \in Sockets
           /\ a.stage = 2 => request[t] = a.from /\ a.from \in Sockets
           /\ ~a.raced => Steady(t)

AuthInv == AuthTypeOK /\ SocketsApart /\ \A t \in Threads : LoginOK(t)

Requests == {"none", "open"} \union Sockets

\* What AuthInv says of one thread.
LEMMA OfLogin ==
  ASSUME AuthInv, NEW t \in Threads
  PROVE  /\ cached \subseteq Databases /\ login \in [Sockets -> Login]
         /\ request \in [Threads -> Requests] /\ auth \in [Threads -> AuthTask]
         /\ auto \in BOOLEAN /\ auth[t] \in AuthTask /\ request[t] \in Requests
         /\ LoginOK(t) /\ Holds(t) \subseteq Sockets
         /\ \A k \in Holds(t) : ~login[k].idle
BY DEF AuthInv, AuthTypeOK, SocketsApart, Requests, Holds

\* What the others do to the cache or to the pool is marked in the logins that
\* are under way.
Marked(a) == [a EXCEPT !.raced = a.op \in LoginOps]

LEMMA MarkedType ==
  ASSUME NEW a \in AuthTask
  PROVE  /\ Marked(a) \in AuthTask
         /\ Marked(a).pc = a.pc /\ Marked(a).op = a.op
         /\ Marked(a).stage = a.stage /\ Marked(a).sock = a.sock
         /\ Marked(a).mine = a.mine /\ Marked(a).from = a.from
         /\ a.op \in LoginOps => Marked(a).raced
<1> DEFINE b == a.op \in LoginOps
<1>1. b \in BOOLEAN
  OBVIOUS
<1>2. Marked(a) = [a EXCEPT !.raced = b]
  BY DEF Marked
<1> HIDE DEF b
<1>3. /\ Marked(a) \in AuthTask
      /\ Marked(a).pc = a.pc /\ Marked(a).op = a.op
      /\ Marked(a).stage = a.stage /\ Marked(a).sock = a.sock
      /\ Marked(a).mine = a.mine /\ Marked(a).from = a.from
      /\ Marked(a).raced = b
  BY <1>1, <1>2 DEF AuthTask
<1> QED
  BY <1>3 DEF b

\* Others are as they were, or marked.
Others(t, c) ==
  \/ GoAuth(t, c) /\ UNCHANGED cached
  \/ Race(t, c)

LEMMA OthersKept ==
  ASSUME AuthInv, NEW t \in Threads, NEW c \in AuthTask, Others(t, c)
  PROVE  /\ auth' \in [Threads -> AuthTask] /\ auth'[t] = c
         /\ \A u \in Threads \ {t} :
              /\ auth'[u].pc = auth[u].pc /\ auth'[u].sock = auth[u].sock
              /\ \/ auth'[u] = auth[u] /\ UNCHANGED cached
                 \/ auth'[u] = Marked(auth[u])
<1>1. auth \in [Threads -> AuthTask]
  BY DEF AuthInv, AuthTypeOK
<1>2. CASE GoAuth(t, c) /\ UNCHANGED cached
  BY <1>1, <1>2 DEF GoAuth
<1>3. CASE Race(t, c)
  <2>1. auth' = [u \in Threads |-> IF u = t THEN c ELSE Marked(auth[u])]
    BY <1>3 DEF Race, Marked, LoginOps
  <2> QED
    BY <1>1, <2>1, MarkedType
<1> QED
  BY <1>2, <1>3 DEF Others

\* A step of thread t leaves the sockets of the others alone.
LEMMA LoginGoesOn ==
  ASSUME AuthInv, NEW t \in Threads, NEW c \in AuthTask, Others(t, c),
         cached' \subseteq Databases, auto' \in BOOLEAN,
         login' \in [Sockets -> Login], request' \in [Threads -> Requests],
         \A u \in Threads \ {t} : request'[u] = request[u],
         \A k \in Sockets :
           k \notin Holds(t) /\ ~login[k].idle => login'[k] = login[k],
         \A k \in Holds(t)' :
           (k \in Holds(t) \/ login[k].idle) /\ ~login'[k].idle,
         LoginOK(t)'
  PROVE  AuthInv'
<1>1. /\ auth' \in [Threads -> AuthTask] /\ auth'[t] = c
      /\ \A u \in Threads \ {t} :
           /\ auth'[u].pc = auth[u].pc /\ auth'[u].sock = auth[u].sock
           /\ \/ auth'[u] = auth[u] /\ UNCHANGED cached
              \/ auth'[u] = Marked(auth[u])
  BY OthersKept
<1>2. AuthTypeOK'
  BY <1>1 DEF AuthTypeOK, Requests
<1>3. \A u \in Threads \ {t} : Holds(u)' = Holds(u)
  BY <1>1 DEF Holds
<1>4. \A u \in Threads \ {t} : \A k \in Holds(u) :
        k \in Sockets /\ login'[k] = login[k] /\ k \notin Holds(t)'
  BY DEF AuthInv, SocketsApart, Holds
<1>5. SocketsApart'
  <2>1. ASSUME NEW u \in Threads, NEW k \in Holds(u)', NEW v \in Threads \ {u}
        PROVE  ~login'[k].idle /\ k \notin Holds(v)'
    <3>1. CASE u = t
      BY <1>3, <1>4, <2>1, <3>1
    <3>2. CASE u # t
      BY <1>3, <1>4, <2>1, <3>2 DEF AuthInv, SocketsApart
    <3> QED
      BY <3>1, <3>2
  <2>2. ASSUME NEW u \in Threads, NEW k \in Holds(u)'
        PROVE  ~login'[k].idle
    BY <1>3, <1>4, <2>2 DEF AuthInv, SocketsApart
  <2> QED
    BY <2>1, <2>2 DEF SocketsApart
<1>6. ASSUME NEW u \in Threads \ {t}
      PROVE  LoginOK(u)'
  <2>1. /\ LoginOK(u) /\ request'[u] = request[u] /\ auth[u] \in AuthTask
        /\ request[u] \in Sockets => login'[request[u]] = login[request[u]]
    BY <1>4, OfLogin DEF Holds
  <2>2. CASE auth'[u] = auth[u] /\ UNCHANGED cached
    <3>1. ASSUME auth[u].op \in LoginOps, ~auth[u].raced
          PROVE  Steady(u)'
      <4>1. Steady(u)
        BY <2>1, <3>1 DEF LoginOK
      <4>2. Started(auth[u]) => request[u] \in Sockets
        BY <2>1, <3>1 DEF LoginOK, Started
      <4>3. Started(auth[u]) =>
              login'[request'[u]] = login[request[u]]
        BY <2>1, <4>2
      <4>4. Started(auth'[u]) = Started(auth[u])
        BY <2>2
      <4>5. \A set : InLine(set)' = InLine(set)
        BY <2>2 DEF InLine
      <4> QED
        BY <2>2, <4>1, <4>3, <4>4, <4>5 DEF Steady
    <3> QED
      BY <2>1, <2>2, <3>1 DEF LoginOK
  <2>3. CASE auth'[u] = Marked(auth[u])
    <3> DEFINE a == auth[u]
               b == auth'[u]
    <3>1. /\ b.pc = a.pc /\ b.op = a.op /\ b.stage = a.stage
          /\ b.sock = a.sock /\ b.mine = a.mine /\ b.from = a.from
          /\ b.op \in LoginOps => b.raced
      BY <2>1, <2>3, MarkedType
    <3> QED
      BY <2>1, <3>1 DEF LoginOK
  <2> QED
    BY <1>1, <2>2, <2>3
<1> QED
  BY <1>2, <1>5, <1>6 DEF AuthInv

\* The same logins of one socket, in another place.
LEMMA LoginFields ==
  ASSUME NEW l \in Login, NEW b \in BOOLEAN
  PROVE  /\ [l EXCEPT !.idle = b] \in Login
         /\ [l EXCEPT !.idle = b].idle = b
         /\ [l EXCEPT !.idle = b].stale = l.stale
         /\ [l EXCEPT !.idle = b].authset = l.authset
         /\ [l EXCEPT !.idle = b].nonce = l.nonce
BY DEF Login

LEMMA NewSocketType ==
  /\ NewSocket \in Login /\ NewSocket.idle /\ ~NewSocket.stale
BY DEF NewSocket, Login

LEMMA RestingType ==
  /\ Resting \in AuthTask /\ Resting.pc = "idle" /\ Resting.op = "none"
  /\ ~Resting.mine /\ Resting.stage = 1
BY AuthAssumption DEF Resting, AuthTask

\* What maybe_return_socket and end_request do to the socket and the request.
LEMMA PutBackType ==
  ASSUME NEW t \in Threads, NEW k \in Sockets, NEW l \in [Sockets -> Login],
         NEW ends \in BOOLEAN, PutBack(t, k, l, ends),
         request \in [Threads -> Requests]
  PROVE  /\ login' \in [Sockets -> Login] /\ request' \in [Threads -> Requests]
         /\ \A u \in Threads \ {t} : request'[u] = request[u]
         /\ request'[t] = IF ends THEN "none" ELSE request[t]
         /\ \A j \in Sockets \ {k} : login'[j] = l[j]
         /\ login'[k].idle <=> (request[t] # k \/ ends)
         /\ login'[k].stale = l[k].stale /\ login'[k].authset = l[k].authset
         /\ login'[k].nonce = l[k].nonce
<1> DEFINE b == request[t] # k \/ ends
           s == [l[k] EXCEPT !.idle = b]
<1>1. b \in BOOLEAN
  OBVIOUS
<1>2. login' = [l EXCEPT ![k] = s]
  BY DEF PutBack
<1>3. /\ request' \in [Threads -> Requests]
      /\ \A u \in Threads \ {t} : request'[u] = request[u]
      /\ request'[t] = IF ends THEN "none" ELSE request[t]
  BY DEF PutBack, Requests
<1> HIDE DEF b
<1>4. /\ s \in Login /\ s.idle = b /\ s.stale = l[k].stale
      /\ s.authset = l[k].authset /\ s.nonce = l[k].nonce
  BY <1>1, LoginFields
<1> HIDE DEF s
<1>5. /\ login' \in [Sockets -> Login] /\ login'[k] = s
      /\ \A j \in Sockets \ {k} : login'[j] = l[j]
  BY <1>2, <1>4
<1> QED
  BY <1>3, <1>4, <1>5 DEF b

\* A step of thread t that puts its socket back.
LEMMA PutsBack ==
  ASSUME AuthInv, NEW t \in Threads, NEW c \in AuthTask, Others(t, c),
         cached' \subseteq Databases, UNCHANGED auto,
         NEW k \in Holds(t), NEW l \in [Sockets -> Login],
         \A j \in Sockets \ {k} : l[j] = login[j],
         NEW ends \in BOOLEAN, PutBack(t, k, l, ends),
         c.pc \notin {"check", "command"}, LoginOK(t)'
  PROVE  AuthInv'
<1>1. /\ k \in Sockets /\ request \in [Threads -> Requests] /\ auto' \in BOOLEAN
      /\ \A j \in Holds(t) : j \in Sockets /\ ~login[j].idle
  BY OfLogin
<1>2. /\ login' \in [Sockets -> Login] /\ request' \in [Threads -> Requests]
      /\ \A u \in Threads \ {t} : request'[u] = request[u]
      /\ request'[t] = IF ends THEN "none" ELSE request[t]
      /\ \A j \in Sockets \ {k} : login'[j] = login[j]
      /\ login'[k].idle <=> (request[t] # k \/ ends)
  BY <1>1, PutBackType
<1>3. auth'[t] = c
  BY OthersKept
<1>4. ASSUME NEW j \in Holds(t)'
      PROVE  j \in Holds(t) /\ ~login'[j].idle
  <2>1. j \in Sockets /\ j = request'[t]
    BY <1>3 DEF Holds
  <2>2. ~ends /\ j = request[t]
    BY <1>2, <2>1, AuthAssumption
  <2>3. j \in Holds(t)
    BY <2>1, <2>2 DEF Holds
  <2> QED
    BY <1>1, <1>2, <2>1, <2>2, <2>3
<1>5. \A j \in Sockets :
        j \notin Holds(t) /\ ~login[j].idle => login'[j] = login[j]
  BY <1>2
<1> QED
  BY <1>1, <1>2, <1>4, <1>5, LoginGoesOn

\* A thread at rest.
LEMMA ComesToRest ==
  ASSUME NEW t \in Threads, auth'[t] = Resting
  PROVE  LoginOK(t)'
BY RestingType DEF LoginOK, LoginOps

LEMMA BeginsLogin ==
  ASSUME AuthInv, NEW t \in Threads, NEW d \in Databases,
         NEW op \in {"use", "copy", "authenticate", "logout"},
         BeginAuth(t, op, d)
  PROVE  AuthInv'
<1> DEFINE mine == op \in {"authenticate", "copy"} /\ request[t] = "none"
           c == [Resting EXCEPT !.pc = "take", !.op = op, !.db = d,
                                !.mine = mine]
<1>1. mine \in BOOLEAN
  OBVIOUS
<1>2. /\ GoAuth(t, c) /\ UNCHANGED <<cached, login, auto>>
      /\ request' = IF mine THEN [request EXCEPT ![t] = "open"] ELSE request
  BY DEF BeginAuth
<1>3. /\ mine => op \in LoginOps
      /\ op \in LoginOps /\ ~mine => request[t] # "none"
  BY DEF LoginOps
<1> HIDE DEF mine
<1>4. /\ c \in AuthTask /\ c.pc = "take" /\ c.op = op /\ c.mine = mine
      /\ c.stage = 1
  BY <1>1, RestingType DEF AuthTask
<1> HIDE DEF c
<1>5. /\ cached \subseteq Databases /\ login \in [Sockets -> Login]
      /\ request \in [Threads -> Requests] /\ auto \in BOOLEAN
      /\ \A k \in Holds(t) : ~login[k].idle
  BY OfLogin
<1>6. Others(t, c) /\ auth'[t] = c
  BY <1>2, <1>4, OthersKept DEF Others
<1>7. /\ request' \in [Threads -> Requests]
      /\ \A u \in Threads \ {t} : request'[u] = request[u]
      /\ request'[t] = IF mine THEN "open" ELSE request[t]
  BY <1>2, <1>5 DEF Requests
<1>8. ASSUME NEW k \in Holds(t)'
      PROVE  k \in Holds(t)
  BY <1>4, <1>6, <1>7, AuthAssumption DEF Holds
<1>9. LoginOK(t)'
  BY <1>3, <1>4, <1>6, <1>7 DEF LoginOK, Steady, Started
<1> QED
  BY <1>2, <1>4, <1>5, <1>6, <1>7, <1>8, <1>9, LoginGoesOn

\* What a login under way knows of its socket.
LEMMA OfRequest ==
  ASSUME AuthInv, NEW t \in Threads
  PROVE  /\ auth[t].pc \in {"check", "command"} =>
              /\ auth[t].sock \in Sockets /\ auth[t].sock \in Holds(t)
              /\ auth[t].op \in LoginOps => request[t] = auth[t].sock
         /\ auth[t].op \in LoginOps /\ auth[t].pc = "store" =>
              /\ request[t] = auth[t].sock
              /\ auth[t].sock \in Sockets /\ auth[t].sock \in Holds(t)
         /\ auth[t].stage = 2 \/ auth[t].mine => auth[t].op \in LoginOps
         /\ auth[t].op \in LoginOps => request[t] # "none"
         /\ auth[t].op \in LoginOps /\ auth[t].stage = 2 =>
              request[t] = auth[t].from /\ auth[t].from \in Sockets
         /\ auth[t].op \in LoginOps /\ ~auth[t].raced => Steady(t)
<1>1. LoginOK(t)
  BY OfLogin
<1> QED
  BY <1>1 DEF LoginOK, Holds

LEMMA TakesSocket ==
  ASSUME AuthInv, NEW t \in Threads, TakeSocket(t)
  PROVE  AuthInv'
<1> DEFINE a == auth[t]
<1>1. /\ cached \subseteq Databases /\ login \in [Sockets -> Login]
      /\ request \in [Threads -> Requests] /\ auto \in BOOLEAN
      /\ a \in AuthTask /\ \A k \in Holds(t) : ~login[k].idle
      /\ LoginOK(t) /\ a.pc = "take" /\ UNCHANGED <<cached, auto>>
  BY OfLogin DEF TakeSocket
<1>2. PICK k \in Sockets :
        /\ IF request[t] \in Sockets THEN k = request[t] ELSE login[k].idle
        /\ login' = [login EXCEPT ![k] =
             [(IF @.stale THEN NewSocket ELSE @) EXCEPT !.idle = FALSE]]
        /\ request' = IF auto \/ request[t] # "none"
                      THEN [request EXCEPT ![t] = k] ELSE request
        /\ GoAuth(t, [a EXCEPT !.sock = k, !.names = cached,
                        !.raced = @ /\ a.stage = 2,
                        !.pc = IF cached = {} THEN "command" ELSE "check"])
  BY DEF TakeSocket
<1> DEFINE raced == a.raced /\ a.stage = 2
           pc == IF cached = {} THEN "command" ELSE "check"
           c == [a EXCEPT !.sock = k, !.names = cached, !.raced = raced,
                          !.pc = pc]
           old == IF login[k].stale THEN NewSocket ELSE login[k]
           s == [old EXCEPT !.idle = FALSE]
<1>3. raced \in BOOLEAN /\ pc \in {"command", "check"}
  OBVIOUS
<1>4. old \in Login /\ ~old.stale /\ (~login[k].stale => old = login[k])
  BY <1>1, NewSocketType
<1>5. GoAuth(t, c) /\ login' = [login EXCEPT ![k] = s]
  BY <1>1, <1>2 DEF AuthTask
<1> HIDE DEF old
<1>6. /\ s \in Login /\ ~s.idle /\ s.stale = old.stale
      /\ s.authset = old.authset /\ s.nonce = old.nonce
  BY <1>4, LoginFields
<1> HIDE DEF s
<1>7. pc = "command" <=> cached = {}
  OBVIOUS
<1>8. ~raced /\ a.stage = 2 => ~a.raced
  OBVIOUS
<1> HIDE DEF raced, pc
<1>9. /\ c \in AuthTask /\ c.sock = k /\ c.names = cached /\ c.raced = raced
      /\ c.pc = pc /\ c.op = a.op /\ c.stage = a.stage /\ c.mine = a.mine
      /\ c.from = a.from
  BY <1>1, <1>3 DEF AuthTask
<1> HIDE DEF c
<1>10. Others(t, c) /\ auth'[t] = c
  BY <1>1, <1>5, <1>9, OthersKept DEF Others
<1>11. /\ login' \in [Sockets -> Login] /\ login'[k] = s
       /\ \A j \in Sockets \ {k} : login'[j] = login[j]
  BY <1>1, <1>5, <1>6
<1>12. /\ request' \in [Threads -> Requests]
       /\ \A u \in Threads \ {t} : request'[u] = request[u]
       /\ request'[t] \in {k, "none"}
       /\ request[t] # "none" => request'[t] = k
  BY <1>1, <1>2 DEF Requests
<1>13. k \in Holds(t) \/ login[k].idle
  BY <1>2 DEF Holds
<1>14. ASSUME NEW j \in Holds(t)'
       PROVE  j = k
  BY <1>9, <1>10, <1>12, AuthAssumption DEF Holds
<1>15. ASSUME a.op \in LoginOps
       PROVE  /\ request'[t] = k
              /\ a.stage = 2 => a.from = k /\ request[t] = k
  BY <1>2, <1>12, <1>15, OfRequest
<1>16. ASSUME a.op \in LoginOps, ~raced
       PROVE  Steady(t)'
  <2>1. request'[t] = k /\ ~login'[k].stale
    BY <1>4, <1>6, <1>11, <1>15, <1>16
  <2>2. CASE a.stage = 2
    <3>1. Steady(t) /\ request[t] = k
      BY <1>8, <1>15, <1>16, <2>2, OfRequest
    <3>2. /\ ~login[k].stale
          /\ cached = {} \/ InLine(login[k].authset)
          /\ a.op = "authenticate" => login[k].nonce = {t}
      BY <1>1, <2>2, <3>1 DEF Steady, Started
    <3>3. /\ login'[k].authset = login[k].authset
          /\ login'[k].nonce = login[k].nonce
      BY <1>4, <1>6, <1>11, <3>2
    <3>4. \A set : InLine(set)' = InLine(set)
      BY <1>1 DEF InLine
    <3> QED
      BY <1>1, <1>9, <1>10, <2>1, <3>2, <3>3, <3>4 DEF Steady
  <2>3. CASE a.stage # 2
    BY <1>1, <1>3, <1>7, <1>9, <1>10, <2>1, <2>3 DEF Steady, Started
  <2> QED
    BY <2>2, <2>3
<1>17. LoginOK(t)'
  <2>1. a.mine \/ a.stage = 2 => a.op \in LoginOps
    BY OfRequest
  <2>2. k # "none"
    BY AuthAssumption
  <2> QED
    BY <1>3, <1>9, <1>10, <1>15, <1>16, <2>1, <2>2 DEF LoginOK
<1> QED
  BY <1>1, <1>6, <1>9, <1>10, <1>11, <1>12, <1>13, <1>14, <1>17, LoginGoesOn

\* The rest of __check_auth: a thread changes the logins of its socket.
LEMMA ChangesLogin ==
  ASSUME AuthInv, NEW t \in Threads, NEW c \in AuthTask, GoAuth(t, c),
         c.pc \in {"check", "command"}, c.sock = auth[t].sock,
         auth[t].pc = "check", UNCHANGED <<cached, request, auto>>,
         NEW l \in Login, l.idle = login[auth[t].sock].idle,
         login' = [login EXCEPT ![auth[t].sock] = l], LoginOK(t)'
  PROVE  AuthInv'
<1> DEFINE k == auth[t].sock
<1>1. /\ cached \subseteq Databases /\ login \in [Sockets -> Login]
      /\ request \in [Threads -> Requests] /\ auto \in BOOLEAN
      /\ \A j \in Holds(t) : ~login[j].idle
      /\ k \in Sockets /\ k \in Holds(t)
  BY OfLogin, OfRequest
<1>2. Others(t, c) /\ auth'[t] = c
  BY OthersKept DEF Others
<1>3. Holds(t)' = Holds(t)
  BY <1>2 DEF Holds
<1>4. /\ login' \in [Sockets -> Login] /\ login'[k] = l
      /\ \A j \in Sockets \ {k} : login'[j] = login[j]
  BY <1>1
<1>5. \A j \in Holds(t) : ~login'[j].idle
  BY <1>1, <1>4, OfLogin
<1> QED
  BY <1>1, <1>2, <1>3, <1>4, <1>5, LoginGoesOn

LEMMA ChecksLogin ==
  ASSUME AuthInv, NEW t \in Threads, DropLogin(t) \/ AddLogin(t) \/ Checked(t)
  PROVE  AuthInv'
<1> DEFINE a == auth[t]
           k == a.sock
           l == login[k]
<1>1. /\ login \in [Sockets -> Login] /\ request \in [Threads -> Requests]
      /\ auth \in [Threads -> AuthTask] /\ a \in AuthTask
      /\ a.pc = "check" /\ LoginOK(t) /\ UNCHANGED <<cached, auto>>
      /\ cached \subseteq Databases
  BY OfLogin DEF DropLogin, AddLogin, Checked
<1>2. /\ k \in Sockets /\ k \in Holds(t) /\ l \in Login
      /\ a.op \in LoginOps => request[t] = k
  BY <1>1, OfRequest
<1>3. ASSUME a.op \in LoginOps, ~a.raced
      PROVE  /\ a.names = cached /\ ~l.stale
             /\ a.stage = 2 => cached = {} \/ InLine(l.authset)
             /\ a.stage = 2 /\ a.op = "authenticate" => l.nonce = {t}
  <2>1. Steady(t)
    BY <1>3, OfRequest
  <2> QED
    BY <1>1, <1>2, <1>3, <2>1 DEF Steady, Started
\* The thread stays at the check, and its socket has another set of logins.
<1>4. ASSUME NEW m \in Login, m.idle = l.idle, m.stale = l.stale,
             login' = [login EXCEPT ![k] = m], UNCHANGED <<request, auth>>,
             a.op \in LoginOps /\ ~a.raced /\ a.stage = 2 =>
               /\ cached = {} \/ InLine(m.authset)
               /\ a.op = "authenticate" => m.nonce = {t}
      PROVE  AuthInv'
  <2>1. GoAuth(t, a) /\ login'[k] = m
    BY <1>1, <1>2, <1>4 DEF GoAuth
  <2>2. ASSUME a.op \in LoginOps, ~a.raced
        PROVE  Steady(t)'
    <3>1. \A set : InLine(set)' = InLine(set)
      BY <1>1 DEF InLine
    <3>2. login'[request'[t]] = m /\ auth'[t] = a
      BY <1>2, <1>4, <2>1, <2>2
    <3> QED
      BY <1>1, <1>3, <1>4, <2>2, <3>1, <3>2 DEF Steady, Started
  <2>3. LoginOK(t)'
    BY <1>1, <1>4, <2>2 DEF LoginOK
  <2> QED
    BY <1>1, <1>4, <2>1, <2>3, ChangesLogin
<1>5. CASE DropLogin(t)
  <2>1. PICK d \in l.authset \ a.names :
          login' = [login EXCEPT ![k].authset = @ \ {d}]
    BY <1>5 DEF DropLogin
  <2> DEFINE m == [l EXCEPT !.authset = @ \ {d}]
  <2>2. /\ m \in Login /\ m.idle = l.idle /\ m.stale = l.stale
        /\ m.nonce = l.nonce
    BY <1>2 DEF Login
  <2>3. login' = [login EXCEPT ![k] = m]
    BY <2>1
  <2> HIDE DEF m
  <2>4. ASSUME a.op \in LoginOps, ~a.raced, a.stage = 2
        PROVE  cached = {} /\ (a.op = "authenticate" => m.nonce = {t})
    BY <1>3, <2>1, <2>2, <2>4 DEF InLine
  <2>5. UNCHANGED <<request, auth>>
    BY <1>5 DEF DropLogin
  <2> QED
    BY <1>4, <2>2, <2>3, <2>4, <2>5
<1>6. CASE AddLogin(t)
  <2>1. PICK d \in IF Admin \in cached THEN {Admin} ELSE a.names \ l.authset :
          \/ /\ d \in cached
             /\ login' = [login EXCEPT ![k] = Authenticated(l, d)]
             /\ UNCHANGED <<request, auth>>
          \/ /\ d \notin cached
             /\ PutBack(t, k, login, a.mine)
             /\ GoAuth(t, Resting)
    BY <1>6 DEF AddLogin
  <2>2. CASE d \in cached /\ UNCHANGED <<request, auth>>
             /\ login' = [login EXCEPT ![k] = Authenticated(l, d)]
    <3> DEFINE m == Authenticated(l, d)
    <3>1. d \in Databases
      BY <1>1, <2>2
    <3>2. m \in Login /\ m.idle = l.idle /\ m.stale = l.stale
      BY <1>2, <3>1 DEF Authenticated, Login
    <3> HIDE DEF m
    <3>3. ~(a.op \in LoginOps /\ ~a.raced /\ a.stage = 2)
      BY <1>3, <1>6, <2>1, <2>2 DEF AddLogin, InLine
    <3>4. login' = [login EXCEPT ![k] = m]
      BY <2>2 DEF m
    <3> QED
      BY <1>4, <2>2, <3>2, <3>3, <3>4
  <2>3. CASE PutBack(t, k, login, a.mine) /\ GoAuth(t, Resting)
    <3>1. a.mine \in BOOLEAN
      BY <1>1 DEF AuthTask
    <3>2. Others(t, Resting) /\ auth'[t] = Resting
      BY <1>1, <2>3, RestingType, OthersKept DEF Others
    <3>3. LoginOK(t)'
      BY <3>2, ComesToRest
    <3> QED
      BY <1>1, <1>2, <2>3, <3>1, <3>2, <3>3, RestingType, PutsBack
  <2> QED
    BY <2>1, <2>2, <2>3
<1>7. CASE Checked(t)
  <2> DEFINE c == [a EXCEPT !.pc = "command", !.names = {}]
  <2>1. /\ c \in AuthTask /\ c.pc = "command" /\ c.sock = k /\ c.op = a.op
        /\ c.stage = a.stage /\ c.mine = a.mine /\ c.from = a.from
        /\ c.raced = a.raced
    BY <1>1 DEF AuthTask
  <2>2. GoAuth(t, c) /\ UNCHANGED <<login, request>>
    BY <1>7 DEF Checked
  <2> HIDE DEF c
  <2>3. auth'[t] = c
    BY <1>1, <2>2 DEF GoAuth
  <2>4. ASSUME a.op \in LoginOps, ~a.raced
        PROVE  Steady(t)'
    <3>1. InLine(l.authset)
      BY <1>3, <1>7, <2>4 DEF Checked, InLine
    <3>2. \A set : InLine(set)' = InLine(set)
      BY <1>1 DEF InLine
    <3>3. login'[request'[t]] = l
      BY <1>1, <1>2, <2>2, <2>4
    <3> QED
      BY <1>1, <1>3, <2>1, <2>3, <2>4, <3>1, <3>2, <3>3 DEF Steady, Started
  <2>5. LoginOK(t)'
    BY <1>1, <1>2, <2>1, <2>2, <2>3, <2>4 DEF LoginOK
  <2>6. login' = [login EXCEPT ![k] = l]
    BY <1>1, <2>2
  <2> QED
    BY <1>1, <1>2, <2>1, <2>2, <2>5, <2>6, ChangesLogin
<1> QED
  BY <1>5, <1>6, <1>7

\* Every command but the last of a login puts its socket back and comes to
\* rest, or goes on to store the credentials.
LEMMA EndsCommand ==
  ASSUME AuthInv, NEW t \in Threads, UseLogin(t) \/ Logout(t)
  PROVE  AuthInv'
<1> DEFINE a == auth[t]
           k == a.sock
           c == [a EXCEPT !.pc = "store"]
<1>1. /\ cached \subseteq Databases /\ login \in [Sockets -> Login]
      /\ a \in AuthTask /\ a.pc = "command" /\ UNCHANGED <<cached, auto>>
      /\ PutBack(t, k, login, FALSE) /\ a.op \in {"use", "logout"}
  BY OfLogin DEF UseLogin, Logout
<1>2. k \in Holds(t) /\ ~a.mine /\ a.stage # 2 /\ a.op \notin LoginOps
  BY <1>1, OfRequest DEF LoginOps
<1>3. CASE GoAuth(t, Resting)
  <2>1. Others(t, Resting) /\ auth'[t] = Resting
    BY <1>1, <1>3, RestingType, OthersKept DEF Others
  <2> QED
    BY <1>1, <1>2, <2>1, RestingType, ComesToRest, PutsBack
<1>4. CASE GoAuth(t, c)
  <2>1. c \in AuthTask /\ c.pc = "store" /\ c.op = a.op /\ c.mine = a.mine
        /\ c.stage = a.stage
    BY <1>1 DEF AuthTask
  <2> HIDE DEF c
  <2>2. Others(t, c) /\ auth'[t] = c
    BY <1>1, <1>4, <2>1, OthersKept DEF Others
  <2>3. LoginOK(t)'
    BY <1>2, <2>1, <2>2 DEF LoginOK
  <2> QED
    BY <1>1, <1>2, <2>1, <2>2, <2>3, PutsBack
<1> QED
  BY <1>3, <1>4 DEF UseLogin, Logout

\* The socket of a nonce stays with the thread: its request keeps it.
LEMMA GetsNonce ==
  ASSUME AuthInv, NEW t \in Threads, GetNonce(t)
  PROVE  AuthInv'
<1> DEFINE a == auth[t]
           k == a.sock
           m == [login[k] EXCEPT !.nonce = {t}]
           l == IF a.op = "authenticate" THEN [login EXCEPT ![k].nonce = {t}]
                ELSE login
           c == [a EXCEPT !.pc = "take", !.stage = 2, !.from = k,
                          !.sock = NoSocket]
<1>1. /\ cached \subseteq Databases /\ login \in [Sockets -> Login]
      /\ request \in [Threads -> Requests]
      /\ a \in AuthTask /\ a.pc = "command" /\ UNCHANGED <<cached, auto>>
      /\ PutBack(t, k, l, FALSE) /\ a.op \in LoginOps /\ GoAuth(t, c)
  BY OfLogin DEF GetNonce, LoginOps
<1>2. k \in Holds(t) /\ k \in Sockets /\ request[t] = k /\ request[t] # "none"
  BY <1>1, OfRequest
<1>3. m \in Login /\ m.stale = login[k].stale /\ m.authset = login[k].authset
      /\ m.nonce = {t}
  BY <1>1, <1>2 DEF Login
<1>4. l = IF a.op = "authenticate" THEN [login EXCEPT ![k] = m] ELSE login
  OBVIOUS
<1> HIDE DEF m, l
<1>5. /\ l \in [Sockets -> Login]
      /\ \A j \in Sockets \ {k} : l[j] = login[j]
      /\ l[k].stale = login[k].stale /\ l[k].authset = login[k].authset
      /\ a.op = "authenticate" => l[k].nonce = {t}
  BY <1>1, <1>2, <1>3, <1>4
<1>6. /\ c \in AuthTask /\ c.pc = "take" /\ c.stage = 2 /\ c.from = k
      /\ c.op = a.op /\ c.mine = a.mine /\ c.raced = a.raced
  <2>1. a \in AuthTask /\ k \in Sockets /\ 2 \in 1..2
    BY <1>1, <1>2
  <2> HIDE DEF k
  <2> QED
    BY <2>1 DEF AuthTask
<1> HIDE DEF c
<1>7. Others(t, c) /\ auth'[t] = c
  BY <1>1, <1>6, OthersKept DEF Others
<1>8. /\ request'[t] = k /\ login'[k].stale = login[k].stale
      /\ login'[k].authset = login[k].authset
      /\ a.op = "authenticate" => login'[k].nonce = {t}
  <2> DEFINE ends == FALSE
  <2>1. ends \in BOOLEAN /\ ~ends /\ PutBack(t, k, l, ends)
    BY <1>1
  <2> HIDE DEF ends
  <2>2. /\ request'[t] = request[t] /\ login'[k].stale = l[k].stale
        /\ login'[k].authset = l[k].authset /\ login'[k].nonce = l[k].nonce
    BY <1>1, <1>2, <1>5, <2>1, PutBackType
  <2> QED
    BY <1>2, <1>5, <2>2
<1>9. ASSUME ~a.raced
      PROVE  Steady(t)'
  <2>1. /\ ~login[k].stale
        /\ cached = {} \/ InLine(login[k].authset)
    BY <1>1, <1>2, <1>9, OfRequest DEF Steady, Started
  <2>2. \A set : InLine(set)' = InLine(set)
    BY <1>1 DEF InLine
  <2> QED
    BY <1>1, <1>6, <1>7, <1>8, <2>1, <2>2 DEF Steady
<1>10. LoginOK(t)'
  BY <1>1, <1>2, <1>6, <1>7, <1>8, <1>9 DEF LoginOK
<1> QED
  BY <1>1, <1>2, <1>5, <1>6, <1>7, <1>10, PutsBack

LEMMA SendsKey ==
  ASSUME AuthInv, NEW t \in Threads, Authenticate(t)
  PROVE  AuthInv'
<1> DEFINE a == auth[t]
           k == a.sock
           m == [login[k] EXCEPT !.nonce = {}]
           l == [login EXCEPT ![k].nonce = {}]
           c == [a EXCEPT !.pc = "store"]
<1>1. /\ cached \subseteq Databases /\ login \in [Sockets -> Login]
      /\ a \in AuthTask /\ a.pc = "command" /\ a.stage = 2
      /\ UNCHANGED <<cached, auto>> /\ a.mine \in BOOLEAN
      /\ request \in [Threads -> Requests]
  BY OfLogin DEF Authenticate, AuthTask
<1>2. /\ k \in Holds(t) /\ k \in Sockets /\ request[t] = k
      /\ request[t] # "none" /\ a.op \in LoginOps
      /\ request[t] = a.from /\ a.from \in Sockets
  BY <1>1, OfRequest
<1>3. CASE PutBack(t, k, login, a.mine) /\ GoAuth(t, Resting)
  <2>1. Others(t, Resting) /\ auth'[t] = Resting
    BY <1>1, <1>3, RestingType, OthersKept DEF Others
  <2> QED
    BY <1>1, <1>2, <1>3, <2>1, RestingType, ComesToRest, PutsBack
<1>4. CASE PutBack(t, k, l, FALSE) /\ GoAuth(t, c)
  <2>1. m \in Login /\ l = [login EXCEPT ![k] = m]
    BY <1>1, <1>2 DEF Login
  <2>2. /\ c \in AuthTask /\ c.pc = "store" /\ c.op = a.op /\ c.mine = a.mine
        /\ c.stage = 2 /\ c.from = a.from /\ c.sock = k
    BY <1>1 DEF AuthTask
  <2>3. PutBack(t, k, l, FALSE) /\ GoAuth(t, c)
    BY <1>4
  <2> HIDE DEF m, c
  <2>4. l \in [Sockets -> Login] /\ \A j \in Sockets \ {k} : l[j] = login[j]
    BY <1>1, <1>2, <2>1
  <2> HIDE DEF l
  <2>5. Others(t, c) /\ auth'[t] = c
    BY <1>1, <2>2, <2>3, OthersKept DEF Others
  <2>6. request'[t] = k
    BY <1>1, <1>2, <2>3, <2>4, PutBackType
  <2>7. LoginOK(t)'
    BY <1>2, <2>2, <2>5, <2>6 DEF LoginOK, Steady, Started
  <2> QED
    BY <1>1, <1>2, <2>2, <2>3, <2>4, <2>5, <2>7, PutsBack
<1> QED
  BY <1>3, <1>4 DEF Authenticate

LEMMA StoresCredentials ==
  ASSUME AuthInv, NEW t \in Threads, Store(t)
  PROVE  AuthInv'
<1> DEFINE a == auth[t]
<1>1. /\ cached \subseteq Databases /\ login \in [Sockets -> Login]
      /\ request \in [Threads -> Requests] /\ auto \in BOOLEAN
      /\ a \in AuthTask /\ a.pc = "store" /\ UNCHANGED auto
      /\ \A k \in Holds(t) : ~login[k].idle
  BY OfLogin DEF Store
<1>2. cached' \subseteq Databases
  BY <1>1 DEF Store, AuthTask
<1>3. Others(t, Resting) /\ auth'[t] = Resting
  BY <1>1, RestingType, OthersKept DEF Store, Others
<1>4. LoginOK(t)'
  BY <1>3, ComesToRest
<1>5. CASE a.mine
  <2>1. a.sock \in Holds(t)
    BY <1>1, <1>5, OfRequest
  <2>2. PutBack(t, a.sock, login, TRUE)
    BY <1>5 DEF Store
  <2> QED
    BY <1>1, <1>2, <1>3, <1>4, <2>1, <2>2, RestingType, PutsBack
<1>6. CASE ~a.mine
  <2>1. UNCHANGED <<login, request>>
    BY <1>6 DEF Store
  <2>2. Holds(t)' \subseteq Holds(t)
    BY <1>3, <2>1, RestingType DEF Holds
  <2> QED
    BY <1>1, <1>2, <1>3, <1>4, <2>1, <2>2, RestingType, LoginGoesOn
<1> QED
  BY <1>5, <1>6

\* disconnect makes the sockets in use stale, and replaces the others.
LEMMA LosesSockets ==
  ASSUME AuthInv, NEW t \in Threads, Disconnects(t)
  PROVE  AuthInv'
<1>1. /\ cached \subseteq Databases /\ login \in [Sockets -> Login]
      /\ request \in [Threads -> Requests] /\ auto \in BOOLEAN
      /\ auth[t] \in AuthTask /\ auth \in [Threads -> AuthTask]
      /\ LoginOK(t) /\ auth[t].pc = "idle"
      /\ Race(t, auth[t]) /\ UNCHANGED <<cached, request, auto>>
  BY OfLogin DEF Disconnects
<1>2. /\ auth' \in [Threads -> AuthTask] /\ auth'[t] = auth[t]
      /\ \A u \in Threads \ {t} :
           /\ auth'[u].pc = auth[u].pc /\ auth'[u].sock = auth[u].sock
           /\ \/ auth'[u] = auth[u] /\ UNCHANGED cached
              \/ auth'[u] = Marked(auth[u])
  BY <1>1, OthersKept DEF Others
<1>3. /\ login' \in [Sockets -> Login]
      /\ \A k \in Sockets : login'[k].idle = login[k].idle
  <2>1. ASSUME NEW l \in Login
        PROVE  /\ [l EXCEPT !.stale = TRUE] \in Login
               /\ [l EXCEPT !.stale = TRUE].idle = l.idle
    BY <2>1 DEF Login
  <2>2. login' = [k \in Sockets |-> IF login[k].idle THEN NewSocket
                                    ELSE [login[k] EXCEPT !.stale = TRUE]]
    BY DEF Disconnects
  <2>3. \A l \in Login : l.idle \in BOOLEAN
    BY DEF Login
  <2>4. ASSUME NEW k \in Sockets
        PROVE  login'[k] \in Login /\ login'[k].idle = login[k].idle
    <3>1. CASE login[k].idle
      BY <1>1, <2>2, <2>3, <3>1, NewSocketType
    <3>2. CASE ~login[k].idle
      BY <1>1, <2>1, <2>2, <3>2
    <3> QED
      BY <3>1, <3>2
  <2> QED
    BY <2>2, <2>4
<1>4. AuthTypeOK'
  BY <1>1, <1>2, <1>3 DEF AuthTypeOK, Requests
<1>5. \A u \in Threads : Holds(u)' = Holds(u) /\ Holds(u) \subseteq Sockets
  BY <1>1, <1>2 DEF Holds
<1>6. SocketsApart'
  BY <1>3, <1>5 DEF AuthInv, SocketsApart
<1>7. ASSUME NEW u \in Threads
      PROVE  LoginOK(u)'
  <2>1. LoginOK(u) /\ auth[u] \in AuthTask /\ UNCHANGED request
    BY <1>1, OfLogin
  <2>2. CASE u = t
    BY <1>1, <1>2, <2>2 DEF LoginOK, LoginOps
  <2>3. CASE u # t
    <3> DEFINE a == auth[u]
               b == auth'[u]
    <3>1. b = Marked(a)
      BY <1>1, <2>3 DEF Race, Marked, LoginOps
    <3>2. /\ b.pc = a.pc /\ b.op = a.op /\ b.stage = a.stage
          /\ b.sock = a.sock /\ b.mine = a.mine /\ b.from = a.from
          /\ b.op \in LoginOps => b.raced
      BY <2>1, <3>1, MarkedType
    <3> QED
      BY <2>1, <3>2 DEF LoginOK
  <2> QED
    BY <2>2, <2>3
<1> QED
  BY <1>4, <1>6, <1>7 DEF AuthInv

THEOREM AuthInvariant == AuthSpec => []AuthInv
<1>1. AuthInit => AuthInv
  <2>1. SUFFICES ASSUME AuthInit PROVE AuthInv
    OBVIOUS
  <2>2. AuthTypeOK
    BY <2>1, NewSocketType, RestingType DEF AuthInit, AuthTypeOK
  <2>3. \A t \in Threads : Holds(t) = {}
    BY <2>1, RestingType, AuthAssumption DEF AuthInit, Holds
  <2>4. \A t \in Threads : LoginOK(t)
    <3>1. ASSUME NEW t \in Threads
          PROVE  LoginOK(t)
      <4>1. auth[t] = Resting
        BY <2>1 DEF AuthInit
      <4> QED
        BY <4>1, RestingType DEF LoginOK, LoginOps
    <3> QED
      BY <3>1
  <2> QED
    BY <2>2, <2>3, <2>4 DEF AuthInv, SocketsApart
<1>2. AuthInv /\ [AuthNext]_authVars => AuthInv'
  <2>1. SUFFICES ASSUME AuthInv, [AuthNext]_authVars
                 PROVE  AuthInv'
    OBVIOUS
  <2>2. CASE UNCHANGED authVars
    BY <2>1, <2>2 DEF authVars, AuthInv, AuthTypeOK, SocketsApart, Holds, LoginOK,
                      Steady, Started, InLine
  <2>3. CASE AuthNext
    <3>1. PICK t \in Threads :
            \/ \E op \in {"use", "copy"} : BeginAuth(t, op, Admin)
            \/ \E op \in {"authenticate", "logout"}, d \in Databases :
                 BeginAuth(t, op, d)
            \/ TakeSocket(t) \/ DropLogin(t) \/ AddLogin(t) \/ Checked(t)
            \/ UseLogin(t) \/ GetNonce(t) \/ Authenticate(t) \/ Logout(t)
            \/ Store(t) \/ Disconnects(t)
      BY <2>3 DEF AuthNext
    <3>2. ASSUME NEW op \in {"use", "copy", "authenticate", "logout"},
                 NEW d \in Databases, BeginAuth(t, op, d)
          PROVE  AuthInv'
      BY <2>1, <3>2, BeginsLogin
    <3> QED
      BY <2>1, <3>1, <3>2, AuthAssumption, TakesSocket, ChecksLogin,
         EndsCommand, GetsNonce, SendsKey, StoresCredentials, LosesSockets
  <2> QED
    BY <2>1, <2>2, <2>3
<1> QED
  BY <1>1, <1>2, PTL DEF AuthSpec

\* The variables of the credentials keep their types.
THEOREM AuthTypeCorrect == AuthSpec => []AuthTypeOK
<1>1. AuthInv => AuthTypeOK
  BY DEF AuthInv
<1> QED
  BY <1>1, AuthInvariant, PTL

\* The key that authenticate and copy_database compute from a nonce goes over
\* the socket that gave it, and the server still knows the nonce, unless the
\* credentials or the pool change in between (database.py: authenticate;
\* connection.py: copy_database).
THEOREM NonceIsKeptCorrect == AuthSpec => []NonceIsKept
<1>1. AuthInv => NonceIsKept
  <2>1. SUFFICES ASSUME AuthInv, NEW t \in Threads, auth[t].pc = "command",
                        auth[t].stage = 2, ~auth[t].raced
                 PROVE  auth[t].sock = auth[t].from /\ ~Refused(t)
    BY DEF NonceIsKept
  <2>2. /\ auth[t].op \in LoginOps /\ request[t] = auth[t].sock
        /\ request[t] = auth[t].from /\ Steady(t)
    BY <2>1, OfRequest
  <2> QED
    BY <2>1, <2>2 DEF Steady, Started, Refused
<1> QED
  BY <1>1, AuthInvariant, PTL

----------------------------------------------------------------------------
(* The index cache, and the documents of a dict. *)

\* The cache is right but for the pairs that are excused: so is what a thread
\* is about to cache; what a thread is about to drop is cached no longer, and
\* nobody is creating it.
IndexInv ==
  /\ EnsuredExists
  /\ \A t \in Threads :
       /\ job[t].pc = "cache" => job[t].pairs \ excused \subseteq indexes
       /\ job[t].pc = "drop" =>
            job[t].pairs \intersect indexCache \subseteq excused
       /\ job[t].pc \in {"purge", "drop"} =>
            \A u \in Threads :
              job[u].pc \in {"create", "cache"} =>
                job[t].pairs \intersect job[u].pairs \subseteq excused

\* Documents that were made from a dict, by the client, have its _id.
OfDicts(docs) ==
  /\ docs \subseteq Documents
  /\ \A d \in Dicts, k \in 1..MaxDraws :
       <<d, k, "client">> \in docs => idOf[d] = k

DictInv == \A n \in Names : OfDicts(stored[n])

CollectionInv == CollectionTypeOK /\ IndexInv /\ DictInv

LEMMA NoJobType ==
  /\ NoJob \in IndexJob /\ NoJob.pc = "idle"
BY DEF NoJob, IndexJob

LEMMA OfJob ==
  ASSUME CollectionInv, NEW t \in Threads
  PROVE  /\ job[t] \in IndexJob /\ job[t].pairs \subseteq Pairs
         /\ indexes \subseteq Pairs /\ indexCache \subseteq Pairs
         /\ excused \subseteq Pairs
BY DEF CollectionInv, CollectionTypeOK, IndexJob

LEMMA JobSet ==
  ASSUME CollectionInv, NEW t \in Threads, NEW j \in IndexJob, SetJob(t, j)
  PROVE  /\ job' \in [Threads -> IndexJob] /\ job'[t] = j
         /\ \A u \in Threads \ {t} : job'[u] = job[u]
BY DEF SetJob, CollectionInv, CollectionTypeOK

\* A step that has to do with indexes only.
LEMMA IndexStep ==
  ASSUME CollectionInv, DocumentsUnchanged, IndexInv',
         indexes' \subseteq Pairs, indexCache' \subseteq Pairs,
         excused' \subseteq Pairs, job' \in [Threads -> IndexJob]
  PROVE  CollectionInv'
BY DEF CollectionInv, CollectionTypeOK, DocumentsUnchanged, DictInv, OfDicts

LEMMA PairsOfThreads ==
  /\ \A t \in Threads : job[t].pc \in {"create", "cache"} =>
       job[t].pairs \subseteq Creating
  /\ \A t \in Threads : job[t].pc \in {"purge", "drop"} =>
       job[t].pairs \subseteq Dropping
BY DEF Creating, Dropping, PairsIn

LEMMA BeginsCreate ==
  ASSUME CollectionInv, NEW t \in Threads, NEW p \in Pairs, BeginCreate(t, p)
  PROVE  CollectionInv'
<1> DEFINE j == [NoJob EXCEPT !.pc = "create", !.pairs = {p}]
<1>1. j \in IndexJob /\ j.pc = "create" /\ j.pairs = {p}
  BY DEF NoJob, IndexJob
<1>2. /\ SetJob(t, j) /\ UNCHANGED <<indexes, indexCache>>
      /\ excused' = excused \union ({p} \intersect Dropping)
      /\ DocumentsUnchanged /\ job[t].pc = "idle"
  BY DEF BeginCreate
<1> HIDE DEF j
<1>3. /\ job' \in [Threads -> IndexJob] /\ job'[t] = j
      /\ \A u \in Threads \ {t} : job'[u] = job[u]
  BY <1>1, <1>2, JobSet
<1>4. IndexInv'
  <2>1. EnsuredExists'
    BY <1>2 DEF CollectionInv, IndexInv, EnsuredExists
  <2>2. ASSUME NEW u \in Threads
        PROVE  /\ job'[u].pc = "cache" => job'[u].pairs \ excused' \subseteq indexes'
               /\ job'[u].pc = "drop" =>
                    job'[u].pairs \intersect indexCache' \subseteq excused'
    BY <1>1, <1>2, <1>3 DEF CollectionInv, IndexInv
  <2>3. ASSUME NEW u \in Threads, NEW v \in Threads,
               job'[u].pc \in {"purge", "drop"},
               job'[v].pc \in {"create", "cache"}
        PROVE  job'[u].pairs \intersect job'[v].pairs \subseteq excused'
    <3>1. u # t /\ job'[u] = job[u]
      BY <1>1, <1>3, <2>3
    <3>2. CASE v = t
      BY <1>1, <1>2, <1>3, <2>3, <3>1, <3>2, PairsOfThreads
    <3>3. CASE v # t
      BY <1>2, <1>3, <2>3, <3>1, <3>3 DEF CollectionInv, IndexInv
    <3> QED
      BY <3>2, <3>3
  <2> QED
    BY <2>1, <2>2, <2>3 DEF IndexInv
<1>5. excused' \subseteq Pairs
  BY <1>2, OfJob
<1> QED
  BY <1>2, <1>3, <1>4, <1>5, OfJob, IndexStep

LEMMA CreatesIndex ==
  ASSUME CollectionInv, NEW t \in Threads, CreateIndex(t) \/ CacheIndex(t)
  PROVE  CollectionInv'
<1> DEFINE a == job[t]
<1>1. /\ a \in IndexJob /\ a.pairs \subseteq Pairs
      /\ indexes \subseteq Pairs /\ indexCache \subseteq Pairs
      /\ excused \subseteq Pairs
      /\ a.pc \in {"create", "cache"} /\ DocumentsUnchanged /\ UNCHANGED excused
  BY OfJob DEF CreateIndex, CacheIndex
<1>2. PICK j \in IndexJob :
        /\ SetJob(t, j)
        /\ \/ j.pc = "idle"
           \/ j.pc = "cache" /\ a.pc = "create" /\ j.pairs = a.pairs
                /\ indexes' = indexes \union a.pairs
  <2>1. CASE SetJob(t, NoJob)
    BY <2>1, NoJobType
  <2>2. CASE /\ SetJob(t, [a EXCEPT !.pc = "cache"]) /\ a.pc = "create"
             /\ indexes' = indexes \union a.pairs
    <3> DEFINE j == [a EXCEPT !.pc = "cache"]
    <3>1. j \in IndexJob /\ j.pc = "cache" /\ j.pairs = a.pairs
      BY <1>1 DEF IndexJob
    <3>2. SetJob(t, j)
      BY <2>2
    <3> HIDE DEF j
    <3> QED
      BY <2>2, <3>1, <3>2
  <2> QED
    BY <2>1, <2>2 DEF CreateIndex, CacheIndex
<1>3. /\ job' \in [Threads -> IndexJob] /\ job'[t] = j
      /\ \A u \in Threads \ {t} : job'[u] = job[u]
  BY <1>2, JobSet
<1>4. /\ indexes' \in {indexes, indexes \union a.pairs}
      /\ \/ UNCHANGED indexCache
         \/ /\ indexCache' = indexCache \union a.pairs /\ a.pc = "cache"
  BY DEF CreateIndex, CacheIndex
<1>5. IndexInv'
  <2>1. EnsuredExists'
    BY <1>1, <1>4 DEF CollectionInv, IndexInv, EnsuredExists
  <2>2. ASSUME NEW u \in Threads
        PROVE  job'[u].pc = "cache" => job'[u].pairs \ excused' \subseteq indexes'
    BY <1>1, <1>2, <1>3, <1>4 DEF CollectionInv, IndexInv
  <2>3. ASSUME NEW u \in Threads, job'[u].pc \in {"purge", "drop"}
        PROVE  u # t /\ job'[u] = job[u]
    BY <1>2, <1>3, <2>3
  <2>4. ASSUME NEW u \in Threads, job'[u].pc = "drop"
        PROVE  job'[u].pairs \intersect indexCache' \subseteq excused'
    BY <1>1, <1>4, <2>3, <2>4 DEF CollectionInv, IndexInv
  <2>5. ASSUME NEW u \in Threads, NEW v \in Threads,
               job'[u].pc \in {"purge", "drop"},
               job'[v].pc \in {"create", "cache"}
        PROVE  job'[u].pairs \intersect job'[v].pairs \subseteq excused'
    <3>1. u # t /\ job'[u] = job[u]
      BY <2>3, <2>5
    <3>2. job[v].pc \in {"create", "cache"} /\ job'[v].pairs = job[v].pairs
      BY <1>1, <1>2, <1>3, <2>5
    <3> QED
      BY <1>1, <2>5, <3>1, <3>2 DEF CollectionInv, IndexInv
  <2> QED
    BY <2>1, <2>2, <2>4, <2>5 DEF IndexInv
<1>6. indexes' \subseteq Pairs /\ indexCache' \subseteq Pairs
  BY <1>1, <1>4
<1> QED
  BY <1>1, <1>3, <1>5, <1>6, IndexStep

LEMMA BeginsDrop ==
  ASSUME CollectionInv, NEW t \in Threads, NEW pairs \in SUBSET Pairs,
         NEW gone \in SUBSET Names, BeginDrop(t, pairs, gone)
  PROVE  CollectionInv'
<1> DEFINE pc == IF pairs \intersect indexCache = {} THEN "drop" ELSE "purge"
           j == [pc |-> pc, pairs |-> pairs, gone |-> gone]
<1>1. /\ j \in IndexJob /\ j.pc = pc /\ j.pairs = pairs
      /\ pc \in {"purge", "drop"}
      /\ pc = "drop" => pairs \intersect indexCache = {}
  BY DEF IndexJob
<1>2. /\ SetJob(t, j) /\ UNCHANGED <<indexes, indexCache>>
      /\ excused' = excused \union (pairs \intersect Creating)
      /\ DocumentsUnchanged /\ job[t].pc = "idle"
  BY DEF BeginDrop
<1> HIDE DEF j, pc
<1>3. /\ job' \in [Threads -> IndexJob] /\ job'[t] = j
      /\ \A u \in Threads \ {t} : job'[u] = job[u]
  BY <1>1, <1>2, JobSet
<1>4. IndexInv'
  <2>1. EnsuredExists'
    BY <1>2 DEF CollectionInv, IndexInv, EnsuredExists
  <2>2. ASSUME NEW u \in Threads
        PROVE  /\ job'[u].pc = "cache" => job'[u].pairs \ excused' \subseteq indexes'
               /\ job'[u].pc = "drop" =>
                    job'[u].pairs \intersect indexCache' \subseteq excused'
    BY <1>1, <1>2, <1>3 DEF CollectionInv, IndexInv
  <2>3. ASSUME NEW u \in Threads, NEW v \in Threads,
               job'[u].pc \in {"purge", "drop"},
               job'[v].pc \in {"create", "cache"}
        PROVE  job'[u].pairs \intersect job'[v].pairs \subseteq excused'
    <3>1. v # t /\ job'[v] = job[v]
      BY <1>1, <1>3, <2>3
    <3>2. CASE u = t
      BY <1>1, <1>2, <1>3, <2>3, <3>1, <3>2, PairsOfThreads
    <3>3. CASE u # t
      BY <1>2, <1>3, <2>3, <3>1, <3>3 DEF CollectionInv, IndexInv
    <3> QED
      BY <3>2, <3>3
  <2> QED
    BY <2>1, <2>2, <2>3 DEF IndexInv
<1>5. excused' \subseteq Pairs
  BY <1>2, OfJob
<1> QED
  BY <1>2, <1>3, <1>4, <1>5, OfJob, IndexStep

LEMMA PurgesIndex ==
  ASSUME CollectionInv, NEW t \in Threads, PurgeIndex(t)
  PROVE  CollectionInv'
<1> DEFINE a == job[t]
<1>1. /\ a \in IndexJob /\ a.pairs \subseteq Pairs
      /\ indexes \subseteq Pairs /\ indexCache \subseteq Pairs
      /\ excused \subseteq Pairs
      /\ a.pc = "purge" /\ DocumentsUnchanged /\ UNCHANGED <<indexes, excused>>
      /\ indexCache' = indexCache \ a.pairs
  BY OfJob DEF PurgeIndex
<1>2. PICK j \in IndexJob :
        SetJob(t, j) /\ (j.pc = "idle" \/ (j.pc = "drop" /\ j.pairs = a.pairs))
  <2>1. CASE SetJob(t, NoJob)
    BY <2>1, NoJobType
  <2>2. CASE SetJob(t, [a EXCEPT !.pc = "drop"])
    <3> DEFINE j == [a EXCEPT !.pc = "drop"]
    <3>1. j \in IndexJob /\ j.pc = "drop" /\ j.pairs = a.pairs
      BY <1>1 DEF IndexJob
    <3>2. SetJob(t, j)
      BY <2>2
    <3> HIDE DEF j
    <3> QED
      BY <3>1, <3>2
  <2> QED
    BY <2>1, <2>2 DEF PurgeIndex
<1>3. /\ job' \in [Threads -> IndexJob] /\ job'[t] = j
      /\ \A u \in Threads \ {t} : job'[u] = job[u]
  BY <1>2, JobSet
<1>4. IndexInv'
  BY <1>1, <1>2, <1>3 DEF CollectionInv, IndexInv, EnsuredExists
<1> QED
  BY <1>1, <1>3, <1>4, IndexStep

LEMMA ExpiresIndex ==
  ASSUME CollectionInv, NEW p \in Pairs, Expire(p)
  PROVE  CollectionInv'
<1>1. /\ indexCache' \subseteq indexCache /\ UNCHANGED <<indexes, job, excused>>
      /\ DocumentsUnchanged
  BY DEF Expire
<1>2. IndexInv'
  BY <1>1 DEF CollectionInv, IndexInv, EnsuredExists
<1> QED
  BY <1>1, <1>2, IndexStep DEF CollectionInv, CollectionTypeOK

LEMMA DropsElsewhere ==
  ASSUME CollectionInv, NEW n \in Names, DropElsewhere(n)
  PROVE  CollectionInv'
<1>1. /\ indexes' = indexes \ ({n} \X Indexes)
      /\ excused' = excused \union ({n} \X Indexes)
      /\ UNCHANGED <<indexCache, job>> /\ DocumentsUnchanged
  BY DEF DropElsewhere
<1> DEFINE gone == {n} \X Indexes
<1>2. gone \subseteq Pairs
  BY DEF Pairs
<1> HIDE DEF gone
<1>3. IndexInv'
  <2>1. indexes' = indexes \ gone /\ excused' = excused \union gone
    BY <1>1 DEF gone
  <2> QED
    BY <1>1, <2>1 DEF CollectionInv, IndexInv, EnsuredExists
<1>4. indexes' \subseteq Pairs /\ excused' \subseteq Pairs
  BY <1>1, <1>2 DEF CollectionInv, CollectionTypeOK, gone
<1> QED
  BY <1>1, <1>3, <1>4, IndexStep DEF CollectionInv, CollectionTypeOK

\* A step that has to do with documents only.
LEMMA DocumentStep ==
  ASSUME CollectionInv, UNCHANGED <<indexes, indexCache, job, excused>>,
         DictInv', stored' \in [Names -> SUBSET Documents],
         idOf' \in [Dicts -> 0..MaxDraws], drawn' \in [Dicts -> 0..MaxDraws]
  PROVE  CollectionInv'
<1>1. IndexInv'
  BY DEF CollectionInv, IndexInv, EnsuredExists
<1>2. CollectionTypeOK'
  BY DEF CollectionInv, CollectionTypeOK
<1> QED
  BY <1>1, <1>2 DEF CollectionInv

\* Documents that are fewer, or in another collection, have the _ids they had.
LEMMA FewerDocuments ==
  ASSUME CollectionInv, UNCHANGED idOf, stored' \in [Names -> SUBSET Documents],
         \A n \in Names : \/ stored'[n] = {}
                          \/ \E m \in Names : stored'[n] \subseteq stored[m]
  PROVE  DictInv'
<1> SUFFICES ASSUME NEW n \in Names PROVE OfDicts(stored[n])'
  BY DEF DictInv
<1>1. CASE stored'[n] = {}
  BY <1>1 DEF OfDicts
<1>2. CASE \E m \in Names : stored'[n] \subseteq stored[m]
  <2>1. PICK m \in Names : stored'[n] \subseteq stored[m]
    BY <1>2
  <2>2. OfDicts(stored[m])
    BY DEF CollectionInv, DictInv
  <2> QED
    BY <2>1, <2>2 DEF OfDicts
<1> QED
  BY <1>1, <1>2

LEMMA CommandDrops ==
  ASSUME CollectionInv, NEW t \in Threads, DropCommand(t)
  PROVE  CollectionInv'
<1> DEFINE a == job[t]
<1>1. /\ a \in IndexJob /\ a.pairs \subseteq Pairs
      /\ indexes \subseteq Pairs /\ indexCache \subseteq Pairs
      /\ excused \subseteq Pairs
      /\ a.pc = "drop" /\ UNCHANGED <<indexCache, idOf, drawn, excused>>
      /\ SetJob(t, NoJob)
  BY OfJob DEF DropCommand
<1>2. /\ job' \in [Threads -> IndexJob] /\ job'[t].pc = "idle"
      /\ \A u \in Threads \ {t} : job'[u] = job[u]
  BY <1>1, JobSet, NoJobType
<1>3. indexes' \in {indexes, indexes \ a.pairs}
  BY DEF DropCommand
<1>4. /\ stored' \in [Names -> SUBSET Documents]
      /\ \A n \in Names : stored'[n] \in {{}, stored[n]}
  BY DEF DropCommand, CollectionInv, CollectionTypeOK
<1>5. IndexInv'
  <2>1. EnsuredExists'
    BY <1>1, <1>3 DEF CollectionInv, IndexInv, EnsuredExists
  <2>2. ASSUME NEW u \in Threads, job'[u].pc = "cache"
        PROVE  job'[u].pairs \ excused' \subseteq indexes'
    <3>1. /\ job'[u] = job[u] /\ a.pairs \intersect job[u].pairs \subseteq excused
          /\ job[u].pairs \ excused \subseteq indexes
      BY <1>1, <1>2, <2>2 DEF CollectionInv, IndexInv
    <3> QED
      BY <1>1, <1>3, <3>1
  <2>3. ASSUME NEW u \in Threads, job'[u].pc \in {"purge", "drop"}
        PROVE  job'[u] = job[u]
    BY <1>2, <2>3
  <2>4. ASSUME NEW v \in Threads, job'[v].pc \in {"create", "cache"}
        PROVE  job'[v] = job[v]
    BY <1>2, <2>4
  <2> QED
    BY <1>1, <2>1, <2>2, <2>3, <2>4 DEF CollectionInv, IndexInv
<1>6. DictInv'
  BY <1>1, <1>4, FewerDocuments
<1> QED
  BY <1>1, <1>2, <1>3, <1>4, <1>5, <1>6 DEF CollectionInv, CollectionTypeOK

LEMMA RenamesCollection ==
  ASSUME CollectionInv, NEW t \in Threads, NEW n \in Names, NEW m \in Names,
         NEW dropTarget \in BOOLEAN, Rename(t, n, m, dropTarget)
  PROVE  CollectionInv'
<1> DEFINE InColl(c) == {p \in indexes : p[1] = c}
           moved == {n, m} \X Indexes
<1>1. /\ indexes' = (indexes \ (InColl(n) \union InColl(m)))
                      \union {<<m, p[2]>> : p \in InColl(n)}
      /\ stored' = [stored EXCEPT ![m] = stored[n], ![n] = {}]
      /\ excused' = excused \union moved
      /\ UNCHANGED <<indexCache, idOf, drawn, job>>
  BY DEF Rename
<1>2. indexes \subseteq Pairs /\ moved \subseteq Pairs /\ excused \subseteq Pairs
  BY DEF CollectionInv, CollectionTypeOK, Pairs
<1>3. indexes \ moved \subseteq indexes'
  BY <1>1, <1>2 DEF Pairs
<1>4. indexes' \subseteq Pairs
  BY <1>1, <1>2 DEF Pairs
<1> HIDE DEF moved, InColl
<1>5. IndexInv'
  BY <1>1, <1>3 DEF CollectionInv, IndexInv, EnsuredExists
<1>6. /\ stored' \in [Names -> SUBSET Documents]
      /\ \A c \in Names : \/ stored'[c] = {}
                          \/ \E b \in Names : stored'[c] \subseteq stored[b]
  BY <1>1 DEF CollectionInv, CollectionTypeOK
<1>7. DictInv'
  BY <1>1, <1>6, FewerDocuments
<1> QED
  BY <1>1, <1>2, <1>4, <1>5, <1>6, <1>7 DEF CollectionInv, CollectionTypeOK

\* An _id is put into a dict once and for all.
LEMMA Injected ==
  ASSUME CollectionInv, NEW ds \in SUBSET Dicts, Inject(ds)
  PROVE  /\ idOf' \in [Dicts -> 0..MaxDraws] /\ drawn' \in [Dicts -> 0..MaxDraws]
         /\ \A d \in Dicts : idOf[d] # 0 => idOf'[d] = idOf[d]
         /\ \A d \in ds : idOf'[d] \in 1..MaxDraws
<1>1. idOf \in [Dicts -> 0..MaxDraws] /\ drawn \in [Dicts -> 0..MaxDraws]
  BY DEF CollectionInv, CollectionTypeOK
<1>2. \A d \in ds : idOf[d] = 0 => drawn[d] + 1 \in 1..MaxDraws
  BY <1>1, CollectionAssumption DEF Inject
<1>3. \A d \in Dicts : idOf[d] # 0 => idOf[d] \in 1..MaxDraws
  BY <1>1, CollectionAssumption
<1>4. drawn' = [d \in Dicts |-> IF d \in ds /\ idOf[d] = 0 THEN drawn[d] + 1
                                ELSE drawn[d]]
  BY DEF Inject
<1>5. \A i \in 1..MaxDraws : i \in 0..MaxDraws
  BY CollectionAssumption
<1>6. drawn' \in [Dicts -> 0..MaxDraws]
  BY <1>1, <1>2, <1>4, <1>5
<1>7. idOf' = [d \in Dicts |-> IF d \in ds /\ idOf[d] = 0 THEN drawn'[d]
                               ELSE idOf[d]]
  BY DEF Inject
<1>8. idOf' \in [Dicts -> 0..MaxDraws]
  BY <1>1, <1>6, <1>7
<1> QED
  BY <1>1, <1>2, <1>3, <1>4, <1>6, <1>7, <1>8

\* A write that adds documents with the _ids of their dicts.
LEMMA WritesDocuments ==
  ASSUME CollectionInv, NEW n \in Names, NEW docs, Write(n, docs),
         idOf' \in [Dicts -> 0..MaxDraws], drawn' \in [Dicts -> 0..MaxDraws],
         \A d \in Dicts : idOf[d] # 0 => idOf'[d] = idOf[d],
         \A x \in docs \ stored[n] :
           /\ x \in Documents
           /\ \A d \in Dicts, k \in 1..MaxDraws :
                x = <<d, k, "client">> => idOf'[d] = k
  PROVE  CollectionInv'
<1>1. /\ stored \in [Names -> SUBSET Documents]
      /\ idOf \in [Dicts -> 0..MaxDraws]
      /\ \A c \in Names : OfDicts(stored[c])
  BY DEF CollectionInv, CollectionTypeOK, DictInv
<1>2. \A k \in 1..MaxDraws : k # 0
  BY CollectionAssumption
<1>3. docs \subseteq Documents
  BY <1>1
<1>4. /\ stored' \in [Names -> SUBSET Documents]
      /\ stored'[n] \in {stored[n], docs}
      /\ \A c \in Names \ {n} : stored'[c] = stored[c]
  BY <1>1, <1>3 DEF Write
<1>5. ASSUME NEW c \in Names, NEW d \in Dicts, NEW k \in 1..MaxDraws,
             <<d, k, "client">> \in stored'[c]
      PROVE  idOf'[d] = k
  <2>1. CASE <<d, k, "client">> \in stored[c]
    <3>1. idOf[d] = k
      BY <1>1, <2>1 DEF OfDicts
    <3> QED
      BY <1>2, <3>1
  <2>2. CASE <<d, k, "client">> \notin stored[c]
    <3>1. c = n /\ <<d, k, "client">> \in docs \ stored[n]
      BY <1>4, <1>5, <2>2
    <3> QED
      BY <3>1
  <2> QED
    BY <2>1, <2>2
<1>6. DictInv'
  BY <1>4, <1>5 DEF DictInv, OfDicts
<1>7. UNCHANGED <<indexes, indexCache, job, excused>>
  BY DEF Write
<1> QED
  BY <1>4, <1>6, <1>7, DocumentStep

\* The document that an insertion or a save makes of a dict.
LEMMA DocumentOfDict ==
  ASSUME NEW d \in Dicts, idOf'[d] \in 1..MaxDraws
  PROVE  /\ WithId(d) \in Documents
         /\ \A e \in Dicts, k \in 1..MaxDraws :
              WithId(d) = <<e, k, "client">> => idOf'[e] = k
BY DEF WithId, Documents

LEMMA InsertsDicts ==
  ASSUME CollectionInv, NEW n \in Names, NEW c \in BOOLEAN,
         NEW ds \in UNION {[1..k -> Dicts] : k \in 1..2}, Insert(n, ds, c)
  PROVE  CollectionInv'
<1> DEFINE names == {ds[i] : i \in 1..Len(ds)}
           docs == [i \in 1..Len(ds) |-> WithId(ds[i])]
<1>1. PICK k \in 1..2 : ds \in [1..k -> Dicts]
  OBVIOUS
<1>2. ds \in Seq(Dicts) /\ Len(ds) \in Nat
  BY <1>1
<1>3. names \in SUBSET Dicts /\ \A i \in 1..Len(ds) : ds[i] \in names
  BY <1>2
<1>4. Inject(names) /\ Write(n, Stored(n, docs, c))
  BY DEF Insert
<1>5. /\ idOf' \in [Dicts -> 0..MaxDraws] /\ drawn' \in [Dicts -> 0..MaxDraws]
      /\ \A d \in Dicts : idOf[d] # 0 => idOf'[d] = idOf[d]
      /\ \A d \in names : idOf'[d] \in 1..MaxDraws
  BY <1>3, <1>4, Injected
<1> HIDE DEF names
<1>6. Len(docs) = Len(ds)
  BY <1>2
<1>7. ASSUME NEW x \in Stored(n, docs, c) \ stored[n]
      PROVE  /\ x \in Documents
             /\ \A d \in Dicts, i \in 1..MaxDraws :
                  x = <<d, i, "client">> => idOf'[d] = i
  <2>1. PICK i \in 1..Len(ds) : x = docs[i]
    BY <1>6 DEF Stored
  <2>2. x = WithId(ds[i]) /\ ds[i] \in Dicts /\ idOf'[ds[i]] \in 1..MaxDraws
    BY <1>3, <1>5, <2>1
  <2> QED
    BY <2>2, DocumentOfDict
<1> HIDE DEF docs
<1> QED
  BY <1>4, <1>5, <1>7, WritesDocuments

LEMMA InsertsPlain ==
  ASSUME CollectionInv, NEW n \in Names, NEW d \in Dicts, InsertPlain(n, d)
  PROVE  CollectionInv'
<1>1. /\ UNCHANGED idOf /\ idOf \in [Dicts -> 0..MaxDraws]
      /\ drawn \in [Dicts -> 0..MaxDraws]
  BY DEF InsertPlain, CollectionInv, CollectionTypeOK
<1>2. CASE idOf[d] = 0
  <2>1. /\ drawn[d] < MaxDraws /\ drawn' = [drawn EXCEPT ![d] = @ + 1]
        /\ Write(n, stored[n] \union {<<d, drawn'[d], "server">>})
    BY <1>2 DEF InsertPlain
  <2>2. drawn[d] + 1 \in 1..MaxDraws /\ drawn[d] + 1 \in 0..MaxDraws
    BY <1>1, <2>1, CollectionAssumption
  <2>3. drawn' \in [Dicts -> 0..MaxDraws] /\ drawn'[d] \in 1..MaxDraws
    BY <1>1, <2>1, <2>2
  <2>4. /\ <<d, drawn'[d], "server">> \in Documents
        /\ \A e, k : <<d, drawn'[d], "server">> # <<e, k, "client">>
    BY <2>3 DEF Documents
  <2> QED
    BY <1>1, <2>1, <2>3, <2>4, WritesDocuments
<1>3. CASE idOf[d] # 0
  <2>1. /\ UNCHANGED drawn
        /\ Write(n, stored[n] \union {<<d, idOf[d], "client">>})
    BY <1>3 DEF InsertPlain
  <2>2. idOf[d] \in 1..MaxDraws
    BY <1>1, <1>3, CollectionAssumption
  <2>3. <<d, idOf[d], "client">> \in Documents
    BY <2>2 DEF Documents
  <2>4. \A e, k : <<d, idOf[d], "client">> = <<e, k, "client">> => idOf'[e] = k
    BY <1>1
  <2> QED
    BY <1>1, <2>1, <2>3, <2>4, WritesDocuments
<1> QED
  BY <1>2, <1>3

LEMMA SavesDict ==
  ASSUME CollectionInv, NEW n \in Names, NEW d \in Dicts, Save(n, d)
  PROVE  CollectionInv'
<1>1. Inject({d}) /\ Write(n, stored[n] \union {WithId(d)})
  BY DEF Save
<1>2. /\ idOf' \in [Dicts -> 0..MaxDraws] /\ drawn' \in [Dicts -> 0..MaxDraws]
      /\ \A e \in Dicts : idOf[e] # 0 => idOf'[e] = idOf[e]
      /\ idOf'[d] \in 1..MaxDraws
  BY <1>1, Injected
<1>3. /\ WithId(d) \in Documents
      /\ \A e \in Dicts, k \in 1..MaxDraws :
           WithId(d) = <<e, k, "client">> => idOf'[e] = k
  BY <1>2, DocumentOfDict
<1> QED
  BY <1>1, <1>2, <1>3, WritesDocuments

LEMMA RemovesDocuments ==
  ASSUME CollectionInv, NEW n \in Names, RemoveDocuments(n)
  PROVE  CollectionInv'
<1>1. PICK docs \in SUBSET stored[n] : Write(n, docs)
  BY DEF RemoveDocuments
<1>2. UNCHANGED <<idOf, drawn>>
  BY DEF RemoveDocuments
<1>3. /\ idOf \in [Dicts -> 0..MaxDraws] /\ drawn \in [Dicts -> 0..MaxDraws]
  BY DEF CollectionInv, CollectionTypeOK
<1> QED
  BY <1>1, <1>2, <1>3, WritesDocuments

THEOREM CollectionInvariant == CollectionSpec => []CollectionInv
<1>1. CollectionInit => CollectionInv
  <2>1. SUFFICES ASSUME CollectionInit PROVE CollectionInv
    OBVIOUS
  <2>2. 0 \in 0..MaxDraws
    BY CollectionAssumption
  <2>3. CollectionTypeOK
    BY <2>1, <2>2, NoJobType DEF CollectionInit, CollectionTypeOK
  <2>4. IndexInv
    BY <2>1, NoJobType DEF CollectionInit, IndexInv, EnsuredExists
  <2>5. DictInv
    BY <2>1 DEF CollectionInit, DictInv, OfDicts
  <2> QED
    BY <2>3, <2>4, <2>5 DEF CollectionInv
<1>2. CollectionInv /\ [CollectionNext]_collectionVars => CollectionInv'
  <2>1. SUFFICES ASSUME CollectionInv, [CollectionNext]_collectionVars
                 PROVE  CollectionInv'
    OBVIOUS
  <2>2. CASE UNCHANGED collectionVars
    BY <2>1, <2>2 DEF collectionVars, CollectionInv, CollectionTypeOK, IndexInv,
                      EnsuredExists, DictInv, OfDicts
  <2>3. ASSUME NEW t \in Threads,
               \/ \E p \in Pairs :
                    BeginCreate(t, p) \/ EnsureIndex(t, p) \/ DropIndex(t, p)
               \/ \E n \in Names : DropIndexes(t, n) \/ DropCollection(t, n)
               \/ DropDatabase(t)
        PROVE  CollectionInv'
    <3>1. ASSUME NEW p \in Pairs, BeginCreate(t, p) \/ EnsureIndex(t, p)
          PROVE  CollectionInv'
      BY <2>1, <3>1, BeginsCreate DEF EnsureIndex
    <3>2. ASSUME NEW pairs \in SUBSET Pairs, NEW gone \in SUBSET Names,
                 BeginDrop(t, pairs, gone)
          PROVE  CollectionInv'
      BY <2>1, <3>2, BeginsDrop
    <3>3. ASSUME NEW p \in Pairs, DropIndex(t, p)
          PROVE  CollectionInv'
      BY <3>2, <3>3 DEF DropIndex
    <3>4. ASSUME NEW n \in Names, DropIndexes(t, n) \/ DropCollection(t, n)
          PROVE  CollectionInv'
      <4>1. {n} \X Indexes \in SUBSET Pairs
        BY DEF Pairs
      <4> QED
        BY <3>2, <3>4, <4>1 DEF DropIndexes, DropCollection
    <3>5. CASE DropDatabase(t)
      BY <3>2, <3>5 DEF DropDatabase
    <3> QED
      BY <2>3, <3>1, <3>3, <3>4, <3>5
  <2>4. ASSUME NEW t \in Threads,
               \/ \E n, m \in Names, dropTarget \in BOOLEAN :
                    Rename(t, n, m, dropTarget)
               \/ CreateIndex(t) \/ CacheIndex(t)
               \/ PurgeIndex(t) \/ DropCommand(t)
        PROVE  CollectionInv'
    BY <2>1, <2>4, RenamesCollection, CreatesIndex, PurgesIndex, CommandDrops
  <2>5. ASSUME NEW n \in Names,
               \/ DropElsewhere(n)
               \/ \E ds \in UNION {[1..k -> Dicts] : k \in 1..2}, c \in BOOLEAN :
                    Insert(n, ds, c)
               \/ \E d \in Dicts : InsertPlain(n, d) \/ Save(n, d)
               \/ RemoveDocuments(n)
        PROVE  CollectionInv'
    BY <2>1, <2>5, DropsElsewhere, InsertsDicts, InsertsPlain, SavesDict,
       RemovesDocuments
  <2> QED
    BY <2>1, <2>2, <2>3, <2>4, <2>5, ExpiresIndex DEF CollectionNext
<1> QED
  BY <1>1, <1>2, PTL DEF CollectionSpec

\* The index cache, the dicts and the documents keep their types.
THEOREM CollectionTypeCorrect == CollectionSpec => []CollectionTypeOK
<1>1. CollectionInv => CollectionTypeOK
  BY DEF CollectionInv
<1> QED
  BY <1>1, CollectionInvariant, PTL

\* An index that ensure_index does not ask for exists, unless it is excused
\* (collection.py: create_index, ensure_index, drop_index, drop_collection;
\* connection.py: _cache_index, _purge_index).
THEOREM EnsuredExistsCorrect == CollectionSpec => []EnsuredExists
<1>1. CollectionInv => EnsuredExists
  BY DEF CollectionInv, IndexInv
<1> QED
  BY <1>1, CollectionInvariant, PTL

\* A collection has one document of a dict at most, however often the dict is
\* inserted or saved, unless the server has drawn the _id (collection.py: insert,
\* save; son_manipulator.py).
THEOREM StoredOnceCorrect == CollectionSpec => []StoredOnce
<1>1. CollectionInv => StoredOnce
  <2>1. SUFFICES ASSUME CollectionInv, NEW n \in Names, NEW d \in Dicts
                 PROVE  Cardinality({k \in 1..MaxDraws :
                          <<d, k, "client">> \in stored[n]}) <= 1
    BY DEF StoredOnce
  <2> DEFINE ks == {k \in 1..MaxDraws : <<d, k, "client">> \in stored[n]}
  <2>2. ks \subseteq {idOf[d]}
    BY <2>1 DEF CollectionInv, DictInv, OfDicts
  <2> HIDE DEF ks
  <2>3. IsFiniteSet({idOf[d]}) /\ Cardinality({idOf[d]}) = 1
    BY FS_Singleton
  <2>4. Cardinality(ks) <= 1
    BY <2>2, <2>3, FS_Subset
  <2> QED
    BY <2>4 DEF ks
<1> QED
  BY <1>1, CollectionInvariant, PTL

----------------------------------------------------------------------------
(* A member that is down is asked again. *)

\* The member in the table was found down.
Down(n) == member[n] # 0 /\ ~Fields(n, member[n]).up

\* The event is set, or a thread that has found the member down will set it.
Told(n) ==
  \/ monitor.event
  \/ \E t \in RsThreads : proc[t].pc = "schedule" /\ proc[t].at = n

\* The monitor is about to ask the host of an object that is in the table no
\* longer: it will not mark the one that is there.
AsksOther(n) ==
  /\ proc[Monitor].pc = "ask" /\ proc[Monitor].at = n
  /\ member[n] # proc[Monitor].k

\* Where the monitor is; the hosts it still has to ask are those of a refresh.
MonitorOK(c) ==
  /\ c.op = "none" /\ c.next = "ask"
  /\ c.pc \in {"wait", "clear", "refresh", "update", "fetch", "ask", "ended"}
  /\ c.pc \in {"fetch", "ask"} => c.at \in Members
  /\ c.pc \notin {"fetch", "ask"} => c.at = NoMember
  /\ c.pc \in {"wait", "clear"} => c.todo = {}

\* A read that tries a member may fail once more.
ThreadOK(c) ==
  /\ c.pc \in {"read", "try", "down", "schedule"} => c.errors < MAX_RETRY
  /\ c.pc = "fetch" => c.at \in Members

RefreshInv ==
  /\ RsTypeOK
  /\ MonitorOK(proc[Monitor])
  /\ \A t \in RsThreads : ThreadOK(proc[t])
  /\ DownIsRefreshed
  /\ \A n \in Members : Down(n) /\ AsksOther(n) => Told(n)

MemberFields == [is_primary : BOOLEAN, up : BOOLEAN]
Tables == [Members -> Objects]
ObjectTables == [Members -> [1..MaxObjects -> MemberFields]]
Events == [event : BOOLEAN, stopped : BOOLEAN, failed : BOOLEAN]
Elections == [primary : Hosts, elections : 0..MaxElections]

RsRestOK ==
  /\ member \in Tables /\ object \in ObjectTables /\ writer \in Hosts
  /\ pinned \in [RsThreads -> Hosts] /\ inRequest \in BOOLEAN
  /\ monitor \in Events /\ replica \in Elections

LEMMA RsTypes == RsTypeOK <=> RsRestOK /\ proc \in [Procs -> Proc]
BY DEF RsTypeOK, RsRestOK, Tables, ObjectTables, MemberFields, Events, Elections

\* What RefreshInv says of one process.
LEMMA OfProc ==
  ASSUME RefreshInv, NEW p \in Procs
  PROVE  /\ proc[p] \in Proc /\ RsRestOK
         /\ p \in RsThreads => ThreadOK(proc[p]) /\ p # Monitor
         /\ proc[Monitor] \in Proc /\ MonitorOK(proc[Monitor])
BY RsTypes, RsAssumption DEF RefreshInv, Procs

\* DownIsRefreshed, of one member.
LEMMA RefreshOf ==
  DownIsRefreshed <=>
    \A n \in Members :
      Down(n) => \/ Told(n) \/ monitor.failed
                 \/ proc[Monitor].pc \in {"ended", "refresh"}
                 \/ n \in proc[Monitor].todo \union {proc[Monitor].at}
BY DEF DownIsRefreshed, Down, Told

LEMMA BecomeType ==
  ASSUME RefreshInv, NEW p \in Procs, NEW c \in Proc, Become(p, c)
  PROVE  /\ proc' \in [Procs -> Proc] /\ proc'[p] = c
         /\ \A q \in Procs \ {p} : proc'[q] = proc[q]
BY RsTypes DEF Become, RefreshInv

LEMMA DoingType ==
  ASSUME NEW pc \in {"idle", "find", "refresh", "update", "fetch", "ask",
                     "candidate", "check", "read", "select", "try", "down",
                     "schedule", "send", "wait", "clear", "ended"},
         NEW op \in {"none", "write", "read"}
  PROVE  /\ RsDoing(pc, op) \in Proc
         /\ RsDoing(pc, op).pc = pc /\ RsDoing(pc, op).op = op
         /\ RsDoing(pc, op).todo = {} /\ RsDoing(pc, op).at = NoMember
         /\ RsDoing(pc, op).next = "ask" /\ RsDoing(pc, op).errors = 0
<1>1. AnyMode \in Modes
  BY RsAssumption DEF AnyMode
<1>2. 0 \in Objects /\ 0 \in 0..MAX_RETRY
  BY RsAssumption DEF Objects, MAX_RETRY
<1>3. [n \in Members |-> 0] \in [Members -> Objects]
  BY <1>2
<1> QED
  BY <1>1, <1>2, <1>3 DEF RsDoing, Proc, Hosts

LEMMA ReadyType ==
  /\ \A t \in RsThreads : Ready(t) \in Proc /\ Ready(t).pc = "idle"
  /\ Ready(Monitor) \in Proc /\ MonitorOK(Ready(Monitor))
  /\ Ready(Monitor).pc = "wait" /\ Ready(Monitor).todo = {}
  /\ Ready(Monitor).at = NoMember
<1>1. RsDoing("wait", "none") = Ready(Monitor)
  BY DEF Ready
<1>2. \A t \in RsThreads : Ready(t) = RsDoing("idle", "none")
  BY RsAssumption DEF Ready
<1> QED
  BY <1>1, <1>2, DoingType DEF MonitorOK

\* The object in the table outlives the others.
LEMMA LiveType ==
  ASSUME NEW fields \in ObjectTables, member' \in Tables
  PROVE  /\ Live(fields) \in ObjectTables
         /\ \A n \in Members :
              member'[n] # 0 =>
                Live(fields)[n][member'[n]] = fields[n][member'[n]]
<1>1. NoFields \in MemberFields
  BY DEF NoFields, MemberFields
<1> DEFINE L(n, k) ==
             IF k = member'[n] \/ \E q \in Procs : Refers(proc'[q], n, k)
             THEN fields[n][k] ELSE NoFields
<1>2. \A n \in Members : \A k \in 1..MaxObjects :
        /\ L(n, k) \in MemberFields
        /\ k = member'[n] => L(n, k) = fields[n][k]
  BY <1>1 DEF ObjectTables
<1>3. \A n \in Members : member'[n] # 0 => member'[n] \in 1..MaxObjects
  BY RsAssumption DEF Tables, Objects
<1>4. Live(fields) = [n \in Members |-> [k \in 1..MaxObjects |-> L(n, k)]]
  BY DEF Live
<1> HIDE DEF L
<1> QED
  BY <1>2, <1>3, <1>4 DEF ObjectTables

LEMMA ObjectsKept ==
  ASSUME RsRestOK, SameObjects, member' \in Tables
  PROVE  /\ object' \in ObjectTables
         /\ \A n \in Members :
              Down(n)' /\ member'[n] = member[n] => Down(n)
BY LiveType DEF RsRestOK, SameObjects, Down, Fields

\* What every step of a thread has to show.
LEMMA RsThreadMoves ==
  ASSUME RefreshInv, NEW t \in RsThreads, NEW c \in Proc, Become(t, c),
         ThreadOK(c), RsRestOK',
         monitor.event => monitor'.event, monitor.failed => monitor'.failed,
         proc[t].pc = "schedule" => monitor'.event,
         \A n \in Members :
           Down(n)' => \/ Down(n) /\ member'[n] = member[n]
                       \/ c.pc = "schedule" /\ c.at = n
  PROVE  RefreshInv'
<1>1. t \in Procs /\ t # Monitor /\ Monitor \in Procs
  BY RsAssumption DEF Procs
<1>2. /\ proc' \in [Procs -> Proc] /\ proc'[t] = c
      /\ \A q \in Procs \ {t} : proc'[q] = proc[q]
  BY <1>1, BecomeType
<1>3. RsTypeOK'
  BY <1>2, RsTypes DEF RsRestOK, RsTypeOK, Tables, ObjectTables, MemberFields,
     Events, Elections
<1>4. proc'[Monitor] = proc[Monitor]
  BY <1>1, <1>2
<1>5. \A u \in RsThreads : ThreadOK(proc'[u])
  BY <1>2 DEF RefreshInv, Procs
<1>6. ASSUME NEW n \in Members, Told(n)
      PROVE  Told(n)'
  BY <1>2, <1>6 DEF Told, Procs
<1>7. ASSUME NEW n \in Members, c.pc = "schedule" /\ c.at = n
      PROVE  Told(n)'
  BY <1>2, <1>7 DEF Told
<1>8. DownIsRefreshed'
  <2>1. ASSUME NEW n \in Members, Down(n)'
        PROVE  \/ Told(n)' \/ monitor'.failed
               \/ proc'[Monitor].pc \in {"ended", "refresh"}
               \/ n \in proc'[Monitor].todo \union {proc'[Monitor].at}
    BY <1>4, <1>6, <1>7, <2>1, RefreshOf DEF RefreshInv
  <2> QED
    BY <2>1 DEF DownIsRefreshed, Down, Told
<1>9. \A n \in Members : Down(n)' /\ AsksOther(n)' => Told(n)'
  BY <1>4, <1>6, <1>7 DEF RefreshInv, AsksOther
<1> QED
  BY <1>3, <1>4, <1>5, <1>8, <1>9 DEF RefreshInv

\* A thread that has nothing to report and leaves the table as it is.
LEMMA QuietThread ==
  ASSUME RefreshInv, NEW t \in RsThreads, NEW c \in Proc, Become(t, c),
         ThreadOK(c), proc[t].pc # "schedule",
         writer' \in Hosts, pinned' \in [RsThreads -> Hosts],
         UNCHANGED <<member, inRequest, monitor, replica>>, SameObjects
  PROVE  RefreshInv'
<1>1. RsRestOK
  BY RsTypes DEF RefreshInv
<1>2. /\ object' \in ObjectTables
      /\ \A n \in Members : Down(n)' => Down(n) /\ member'[n] = member[n]
  BY <1>1, ObjectsKept DEF RsRestOK
<1>3. RsRestOK'
  BY <1>1, <1>2 DEF RsRestOK
<1> QED
  BY <1>2, <1>3, RsThreadMoves

\* What every step of the monitor has to show.
LEMMA MonitorMoves ==
  ASSUME RefreshInv, NEW c \in Proc, Become(Monitor, c), MonitorOK(c), RsRestOK',
         \A n \in Members : Down(n)' => Down(n) /\ member'[n] = member[n],
         \/ c.pc \in {"ended", "refresh"}
         \/ /\ monitor.event => monitor'.event
            /\ \A n \in Members :
                 Down(n)' /\ ~Told(n) =>
                   monitor'.failed \/ n \in c.todo \union {c.at},
         c.pc = "ask" =>
           \A n \in Members :
             Down(n)' /\ c.at = n /\ member[n] # c.k => Told(n)
  PROVE  RefreshInv'
<1>1. Monitor \in Procs /\ Monitor \notin RsThreads
  BY RsAssumption DEF Procs
<1>2. /\ proc' \in [Procs -> Proc] /\ proc'[Monitor] = c
      /\ \A q \in RsThreads : proc'[q] = proc[q]
  BY <1>1, BecomeType DEF Procs
<1>3. RsTypeOK'
  BY <1>2 DEF RsRestOK, RsTypeOK, Tables, ObjectTables, MemberFields,
     Events, Elections
<1>4. \A t \in RsThreads : ThreadOK(proc'[t])
  BY <1>2 DEF RefreshInv
<1>5. ASSUME NEW n \in Members, Told(n), monitor.event => monitor'.event
      PROVE  Told(n)'
  BY <1>2, <1>5 DEF Told
<1>6. DownIsRefreshed'
  <2>1. ASSUME NEW n \in Members, Down(n)'
        PROVE  \/ Told(n)' \/ monitor'.failed
               \/ proc'[Monitor].pc \in {"ended", "refresh"}
               \/ n \in proc'[Monitor].todo \union {proc'[Monitor].at}
    BY <1>2, <1>5, <2>1
  <2> QED
    BY <2>1 DEF DownIsRefreshed, Down, Told
<1>7. \A n \in Members : Down(n)' /\ AsksOther(n)' => Told(n)'
  <2>1. ASSUME NEW n \in Members, Down(n)', AsksOther(n)'
        PROVE  Told(n)'
    BY <1>2, <1>5, <2>1 DEF AsksOther
  <2> QED
    BY <2>1
<1> QED
  BY <1>2, <1>3, <1>4, <1>6, <1>7 DEF RefreshInv

\* The processes stay where they are, and no member is found down.
LEMMA StaysNoticed ==
  ASSUME RefreshInv, UNCHANGED proc, RsRestOK',
         monitor.event => monitor'.event, monitor.failed => monitor'.failed,
         \A n \in Members : Down(n)' => Down(n) /\ member'[n] = member[n]
  PROVE  RefreshInv'
<1>1. RsTypeOK'
  BY RsTypes DEF RefreshInv, RsRestOK, RsTypeOK, Tables, ObjectTables,
     MemberFields, Events, Elections
<1>2. \A n \in Members : Told(n) => Told(n)'
  BY DEF Told
<1>3. DownIsRefreshed'
  <2>1. ASSUME NEW n \in Members, Down(n)'
        PROVE  \/ Told(n)' \/ monitor'.failed
               \/ proc'[Monitor].pc \in {"ended", "refresh"}
               \/ n \in proc'[Monitor].todo \union {proc'[Monitor].at}
    BY <1>2, <2>1, RefreshOf DEF RefreshInv
  <2> QED
    BY <2>1 DEF DownIsRefreshed, Down, Told
<1>4. \A n \in Members : Down(n)' /\ AsksOther(n)' => Told(n)'
  BY <1>2 DEF RefreshInv, AsksOther
<1> QED
  BY <1>1, <1>3, <1>4 DEF RefreshInv

\* What LookUp makes of a process.
LEMMA LookUpType ==
  ASSUME RsRestOK, NEW p \in Procs, NEW n \in Members,
         NEW next \in {"ask", "check"}, NEW c \in Proc, LookUp(p, n, next, c)
  PROVE  \E d \in Proc :
           /\ Become(p, d) /\ d.pc \in {"fetch", next} /\ d.at = n /\ d.k = 0
           /\ d.next = next /\ d.todo = c.todo /\ d.op = c.op
           /\ d.pc = next => member[n] = 0
<1> DEFINE d == [c EXCEPT !.pc = IF member[n] = 0 THEN next ELSE "fetch",
                          !.next = next, !.at = n, !.k = 0]
<1>1. 0 \in Objects /\ n \in Hosts
  BY RsAssumption DEF Objects, Hosts
<1>2. /\ d \in Proc /\ d.pc \in {"fetch", next} /\ d.at = n /\ d.k = 0
      /\ d.next = next /\ d.todo = c.todo /\ d.op = c.op
      /\ d.pc = next => member[n] = 0
  BY <1>1 DEF Proc
<1>3. Become(p, d)
  BY DEF LookUp
<1> QED
  BY <1>2, <1>3

\* The ways a thread leaves what it does, or finds the primary's Member.
LEMMA ThreadLeaves ==
  ASSUME RefreshInv, NEW t \in RsThreads,
         MemberFound(t) \/ AutoReconnect(t) \/ KeyError(t)
  PROVE  /\ \E c \in Proc : Become(t, c) /\ ThreadOK(c) /\ c.pc # "schedule"
         /\ AutoReconnect(t) => UNCHANGED monitor
<1>1. t \in Procs /\ t # Monitor /\ proc[t] \in Proc
  BY OfProc, RsAssumption DEF Procs
<1>2. proc[t].op \in {"none", "write", "read"}
  BY <1>1 DEF Proc
<1>3. Ready(t) \in Proc /\ ThreadOK(Ready(t)) /\ Ready(t).pc # "schedule"
  BY ReadyType DEF ThreadOK
<1>4. \A pc \in {"send", "read"}, op \in {"none", "write", "read"} :
        /\ RsDoing(pc, op) \in Proc /\ ThreadOK(RsDoing(pc, op))
        /\ RsDoing(pc, op).pc # "schedule"
  BY DoingType DEF ThreadOK, MAX_RETRY
<1>5. CASE MemberFound(t)
  <2>1. \E pc \in {"send", "read"} : Become(t, RsDoing(pc, proc[t].op))
    BY <1>5 DEF MemberFound
  <2> QED
    BY <1>1, <1>2, <1>4, <2>1 DEF AutoReconnect
<1>6. CASE AutoReconnect(t)
  BY <1>1, <1>3, <1>4, <1>6 DEF AutoReconnect
<1>7. CASE KeyError(t)
  BY <1>1, <1>3, <1>7 DEF KeyError, AutoReconnect
<1> QED
  BY <1>5, <1>6, <1>7

LEMMA BeginSteps ==
  ASSUME RefreshInv, NEW t \in RsThreads, NEW op \in {"write", "read"},
         RsBegin(t, op)
  PROVE  RefreshInv'
<1> DEFINE c == RsDoing("find", op)
<1>1. c \in Proc /\ ThreadOK(c) /\ Become(t, c)
  BY DoingType DEF RsBegin, ThreadOK
<1>2. RsRestOK
  BY RsTypes DEF RefreshInv
<1> HIDE DEF c
<1> QED
  BY <1>1, <1>2, QuietThread DEF RsBegin, RsRestOK

\* A change of the place alone.
LEMMA MoveType ==
  ASSUME RefreshInv, NEW p \in Procs,
         NEW pc \in {"idle", "find", "refresh", "update", "fetch", "ask",
                     "candidate", "check", "read", "select", "try", "down",
                     "schedule", "send", "wait", "clear", "ended"},
         Move(p, pc)
  PROVE  \E c \in Proc :
           /\ Become(p, c) /\ c.pc = pc /\ c.at = proc[p].at
           /\ c.op = proc[p].op /\ c.next = proc[p].next
           /\ c.todo = proc[p].todo /\ c.errors = proc[p].errors
<1> DEFINE c == [proc[p] EXCEPT !.pc = pc]
<1>1. proc[p] \in Proc
  BY OfProc
<1>2. /\ c \in Proc /\ c.pc = pc /\ c.at = proc[p].at
      /\ c.op = proc[p].op /\ c.next = proc[p].next
      /\ c.todo = proc[p].todo /\ c.errors = proc[p].errors
  BY <1>1 DEF Proc
<1>3. Become(p, c)
  BY DEF Move
<1> QED
  BY <1>2, <1>3

LEMMA FindPrimarySteps ==
  ASSUME RefreshInv, NEW t \in RsThreads, FindPrimary(t)
  PROVE  RefreshInv'
<1>1. t \in Procs /\ RsRestOK
  BY OfProc DEF Procs
<1>2. \E c \in Proc : Become(t, c) /\ ThreadOK(c)
  <2>1. CASE KeyError(t) \/ MemberFound(t)
    BY <2>1, ThreadLeaves
  <2>2. CASE Move(t, "refresh")
    BY <1>1, <2>2, MoveType DEF ThreadOK
  <2> QED
    BY <2>1, <2>2 DEF FindPrimary
<1> QED
  BY <1>1, <1>2, QuietThread DEF FindPrimary, RsRestOK

LEMMA CandidateSteps ==
  ASSUME RefreshInv, NEW t \in RsThreads, Candidate(t)
  PROVE  RefreshInv'
<1>1. t \in Procs /\ RsRestOK /\ proc[t] \in Proc
  BY OfProc DEF Procs
<1>2. UNCHANGED monitor /\ \E c \in Proc : Become(t, c) /\ ThreadOK(c)
  <2>1. CASE AutoReconnect(t)
    BY <2>1, ThreadLeaves
  <2>2. ASSUME NEW n \in proc[t].todo,
               LookUp(t, n, "check", [proc[t] EXCEPT !.todo = @ \ {n}]),
               UNCHANGED monitor
        PROVE  UNCHANGED monitor /\ \E c \in Proc : Become(t, c) /\ ThreadOK(c)
    <3>1. n \in Members /\ [proc[t] EXCEPT !.todo = @ \ {n}] \in Proc
      BY <1>1 DEF Proc
    <3>2. \E d \in Proc : Become(t, d) /\ d.pc \in {"fetch", "check"} /\ d.at = n
      BY <1>1, <2>2, <3>1, LookUpType
    <3> QED
      BY <2>2, <3>1, <3>2 DEF ThreadOK
  <2> QED
    BY <2>1, <2>2 DEF Candidate
<1> QED
  BY <1>1, <1>2, QuietThread DEF Candidate, RsRestOK

LEMMA SendSteps ==
  ASSUME RefreshInv, NEW t \in RsThreads, RsSend(t)
  PROVE  RefreshInv'
<1>1. RsRestOK
  BY RsTypes DEF RefreshInv
<1>2. Ready(t) \in Proc /\ ThreadOK(Ready(t)) /\ Become(t, Ready(t))
  BY ReadyType DEF RsSend, ThreadOK
<1>3. writer' \in Hosts
  BY <1>1 DEF RsSend, RsRestOK, Hosts
<1> QED
  BY <1>1, <1>2, <1>3, QuietThread DEF RsSend, RsRestOK

\* select_member answers a member, or None.
LEMMA Selected ==
  ASSUME NEW refs, NEW mode \in Modes
  PROVE  Select(refs, mode) \subseteq Members \union {NoMember}
<1>1. mode \in {"PRIMARY", "PRIMARY_PREFERRED", "SECONDARY",
                "SECONDARY_PREFERRED", "NEAREST"}
  BY RsAssumption
<1> QED
  BY <1>1 DEF Select

LEMMA ReadSteps ==
  ASSUME RefreshInv, NEW t \in RsThreads, NEW mode \in Modes, RsRead(t, mode)
  PROVE  RefreshInv'
<1> DEFINE n == pinned[t]
           c == [proc[t] EXCEPT !.mode = mode]
           pin == [c EXCEPT !.pc = "try", !.at = n, !.k = member[n],
                            !.viaPin = TRUE]
           any == [c EXCEPT !.pc = "select", !.refs = member]
<1>1. /\ RsRestOK /\ proc[t] \in Proc /\ ThreadOK(proc[t]) /\ t \in Procs
      /\ proc[t].pc = "read"
  BY OfProc DEF Procs, RsRead
<1>2. c \in Proc /\ c.errors < MAX_RETRY
  BY <1>1 DEF Proc, ThreadOK
<1>3. n \in Hosts /\ member \in [Members -> Objects]
  BY <1>1 DEF RsRestOK, Tables
<1>4. pinned' \in [RsThreads -> Hosts]
  BY <1>1 DEF RsRead, RsRestOK, Unpin, Hosts
<1>5. \E d \in Proc : Become(t, d) /\ ThreadOK(d)
  <2>1. CASE n # NoMember /\ Become(t, pin)
    <3>1. n \in Members /\ member[n] \in Objects
      BY <1>3, <2>1 DEF Hosts
    <3>2. pin \in Proc /\ pin.errors < MAX_RETRY /\ pin.pc = "try"
      BY <1>2, <1>3, <3>1 DEF Proc
    <3> QED
      BY <2>1, <3>2 DEF ThreadOK
  <2>2. CASE Become(t, any)
    <3>1. any \in Proc /\ any.pc = "select"
      BY <1>2, <1>3 DEF Proc
    <3> QED
      BY <2>2, <3>1 DEF ThreadOK
  <2> QED
    BY <2>1, <2>2 DEF RsRead
<1> QED
  BY <1>1, <1>4, <1>5, QuietThread DEF RsRead, RsRestOK

LEMMA CursorReadSteps ==
  ASSUME RefreshInv, NEW t \in RsThreads, NEW n \in Members, ReadCursor(t, n)
  PROVE  RefreshInv'
<1> DEFINE c == [proc[t] EXCEPT !.pc = "try", !.at = n, !.k = member[n],
                                !.explicit = TRUE]
<1>1. /\ RsRestOK /\ proc[t] \in Proc /\ ThreadOK(proc[t]) /\ t \in Procs
      /\ proc[t].pc = "read"
  BY OfProc DEF Procs, ReadCursor
<1>2. n \in Hosts /\ member[n] \in Objects
  BY <1>1 DEF RsRestOK, Tables, Hosts
<1>3. \E d \in Proc : Become(t, d) /\ ThreadOK(d)
  <2>1. CASE KeyError(t)
    BY <2>1, ThreadLeaves
  <2>2. CASE Become(t, c)
    <3>1. c \in Proc /\ c.errors < MAX_RETRY /\ c.pc = "try"
      BY <1>1, <1>2 DEF Proc, ThreadOK
    <3> QED
      BY <2>2, <3>1 DEF ThreadOK
  <2> QED
    BY <2>1, <2>2 DEF ReadCursor
<1> QED
  BY <1>1, <1>3, QuietThread DEF ReadCursor, RsRestOK

LEMMA SelectSteps ==
  ASSUME RefreshInv, NEW t \in RsThreads, SelectMember(t)
  PROVE  RefreshInv'
<1> DEFINE c == proc[t]
           try(n) == [c EXCEPT !.pc = "try", !.at = n, !.k = c.refs[n]]
<1>1. RsRestOK /\ c \in Proc /\ t \in Procs
  BY OfProc DEF Procs
<1>2. Ready(t) \in Proc /\ ThreadOK(Ready(t))
  BY ReadyType DEF ThreadOK
<1>3. \E d \in Proc : Become(t, d) /\ ThreadOK(d)
  <2>1. CASE Become(t, Ready(t))
    BY <1>2, <2>1
  <2>2. ASSUME NEW n \in Select(c.refs, c.mode), n # NoMember,
               c.errors # MAX_RETRY, Become(t, try(n))
        PROVE  \E d \in Proc : Become(t, d) /\ ThreadOK(d)
    <3>1. n \in Members /\ n \in Hosts
      <4>1. c.mode \in Modes
        BY <1>1 DEF Proc
      <4> QED
        BY <2>2, <4>1, Selected DEF Hosts
    <3>2. c.refs[n] \in Objects /\ c.errors \in 0..MAX_RETRY
      BY <1>1, <3>1 DEF Proc
    <3>3. try(n) \in Proc /\ try(n).errors = c.errors /\ try(n).pc = "try"
      BY <1>1, <3>1, <3>2 DEF Proc
    <3>4. c.errors < MAX_RETRY
      BY <2>2, <3>2 DEF MAX_RETRY
    <3> QED
      BY <2>2, <3>3, <3>4 DEF ThreadOK
  <2> QED
    BY <2>1, <2>2 DEF SelectMember
<1> QED
  BY <1>1, <1>3, QuietThread DEF SelectMember, RsRestOK

LEMMA TrySteps ==
  ASSUME RefreshInv, NEW t \in RsThreads, TrySucceeds(t) \/ TryFails(t)
  PROVE  RefreshInv'
<1>1. /\ RsRestOK /\ proc[t] \in Proc /\ ThreadOK(proc[t]) /\ t \in Procs
      /\ proc[t].pc = "try"
  BY OfProc DEF Procs, TrySucceeds, TryFails
<1>2. CASE TrySucceeds(t)
  <2>1. Ready(t) \in Proc /\ ThreadOK(Ready(t)) /\ Become(t, Ready(t))
    BY <1>2, ReadyType DEF ThreadOK, TrySucceeds
  <2>2. proc[t].at \in Hosts
    BY <1>1 DEF Proc
  <2>3. writer' \in Hosts /\ pinned' \in [RsThreads -> Hosts]
    BY <1>1, <1>2, <2>2 DEF TrySucceeds, RsRestOK, Hosts
  <2> QED
    BY <1>1, <1>2, <2>1, <2>3, QuietThread DEF TrySucceeds
<1>3. CASE TryFails(t)
  <2>1. \E c \in Proc : Become(t, c) /\ c.pc = "down" /\ c.errors = proc[t].errors
    BY <1>1, <1>3, MoveType DEF TryFails
  <2>2. proc[t].errors < MAX_RETRY
    BY <1>1 DEF ThreadOK
  <2> QED
    BY <1>1, <1>3, <2>1, <2>2, QuietThread DEF TryFails, ThreadOK, RsRestOK
<1> QED
  BY <1>2, <1>3

\* member.up = False: the thread goes on to tell the monitor.
LEMMA DownSteps ==
  ASSUME RefreshInv, NEW t \in RsThreads, MarkDown(t)
  PROVE  RefreshInv'
<1> DEFINE at == proc[t].at
           k == proc[t].k
           marked == [object EXCEPT ![at][k].up = FALSE]
<1>1. /\ RsRestOK /\ proc[t] \in Proc /\ ThreadOK(proc[t]) /\ t \in Procs
      /\ proc[t].pc = "down"
  BY OfProc DEF Procs, MarkDown
<1>2. PICK c \in Proc :
        /\ Become(t, c) /\ c.pc = "schedule" /\ c.at = at
        /\ c.errors = proc[t].errors
  BY <1>1, MoveType DEF MarkDown
<1>3. ThreadOK(c)
  BY <1>1, <1>2 DEF ThreadOK
<1>4. /\ marked \in ObjectTables
      /\ \A n \in Members : n # at => marked[n] = object[n]
  <2>1. object \in ObjectTables
    BY <1>1 DEF RsRestOK
  <2>2. \A n \in Members, j \in 1..MaxObjects :
          [object[n][j] EXCEPT !.up = FALSE] \in MemberFields
    <3>1. \A n \in Members, j \in 1..MaxObjects : object[n][j] \in MemberFields
      BY <2>1 DEF ObjectTables
    <3>2. \A f \in MemberFields : [f EXCEPT !.up = FALSE] \in MemberFields
      BY DEF MemberFields
    <3> QED
      BY <3>1, <3>2
  <2> DEFINE row == [object[at] EXCEPT ![k].up = FALSE]
  <2>3. at \in Members => row \in [1..MaxObjects -> MemberFields]
    BY <2>1, <2>2 DEF ObjectTables
  <2>4. marked = [object EXCEPT ![at] = row]
    OBVIOUS
  <2> HIDE DEF row
  <2> QED
    BY <2>1, <2>3, <2>4 DEF ObjectTables
<1>5. object' = Live(marked) /\ UNCHANGED <<member, writer, pinned, inRequest,
                                            monitor, replica>>
  BY DEF MarkDown
<1> HIDE DEF marked
<1>6. /\ object' \in ObjectTables
      /\ \A n \in Members : member'[n] # 0 =>
           object'[n][member'[n]] = marked[n][member'[n]]
  BY <1>1, <1>4, <1>5, LiveType DEF RsRestOK
<1>7. \A n \in Members : Down(n)' => Down(n) \/ n = at
  BY <1>4, <1>5, <1>6 DEF Down, Fields
<1>8. RsRestOK'
  BY <1>1, <1>5, <1>6 DEF RsRestOK
<1> QED
  BY <1>1, <1>2, <1>3, <1>5, <1>7, <1>8, RsThreadMoves

\* __schedule_refresh: the event is set.
LEMMA ScheduleSteps ==
  ASSUME RefreshInv, NEW t \in RsThreads, ScheduleRefresh(t)
  PROVE  RefreshInv'
<1> DEFINE c == proc[t]
           again == [c EXCEPT !.pc = "select", !.at = NoMember, !.k = 0,
                              !.errors = @ + 1, !.viaPin = FALSE]
           pinless == [again EXCEPT !.refs = member]
           fewer == [again EXCEPT !.refs[c.at] = 0]
<1>1. RsRestOK /\ c \in Proc /\ ThreadOK(c) /\ t \in Procs /\ c.pc = "schedule"
  BY OfProc DEF Procs, ScheduleRefresh
<1>2. Ready(t) \in Proc /\ Ready(t).pc = "idle"
  BY ReadyType
<1>3. again \in Proc /\ again.pc = "select" /\ again.refs = c.refs
  <2>1. c.errors \in 0..MAX_RETRY /\ c.errors < MAX_RETRY
    BY <1>1 DEF ThreadOK, Proc
  <2>2. c.errors + 1 \in 0..MAX_RETRY
    BY <2>1 DEF MAX_RETRY
  <2>3. 0 \in Objects /\ NoMember \in Hosts
    BY RsAssumption DEF Objects, Hosts
  <2> QED
    BY <1>1, <2>2, <2>3 DEF Proc
<1>4. pinless \in Proc /\ pinless.pc = "select"
  BY <1>1, <1>3 DEF Proc, RsRestOK, Tables
<1>5. fewer \in Proc /\ fewer.pc = "select"
  <2>3. c.refs \in [Members -> Objects] /\ 0 \in Objects
    BY <1>1, RsAssumption DEF Proc, Objects
  <2>1. [c.refs EXCEPT ![c.at] = 0] \in [Members -> Objects]
    BY <2>3
  <2>2. fewer = [again EXCEPT !.refs = [c.refs EXCEPT ![c.at] = 0]]
    BY <1>3
  <2> HIDE DEF fewer
  <2> QED
    BY <1>3, <2>1, <2>2 DEF Proc
<1> HIDE DEF again, pinless, fewer
<1>6. /\ \E d \in Proc : Become(t, d) /\ d.pc \in {"idle", "select"}
      /\ writer' \in Hosts /\ pinned' \in [RsThreads -> Hosts]
  <2>1. NoMember \in Hosts /\ writer \in Hosts /\ pinned \in [RsThreads -> Hosts]
    BY <1>1 DEF Hosts, RsRestOK
  <2>2. CASE c.explicit
    BY <1>2, <2>1, <2>2 DEF ScheduleRefresh
  <2>3. CASE ~c.explicit /\ c.viaPin /\ c.mode = "PRIMARY"
    BY <1>2, <2>1, <2>3 DEF ScheduleRefresh
  <2>4. CASE ~c.explicit /\ c.viaPin /\ c.mode # "PRIMARY"
    <3>1. Become(t, pinless) /\ Unpin(t) /\ UNCHANGED writer
      BY <2>4 DEF ScheduleRefresh, pinless, again
    <3> QED
      BY <1>4, <2>1, <3>1 DEF Unpin
  <2>5. CASE ~c.explicit /\ ~c.viaPin
    <3>1. Become(t, fewer) /\ UNCHANGED <<writer, pinned>>
      BY <2>5 DEF ScheduleRefresh, fewer, again
    <3> QED
      BY <1>5, <2>1, <3>1
  <2>6. c.explicit \in BOOLEAN /\ c.viaPin \in BOOLEAN
    BY <1>1 DEF Proc
  <2> QED
    BY <2>2, <2>3, <2>4, <2>5, <2>6
<1>7. /\ monitor' = [monitor EXCEPT !.event = TRUE]
      /\ UNCHANGED <<member, inRequest, replica>> /\ SameObjects
  BY DEF ScheduleRefresh
<1>8. monitor' \in Events /\ monitor'.event /\ monitor'.failed = monitor.failed
  BY <1>1, <1>7 DEF RsRestOK, Events
<1>9. /\ object' \in ObjectTables
      /\ \A n \in Members : Down(n)' => Down(n) /\ member'[n] = member[n]
  BY <1>1, <1>7, ObjectsKept DEF RsRestOK
<1>10. RsRestOK'
  BY <1>1, <1>6, <1>7, <1>8, <1>9 DEF RsRestOK
<1>11. PICK d \in Proc : Become(t, d) /\ d.pc \in {"idle", "select"}
  BY <1>6
<1>12. ThreadOK(d)
  BY <1>11 DEF ThreadOK
<1> QED
  BY <1>8, <1>9, <1>10, <1>11, <1>12, RsThreadMoves

LEMMA RsRequestSteps ==
  ASSUME RefreshInv, NEW t \in RsThreads,
         RsStartRequest(t) \/ RsEndRequest(t) \/ RsDisconnect(t)
  PROVE  RefreshInv'
<1>1. RsRestOK
  BY RsTypes DEF RefreshInv
<1>2. UNCHANGED <<member, object, monitor, proc, replica>>
  BY DEF RsStartRequest, RsEndRequest, RsDisconnect
<1>3. \A n \in Members : Down(n)' => Down(n) /\ member'[n] = member[n]
  BY <1>2 DEF Down, Fields
<1>4. RsRestOK'
  BY <1>1, <1>2 DEF RsStartRequest, RsEndRequest, RsDisconnect, Unpin, RsRestOK,
     Hosts
<1> QED
  BY <1>2, <1>3, <1>4, StaysNoticed

LEMMA CloseSteps ==
  ASSUME RefreshInv, RsClose
  PROVE  RefreshInv'
<1>1. RsRestOK
  BY RsTypes DEF RefreshInv
<1>2. member' \in Tables /\ \A n \in Members : member'[n] = 0
  BY RsAssumption DEF RsClose, Tables, Objects
<1>3. object' \in ObjectTables
  BY <1>1, <1>2, ObjectsKept DEF RsClose
<1>4. monitor' \in Events /\ monitor'.event /\ monitor'.failed = monitor.failed
  BY <1>1 DEF RsClose, RsRestOK, Events
<1>5. \A n \in Members : ~Down(n)'
  BY <1>2 DEF Down
<1>6. RsRestOK'
  BY <1>1, <1>2, <1>3, <1>4 DEF RsClose, RsRestOK, Hosts
<1> QED
  BY <1>4, <1>5, <1>6, StaysNoticed DEF RsClose

LEMMA ElectionSteps ==
  ASSUME RefreshInv, StepDown \/ \E n \in Members : RsElect(n)
  PROVE  RefreshInv'
<1>1. RsRestOK
  BY RsTypes DEF RefreshInv
<1>2. UNCHANGED <<member, object, writer, pinned, inRequest, monitor, proc>>
  BY DEF StepDown, RsElect
<1>3. replica' \in Elections
  <2>1. CASE StepDown
    BY <1>1, <2>1 DEF StepDown, Elections, RsRestOK, Hosts
  <2>2. ASSUME NEW n \in Members, RsElect(n)
        PROVE  replica' \in Elections
    <3>1. replica.elections \in 0..MaxElections
      BY <1>1 DEF RsRestOK, Elections
    <3>2. replica.elections + 1 \in 0..MaxElections
      BY <2>2, <3>1, RsAssumption DEF RsElect
    <3> QED
      BY <2>2, <3>2 DEF RsElect, Elections, Hosts
  <2> QED
    BY <2>1, <2>2
<1>4. \A n \in Members : Down(n)' => Down(n) /\ member'[n] = member[n]
  BY <1>2 DEF Down, Fields
<1>5. RsRestOK'
  BY <1>1, <1>2, <1>3 DEF RsRestOK
<1> QED
  BY <1>2, <1>4, <1>5, StaysNoticed

\* The monitor clears the event and only then begins to refresh.
LEMMA MonitorSteps ==
  ASSUME RefreshInv, Wake \/ Clear
  PROVE  RefreshInv'
<1> DEFINE c == proc[Monitor]
<1>1. RsRestOK /\ c \in Proc /\ MonitorOK(c) /\ Monitor \in Procs
  BY OfProc DEF Procs
<1>2. UNCHANGED <<member, object, writer, pinned, inRequest, replica>>
  BY DEF Wake, Clear
<1>3. /\ monitor' \in Events
      /\ Wake => monitor' = monitor
  BY <1>1 DEF Wake, Clear, RsRestOK, Events
<1>4. RsRestOK'
  BY <1>1, <1>2, <1>3 DEF RsRestOK
<1>5. \A n \in Members : Down(n)' => Down(n) /\ member'[n] = member[n]
  BY <1>2 DEF Down, Fields
<1>6. PICK d \in Proc :
        /\ Become(Monitor, d) /\ d.at = c.at /\ d.op = c.op /\ d.next = c.next
        /\ d.todo = c.todo
        /\ d.pc \in {"ended", "refresh"} \/ (Wake /\ d.pc = "clear")
  <2>1. \A pc \in {"clear", "ended", "refresh"} :
          Move(Monitor, pc) =>
            \E d \in Proc :
              /\ Become(Monitor, d) /\ d.pc = pc /\ d.at = c.at /\ d.op = c.op
              /\ d.next = c.next /\ d.todo = c.todo
    BY <1>1, MoveType
  <2>2. CASE Wake /\ Move(Monitor, "clear")
    BY <2>1, <2>2
  <2>3. CASE Move(Monitor, "ended")
    BY <2>1, <2>3
  <2>4. CASE Move(Monitor, "refresh")
    BY <2>1, <2>4
  <2> QED
    BY <2>2, <2>3, <2>4 DEF Wake, Clear
<1>9. c.pc \in {"wait", "clear"} /\ (Wake => c.pc = "wait")
  BY DEF Wake, Clear
<1>7. MonitorOK(d)
  BY <1>1, <1>6, <1>9 DEF MonitorOK
<1>8. ASSUME d.pc = "clear", Wake
      PROVE  /\ monitor.event => monitor'.event
             /\ \A n \in Members :
                  Down(n)' /\ ~Told(n) =>
                    monitor'.failed \/ n \in d.todo \union {d.at}
  <2>1. c.pc = "wait"
    BY <1>8 DEF Wake
  <2> QED
    BY <1>3, <1>5, <1>6, <1>8, <2>1, RefreshOf DEF RefreshInv
<1> QED
  BY <1>4, <1>5, <1>6, <1>7, <1>8, MonitorMoves

\* A new object is up; the other members stay as they are.
LEMMA NewMemberMade ==
  ASSUME RsRestOK, NEW p \in Procs, proc[p] \in Proc, NewMember(p)
  PROVE  /\ member' \in Tables /\ object' \in ObjectTables
         /\ \A n \in Members :
              Down(n)' => /\ Down(n) /\ member'[n] = member[n]
                          /\ n # proc[p].at
<1> DEFINE at == proc[p].at
<1>1. PICK k \in 1..MaxObjects :
        /\ member' = [member EXCEPT ![at] = k]
        /\ object' = Live([object EXCEPT ![at][k] = IsPrimary(at)])
  BY DEF NewMember, Unused
<1> DEFINE made == [object EXCEPT ![at][k] = IsPrimary(at)]
<1>2. member \in Tables /\ object \in ObjectTables
  BY DEF RsRestOK
<1>3. k \in Objects
  BY RsAssumption DEF Objects
<1>4. IsPrimary(at) \in MemberFields /\ IsPrimary(at).up
  BY DEF IsPrimary, MemberFields
<1>5. member' \in Tables
  BY <1>1, <1>2, <1>3 DEF Tables
<1>6. /\ made \in ObjectTables
      /\ \A n \in Members : n # at => made[n] = object[n]
      /\ at \in Members => made[at][k] = IsPrimary(at)
  BY <1>2, <1>4 DEF ObjectTables
<1> HIDE DEF made
<1>7. object' = Live(made)
  BY <1>1 DEF made
<1>8. /\ object' \in ObjectTables
      /\ \A n \in Members : member'[n] # 0 =>
           object'[n][member'[n]] = made[n][member'[n]]
  BY <1>5, <1>6, <1>7, LiveType
<1>9. \A n \in Members : n # at => member'[n] = member[n]
  BY <1>1, <1>2 DEF Tables
<1>10. at \in Members => member'[at] = k
  BY <1>1, <1>2 DEF Tables
<1>11. k # 0
  BY RsAssumption
<1>12. ASSUME NEW n \in Members, Down(n)'
       PROVE  Down(n) /\ member'[n] = member[n] /\ n # at
  <2>1. n # at
    BY <1>4, <1>6, <1>8, <1>10, <1>11, <1>12 DEF Down, Fields
  <2> QED
    BY <1>6, <1>8, <1>9, <1>12, <2>1 DEF Down, Fields
<1> QED
  BY <1>5, <1>8, <1>12

\* An answer marks the object that asked; another one may be in the table.
LEMMA AnswerMarked ==
  ASSUME RsRestOK, NEW at \in Hosts, NEW k \in Objects, k # 0, UNCHANGED member,
         object' = Live([object EXCEPT ![at][k] = IsPrimary(at)])
  PROVE  /\ object' \in ObjectTables
         /\ \A n \in Members :
              Down(n)' => Down(n) /\ (n = at => member[n] # k)
<1> DEFINE made == [object EXCEPT ![at][k] = IsPrimary(at)]
<1>1. member' \in Tables /\ object \in ObjectTables
  BY DEF RsRestOK
<1>2. IsPrimary(at) \in MemberFields /\ IsPrimary(at).up
  BY DEF IsPrimary, MemberFields
<1>3. k \in 1..MaxObjects
  BY RsAssumption DEF Objects
<1>4. made \in ObjectTables
  BY <1>1, <1>2 DEF ObjectTables
<1>8. \A n \in Members, j \in 1..MaxObjects :
        /\ n = at /\ j = k => made[n][j] = IsPrimary(at)
        /\ ~(n = at /\ j = k) => made[n][j] = object[n][j]
  BY <1>1, <1>2 DEF ObjectTables
<1>5. object' = Live(made)
  OBVIOUS
<1> HIDE DEF made
<1>6. /\ object' \in ObjectTables
      /\ \A n \in Members : member'[n] # 0 =>
           object'[n][member'[n]] = made[n][member'[n]]
  BY <1>1, <1>4, <1>5, LiveType
<1>7. \A n \in Members : member[n] # 0 => member[n] \in 1..MaxObjects
  BY RsAssumption DEF RsRestOK, Tables, Objects
<1>9. ASSUME NEW n \in Members, Down(n)'
      PROVE  Down(n) /\ (n = at => member[n] # k)
  <2>1. /\ member[n] # 0 /\ member'[n] = member[n]
        /\ member[n] \in 1..MaxObjects
        /\ ~made[n][member[n]].up
    BY <1>6, <1>7, <1>9 DEF Down, Fields
  <2>2. ~(n = at /\ member[n] = k)
    BY <1>2, <1>8, <2>1
  <2> QED
    BY <1>8, <2>1, <2>2 DEF Down, Fields
<1> QED
  BY <1>6, <1>9

\* What Ask leaves behind, whoever asks: a member that is down was down before,
\* and is not the one that was asked.
LEMMA Asked ==
  ASSUME RefreshInv, NEW p \in Procs, Ask(p)
  PROVE  /\ RsRestOK' /\ UNCHANGED monitor
         /\ \E d \in Proc :
              /\ Become(p, d) /\ d.pc = "update" /\ d.at = NoMember
              /\ d.todo = proc[p].todo /\ d.op = proc[p].op
              /\ d.next = proc[p].next
         /\ \A n \in Members :
              Down(n)' => /\ Down(n) /\ member'[n] = member[n]
                          /\ n = proc[p].at => member[n] # proc[p].k
<1> DEFINE c == proc[p]
           done == [c EXCEPT !.pc = "update", !.at = NoMember, !.k = 0]
           found == [done EXCEPT !.found =
                       IF c.at = replica.primary THEN c.at ELSE @]
<1>1. RsRestOK /\ c \in Proc /\ c.at \in Hosts /\ c.k \in Objects
  BY OfProc DEF Proc
<1>2. 0 \in Objects /\ NoMember \in Hosts
  BY RsAssumption DEF Objects, Hosts
<1>3. /\ done \in Proc /\ done.pc = "update" /\ done.at = NoMember
      /\ done.todo = c.todo /\ done.op = c.op /\ done.next = c.next
  BY <1>1, <1>2 DEF Proc
<1>4. /\ found \in Proc /\ found.pc = "update" /\ found.at = NoMember
      /\ found.todo = c.todo /\ found.op = c.op /\ found.next = c.next
  BY <1>1, <1>3 DEF Proc
<1>5. \E d \in {done, found} : Become(p, d)
  BY DEF Ask
<1> HIDE DEF done, found
<1>6. UNCHANGED <<writer, pinned, inRequest, monitor, replica>>
  BY DEF Ask
<1>7. /\ member' \in Tables /\ object' \in ObjectTables
      /\ \A n \in Members :
           Down(n)' => Down(n) /\ member'[n] = member[n]
                       /\ (n = c.at => member[n] # c.k)
  <2>1. CASE c.k = 0 /\ NewMember(p)
    BY <1>1, <2>1, NewMemberMade
  <2>2. CASE /\ c.k # 0 /\ UNCHANGED member
             /\ object' = Live([object EXCEPT ![c.at][c.k] = IsPrimary(c.at)])
    <3>1. member' \in Tables
      BY <1>1, <2>2 DEF RsRestOK
    <3> QED
      BY <1>1, <2>2, <3>1, AnswerMarked
  <2>3. CASE c.k = 0 /\ UNCHANGED member /\ SameObjects
    <3>1. /\ member' \in Tables
          /\ \A n \in Members : Down(n)' => Down(n) /\ member[n] # 0
      BY <1>1, <2>3, ObjectsKept DEF RsRestOK, Down
    <3>2. object' \in ObjectTables
      BY <1>1, <2>3, <3>1, ObjectsKept
    <3> QED
      BY <2>3, <3>1, <3>2
  <2>4. CASE member' = [member EXCEPT ![c.at] = 0] /\ SameObjects
    <3>1. /\ member' \in Tables
          /\ \A n \in Members :
               member'[n] = IF n = c.at THEN 0 ELSE member[n]
      BY <1>1, <1>2, <2>4 DEF RsRestOK, Tables
    <3>2. /\ object' \in ObjectTables
          /\ \A n \in Members :
               Down(n)' /\ member'[n] = member[n] => Down(n)
      BY <1>1, <2>4, <3>1, ObjectsKept
    <3>3. \A n \in Members : Down(n)' => n # c.at
      BY <3>1 DEF Down
    <3> QED
      BY <3>1, <3>2, <3>3
  <2> QED
    BY <2>1, <2>2, <2>3, <2>4 DEF Ask
<1>8. RsRestOK'
  BY <1>1, <1>6, <1>7 DEF RsRestOK
<1> QED
  BY <1>3, <1>4, <1>5, <1>6, <1>7, <1>8

LEMMA CheckSteps ==
  ASSUME RefreshInv, NEW t \in RsThreads, CheckIsPrimary(t)
  PROVE  RefreshInv'
<1> DEFINE c == proc[t]
           p == replica.primary
           goOn == [c EXCEPT !.pc = "candidate", !.at = NoMember, !.k = 0]
<1>1. RsRestOK /\ c \in Proc /\ t \in Procs /\ c.pc = "check" /\ p \in Hosts
  <2>1. RsRestOK /\ c \in Proc /\ t \in Procs
    BY OfProc DEF Procs
  <2> QED
    BY <2>1 DEF CheckIsPrimary, RsRestOK, Elections
<1>2. goOn \in Proc /\ goOn.pc = "candidate"
  <2>1. 0 \in Objects /\ NoMember \in Hosts
    BY RsAssumption DEF Objects, Hosts
  <2> QED
    BY <1>1, <2>1 DEF Proc
<1> HIDE DEF goOn
<1>3. writer' \in Hosts /\ \E d \in Proc : Become(t, d) /\ ThreadOK(d)
  <2>1. CASE writer' = p /\ (KeyError(t) \/ MemberFound(t))
    BY <1>1, <2>1, ThreadLeaves
  <2>2. CASE p # NoMember /\ LookUp(t, p, "check", c) /\ UNCHANGED writer
    <3>1. p \in Members
      BY <1>1, <2>2 DEF Hosts
    <3>2. \E d \in Proc : Become(t, d) /\ d.pc \in {"fetch", "check"} /\ d.at = p
      BY <1>1, <2>2, <3>1, LookUpType
    <3> QED
      BY <1>1, <2>2, <3>1, <3>2 DEF ThreadOK, RsRestOK
  <2>3. CASE Become(t, goOn) /\ UNCHANGED writer
    BY <1>1, <1>2, <2>3 DEF ThreadOK, RsRestOK
  <2> QED
    BY <2>1, <2>2, <2>3 DEF CheckIsPrimary, goOn
<1>4. /\ member' \in Tables /\ object' \in ObjectTables
      /\ \A n \in Members : Down(n)' => Down(n) /\ member'[n] = member[n]
  <2>1. CASE UNCHANGED member /\ SameObjects
    BY <1>1, <2>1, ObjectsKept DEF RsRestOK
  <2>2. CASE NewMember(t)
    BY <1>1, <2>2, NewMemberMade
  <2> QED
    BY <2>1, <2>2 DEF CheckIsPrimary
<1>5. UNCHANGED <<pinned, inRequest, monitor, replica>>
  BY DEF CheckIsPrimary
<1>6. RsRestOK'
  BY <1>1, <1>3, <1>4, <1>5 DEF RsRestOK
<1> QED
  BY <1>1, <1>3, <1>4, <1>5, <1>6, RsThreadMoves

\* The refresh of a thread that found the writer gone.
LEMMA ThreadRefreshes ==
  ASSUME RefreshInv, NEW t \in RsThreads, RefreshStep(t)
  PROVE  RefreshInv'
<1> DEFINE c == proc[t]
<1>1. RsRestOK /\ c \in Proc /\ ThreadOK(c) /\ t \in Procs /\ t # Monitor
  BY OfProc DEF Procs
<1>2. CASE Refresh(t)
  <2> DEFINE d == [c EXCEPT !.pc = "update", !.todo = Members]
  <2>1. d \in Proc /\ ThreadOK(d)
    BY <1>1 DEF Proc, ThreadOK
  <2>2. UNCHANGED monitor /\ \E e \in Proc : Become(t, e) /\ ThreadOK(e)
    BY <1>2, <2>1, ThreadLeaves DEF Refresh
  <2> QED
    BY <1>1, <1>2, <2>2, QuietThread DEF Refresh, RsRestOK
<1>3. CASE UpdateHost(t)
  <2>1. PICK n \in c.todo : LookUp(t, n, "ask", [c EXCEPT !.todo = @ \ {n}])
    BY <1>3 DEF UpdateHost
  <2>2. n \in Members /\ [c EXCEPT !.todo = @ \ {n}] \in Proc
    BY <1>1 DEF Proc
  <2>3. \E d \in Proc : Become(t, d) /\ d.pc \in {"fetch", "ask"} /\ d.at = n
    BY <1>1, <2>1, <2>2, LookUpType
  <2>4. \E d \in Proc : Become(t, d) /\ ThreadOK(d)
    BY <2>2, <2>3 DEF ThreadOK
  <2> QED
    BY <1>1, <1>3, <2>4, QuietThread DEF UpdateHost, RsRestOK
<1>4. CASE Fetch(t)
  <2> DEFINE d == [c EXCEPT !.pc = c.next, !.k = member[c.at]]
  <2>1. \E e \in Proc : Become(t, e) /\ ThreadOK(e)
    <3>1. CASE KeyError(t)
      BY <3>1, ThreadLeaves
    <3>2. CASE Become(t, d)
      <4>3. c.at \in Members
        BY <1>1, <1>4 DEF ThreadOK, Fetch
      <4>1. member[c.at] \in Objects /\ c.next \in {"ask", "check"}
        BY <1>1, <4>3 DEF RsRestOK, Tables, Proc
      <4>2. d \in Proc /\ d.pc \in {"ask", "check"}
        BY <1>1, <4>1 DEF Proc
      <4> QED
        BY <3>2, <4>2 DEF ThreadOK
    <3> QED
      BY <1>4, <3>1, <3>2 DEF Fetch
  <2> QED
    BY <1>1, <1>4, <2>1, QuietThread DEF Fetch, RsRestOK
<1>5. CASE Ask(t)
  <2>1. PICK d \in Proc : Become(t, d) /\ d.pc = "update"
    BY <1>1, <1>5, Asked
  <2>2. ThreadOK(d) /\ c.pc = "ask"
    BY <1>5, <2>1 DEF ThreadOK, Ask
  <2> QED
    BY <1>1, <1>5, <2>1, <2>2, Asked, RsThreadMoves
<1>6. CASE EndUpdate(t)
  <2> DEFINE d == [c EXCEPT !.pc = "candidate", !.todo = Members,
                            !.found = NoMember]
  <2>1. d \in Proc /\ ThreadOK(d)
    BY <1>1 DEF Proc, ThreadOK, Hosts
  <2>2. Become(t, d)
    BY <1>1, <1>6 DEF EndUpdate
  <2>3. c.found \in Hosts
    BY <1>1 DEF Proc
  <2>4. writer' \in Hosts /\ pinned' \in [RsThreads -> Hosts]
    BY <1>1, <1>6, <2>3 DEF EndUpdate, RsRestOK, Hosts
  <2> HIDE DEF d
  <2> QED
    BY <1>1, <1>6, <2>1, <2>2, <2>4, QuietThread DEF EndUpdate
<1> QED
  BY <1>2, <1>3, <1>4, <1>5, <1>6 DEF RefreshStep

\* The refresh of the monitor.
LEMMA MonitorRefreshes ==
  ASSUME RefreshInv, RefreshStep(Monitor)
  PROVE  RefreshInv'
<1> DEFINE c == proc[Monitor]
<1>1. RsRestOK /\ c \in Proc /\ MonitorOK(c) /\ Monitor \in Procs
  BY OfProc DEF Procs
<1>2. ASSUME NEW n \in Members, Down(n), ~Told(n), c.pc # "refresh", c.pc # "ended"
      PROVE  monitor.failed \/ n \in c.todo \union {c.at}
  BY <1>2, RefreshOf DEF RefreshInv
<1>3. \A n \in Members : n # NoMember
  BY DriverAssumption
<1>4. ASSUME SameObjects, UNCHANGED <<member, writer, pinned, inRequest, replica>>,
             monitor' \in Events
      PROVE  /\ RsRestOK'
             /\ \A n \in Members : Down(n)' => Down(n) /\ member'[n] = member[n]
  BY <1>1, <1>4, ObjectsKept DEF RsRestOK
<1>5. monitor \in Events
  BY <1>1 DEF RsRestOK
<1>6. CASE Refresh(Monitor)
  <2> DEFINE d == [c EXCEPT !.pc = "update", !.todo = Members]
  <2>1. c.pc = "refresh"
    BY <1>6 DEF Refresh
  <2>2. CASE Become(Monitor, d) /\ UNCHANGED monitor
    <3>1. /\ d \in Proc /\ d.pc = "update" /\ d.todo = Members /\ d.at = c.at
          /\ d.op = c.op /\ d.next = c.next
      BY <1>1 DEF Proc
    <3> HIDE DEF d
    <3>2. MonitorOK(d)
      BY <1>1, <2>1, <3>1 DEF MonitorOK
    <3> QED
      BY <1>4, <1>5, <1>6, <2>2, <3>1, <3>2, MonitorMoves DEF Refresh
  <2>3. CASE AutoReconnect(Monitor)
    <3>1. Become(Monitor, Ready(Monitor))
      BY <1>1, <2>3 DEF AutoReconnect, MonitorOK
    <3>2. /\ monitor' = [monitor EXCEPT !.failed = TRUE]
      BY <2>3 DEF AutoReconnect
    <3>3. /\ monitor' \in Events /\ monitor'.failed
          /\ monitor'.event = monitor.event
      BY <1>5, <3>2 DEF Events
    <3> QED
      BY <1>4, <1>6, <3>1, <3>3, ReadyType, MonitorMoves DEF Refresh
  <2> QED
    BY <1>6, <2>2, <2>3 DEF Refresh
<1>7. CASE UpdateHost(Monitor)
  <2>1. c.pc = "update" /\ c.at = NoMember
    BY <1>1, <1>7 DEF UpdateHost, MonitorOK
  <2> DEFINE e(n) == [c EXCEPT !.todo = @ \ {n}]
  <2>2. PICK n \in c.todo : LookUp(Monitor, n, "ask", e(n))
    BY <1>7 DEF UpdateHost
  <2>3. /\ n \in Members /\ e(n) \in Proc /\ e(n).todo = c.todo \ {n}
        /\ e(n).op = c.op
    BY <1>1 DEF Proc
  <2> HIDE DEF e
  <2>4. PICK d \in Proc :
          /\ Become(Monitor, d) /\ d.pc \in {"fetch", "ask"} /\ d.at = n
          /\ d.next = "ask" /\ d.todo = c.todo \ {n} /\ d.op = c.op
          /\ d.pc = "ask" => member[n] = 0
    BY <1>1, <2>2, <2>3, LookUpType
  <2>5. MonitorOK(d)
    BY <1>1, <2>3, <2>4 DEF MonitorOK
  <2>6. /\ RsRestOK' /\ UNCHANGED monitor
        /\ \A m \in Members : Down(m)' => Down(m) /\ member'[m] = member[m]
    BY <1>4, <1>5, <1>7 DEF UpdateHost
  <2>7. \A m \in Members : Down(m)' /\ ~Told(m) =>
          monitor'.failed \/ m \in d.todo \union {d.at}
    BY <1>2, <1>3, <2>1, <2>4, <2>6
  <2>8. d.pc = "ask" => ~Down(n)
    BY <2>4 DEF Down
  <2> QED
    BY <2>4, <2>5, <2>6, <2>7, <2>8, MonitorMoves
<1>8. CASE Fetch(Monitor)
  <2>1. c.pc = "fetch" /\ c.at \in Members /\ c.next = "ask"
    BY <1>1, <1>8 DEF Fetch, MonitorOK
  <2>2. /\ RsRestOK' /\ UNCHANGED monitor
        /\ \A m \in Members : Down(m)' => Down(m) /\ member'[m] = member[m]
    BY <1>4, <1>5, <1>8 DEF Fetch
  <2>3. CASE KeyError(Monitor)
    <3> DEFINE d == [Ready(Monitor) EXCEPT !.pc = "ended"]
    <3>1. d \in Proc /\ d.pc = "ended" /\ Become(Monitor, d)
      BY <2>3, ReadyType DEF KeyError, Proc
    <3>2. d.op = Ready(Monitor).op /\ d.next = Ready(Monitor).next
          /\ d.at = Ready(Monitor).at
      BY ReadyType DEF Proc
    <3>3. MonitorOK(d)
      BY <3>1, <3>2, ReadyType DEF MonitorOK
    <3> HIDE DEF d
    <3> QED
      BY <2>2, <3>1, <3>3, MonitorMoves
  <2>4. CASE Become(Monitor, [c EXCEPT !.pc = c.next, !.k = member[c.at]])
    <3> DEFINE d == [c EXCEPT !.pc = c.next, !.k = member[c.at]]
    <3>1. member[c.at] \in Objects
      BY <1>1, <2>1 DEF RsRestOK, Tables
    <3>2. /\ d \in Proc /\ d.pc = "ask" /\ d.at = c.at /\ d.k = member[c.at]
          /\ d.todo = c.todo /\ d.op = c.op /\ d.next = c.next
      BY <1>1, <2>1, <3>1 DEF Proc
    <3>3. Become(Monitor, d)
      BY <2>4
    <3> HIDE DEF d
    <3>4. MonitorOK(d)
      BY <1>1, <2>1, <3>2 DEF MonitorOK
    <3>5. \A m \in Members : Down(m)' /\ ~Told(m) =>
            monitor'.failed \/ m \in d.todo \union {d.at}
      BY <1>2, <2>1, <2>2, <3>2
    <3> QED
      BY <2>2, <3>2, <3>3, <3>4, <3>5, MonitorMoves
  <2> QED
    BY <1>8, <2>3, <2>4 DEF Fetch
<1>9. CASE Ask(Monitor)
  <2>1. c.pc = "ask" /\ c.at \in Members
    BY <1>1, <1>9 DEF Ask, MonitorOK
  <2>2. PICK d \in Proc :
          /\ Become(Monitor, d) /\ d.pc = "update" /\ d.at = NoMember
          /\ d.todo = c.todo /\ d.op = c.op /\ d.next = c.next
    BY <1>1, <1>9, Asked
  <2>3. /\ RsRestOK' /\ UNCHANGED monitor
        /\ \A n \in Members :
             Down(n)' => /\ Down(n) /\ member'[n] = member[n]
                         /\ n = c.at => member[n] # c.k
    BY <1>1, <1>9, Asked
  <2>4. MonitorOK(d)
    BY <1>1, <2>2 DEF MonitorOK
  <2>5. ASSUME NEW n \in Members, Down(n)', ~Told(n)
        PROVE  monitor'.failed \/ n \in d.todo \union {d.at}
    <3>1. CASE n = c.at
      BY <2>1, <2>3, <2>5, <3>1 DEF RefreshInv, AsksOther
    <3>2. CASE n # c.at
      BY <1>2, <2>1, <2>2, <2>3, <2>5, <3>2
    <3> QED
      BY <3>1, <3>2
  <2> QED
    BY <2>2, <2>3, <2>4, <2>5, MonitorMoves
<1>10. CASE EndUpdate(Monitor)
  <2>1. c.pc = "update" /\ c.todo = {} /\ c.at = NoMember /\ c.found \in Hosts
    BY <1>1, <1>10 DEF EndUpdate, MonitorOK, Proc
  <2>2. Become(Monitor, Ready(Monitor)) /\ UNCHANGED monitor
    BY <1>10 DEF EndUpdate
  <2>3. writer' \in Hosts /\ pinned' \in [RsThreads -> Hosts]
    BY <1>1, <1>10, <2>1 DEF EndUpdate, RsRestOK, Hosts
  <2>4. /\ object' \in ObjectTables
        /\ \A n \in Members : Down(n)' => Down(n) /\ member'[n] = member[n]
    BY <1>1, <1>10, ObjectsKept DEF EndUpdate, RsRestOK
  <2>5. RsRestOK'
    BY <1>1, <1>10, <2>3, <2>4 DEF EndUpdate, RsRestOK
  <2>6. \A n \in Members : Down(n)' /\ ~Told(n) => monitor'.failed
    BY <1>2, <1>3, <2>1, <2>2, <2>4
  <2> QED
    BY <2>2, <2>4, <2>5, <2>6, ReadyType, MonitorMoves
<1> QED
  BY <1>6, <1>7, <1>8, <1>9, <1>10 DEF RefreshStep

LEMMA RefreshInit ==
  ASSUME RsInit
  PROVE  RefreshInv
<1>1. PICK p \in Members :
        /\ member = [n \in Members |-> 1]
        /\ object = [n \in Members |-> [k \in 1..MaxObjects |->
             IF k = 1 THEN [is_primary |-> n = p, up |-> TRUE] ELSE NoFields]]
        /\ writer = p
        /\ pinned = [t \in RsThreads |-> NoMember]
        /\ inRequest = TRUE
        /\ monitor = [event |-> FALSE, stopped |-> FALSE, failed |-> FALSE]
        /\ proc = [q \in Procs |-> Ready(q)]
        /\ replica = [primary |-> p, elections |-> 0]
  BY DEF RsInit
<1>2. 1 \in Objects /\ 1 \in 1..MaxObjects /\ 0 \in 0..MaxElections /\ p \in Hosts
  BY RsAssumption DEF Objects, Hosts
<1>3. /\ \A n \in Members : [is_primary |-> n = p, up |-> TRUE] \in MemberFields
      /\ NoFields \in MemberFields
  BY DEF MemberFields, NoFields
<1>4. object \in ObjectTables
  BY <1>1, <1>3 DEF ObjectTables
<1>5. \A n \in Members : object[n][1].up
  BY <1>1, <1>2
<1>6. \A n \in Members : ~Down(n)
  BY <1>1, <1>5 DEF Down, Fields
<1>7. RsRestOK
  BY <1>1, <1>2, <1>4 DEF RsRestOK, Tables, Events, Elections, Hosts
<1>8. /\ proc \in [Procs -> Proc] /\ MonitorOK(proc[Monitor])
      /\ \A t \in RsThreads : ThreadOK(proc[t])
  BY <1>1, ReadyType DEF Procs, ThreadOK
<1> QED
  BY <1>6, <1>7, <1>8, RsTypes, RefreshOf DEF RefreshInv

LEMMA RefreshNext ==
  ASSUME RefreshInv, [RsNext]_rsVars
  PROVE  RefreshInv'
<1>1. ASSUME NEW t \in RsThreads, RsStep(t)
      PROVE  RefreshInv'
  BY <1>1, FindPrimarySteps, CandidateSteps, CheckSteps, SendSteps, SelectSteps,
     TrySteps, DownSteps, ScheduleSteps, RsRequestSteps DEF RsStep
<1>2. ASSUME NEW p \in Procs, RefreshStep(p)
      PROVE  RefreshInv'
  BY <1>2, ThreadRefreshes, MonitorRefreshes DEF Procs
<1>3. CASE UNCHANGED rsVars
  BY <1>3, RsTypes, RefreshOf DEF rsVars, RefreshInv, RsTypeOK, AsksOther, Down,
     Told, Fields, DownIsRefreshed
<1> QED
  BY <1>1, <1>2, <1>3, BeginSteps, ReadSteps, CursorReadSteps, MonitorSteps,
     CloseSteps, ElectionSteps DEF RsNext

\* RefreshInv always holds.
LEMMA RefreshInvariant == RsSpec => []RefreshInv
<1>1. RsInit => RefreshInv
  BY RefreshInit
<1>2. RefreshInv /\ [RsNext]_rsVars => RefreshInv'
  BY RefreshNext
<1> QED
  BY <1>1, <1>2, PTL DEF RsSpec

\* The table of members, their objects, the thread-local pins and the places of
\* the threads and of the monitor keep their types
\* (replica_set_connection.py:337).
THEOREM RsTypeCorrect == RsSpec => []RsTypeOK
<1>1. RefreshInv => RsTypeOK
  BY DEF RefreshInv
<1> QED
  BY <1>1, RefreshInvariant, PTL

\* For any number of threads, hosts and elections: a member that a thread has
\* found down is asked again (replica_set_connection.py:690, 1094).
THEOREM DownIsRefreshedCorrect == RsSpec => []DownIsRefreshed
<1>1. RefreshInv => DownIsRefreshed
  BY DEF RefreshInv
<1> QED
  BY <1>1, RefreshInvariant, PTL

----------------------------------------------------------------------------
(* Where a call goes. *)

\* What the last call of a method that writes leaves behind.
RoutingInv ==
  /\ RoutingTypeOK
  /\ sent.by = "collection" /\ sent.writes => sent.to = "primary"

LEMMA SettingKept ==
  ASSUME RoutingInv, NEW l \in Levels, NEW s \in Setting, SetLevel(l, s)
  PROVE  RoutingInv'
BY DEF SetLevel, RoutingInv, RoutingTypeOK

LEMMA LevelTypes ==
  /\ {"connection", "database", "collection"} \subseteq Levels
  /\ RoutingInv => \A l \in Levels : settings[l] \in Setting
BY DEF Levels, RoutingInv, RoutingTypeOK

\* A read preference that is set leads to servers of the set.
LEMMA Destination ==
  ASSUME NEW o \in Setting, NEW master \in BOOLEAN
  PROVE  /\ Destinations(o, master) \subseteq Roles
         /\ master => Destinations(o, master) = {"primary"}
         /\ class = "ReplicaSetConnection" /\ ~master =>
              /\ o.read_preference \in {"PRIMARY", "PRIMARY_PREFERRED"} =>
                   Destinations(o, master) = {"primary"}
              /\ o.read_preference \in {"SECONDARY", "SECONDARY_PREFERRED"} =>
                   Destinations(o, master) = {"secondary"}
<1>1. o.read_preference \in {"PRIMARY", "PRIMARY_PREFERRED", "SECONDARY",
                             "SECONDARY_PREFERRED", "NEAREST"}
  BY RoutingAssumption DEF Setting
<1> QED
  BY <1>1 DEF Destinations, Roles

\* What a query leaves behind.
LEMMA QueryGoes ==
  ASSUME RoutingInv, NEW by \in {"collection", "database"}, NEW writes \in BOOLEAN,
         NEW o \in Setting, NEW master \in BOOLEAN, Query(by, writes, o, master)
  PROVE  /\ RoutingTypeOK'
         /\ sent'.by = by /\ sent'.writes = writes
         /\ sent'.to \in Destinations(o, master)
         /\ o.read_preference # "PRIMARY" => sent'.slave_okay
         /\ o.slave_okay => sent'.slave_okay
<1>1. PICK to \in Destinations(o, master) :
        sent' = [by |-> by, writes |-> writes, to |-> to,
                 slave_okay |-> QueryOptions(o)]
  BY DEF Query
<1>2. to \in Roles
  BY Destination
<1>3. QueryOptions(o) \in BOOLEAN
  BY DEF QueryOptions, Setting
<1> QED
  BY <1>1, <1>2, <1>3 DEF Query, RoutingInv, RoutingTypeOK, QueryOptions

\* Reading as the collection prefers.
Preferred ==
  LET mode == settings["collection"].read_preference
  IN  /\ mode \in {"PRIMARY", "PRIMARY_PREFERRED"} => sent'.to = "primary"
      /\ mode \in {"SECONDARY", "SECONDARY_PREFERRED"} => sent'.to = "secondary"
      /\ sent'.to = "secondary" => sent'.slave_okay

LEMMA QueryKeepsInv ==
  ASSUME RoutingInv, NEW by \in {"collection", "database"}, NEW writes \in BOOLEAN,
         NEW o \in Setting, NEW master \in BOOLEAN, Query(by, writes, o, master),
         by = "collection" /\ writes => master
  PROVE  RoutingInv'
<1>1. /\ RoutingTypeOK' /\ sent'.by = by /\ sent'.writes = writes
      /\ sent'.to \in Destinations(o, master)
  BY QueryGoes
<1>2. master => sent'.to = "primary"
  BY <1>1, Destination
<1> QED
  BY <1>1, <1>2 DEF RoutingInv

LEMMA ReadGoes ==
  ASSUME RoutingInv, NEW o \in Setting, NEW master \in BOOLEAN,
         o.read_preference = settings["collection"].read_preference,
         master => o.read_preference = "PRIMARY",
         Query("collection", FALSE, o, master)
  PROVE  /\ RoutingInv' /\ ~sent'.writes
         /\ class = "ReplicaSetConnection" => Preferred
<1> DEFINE mode == o.read_preference
<1>1. /\ RoutingTypeOK' /\ sent'.by = "collection" /\ sent'.writes = FALSE
      /\ sent'.to \in Destinations(o, master)
      /\ mode # "PRIMARY" => sent'.slave_okay
  BY QueryGoes
<1>2. class = "ReplicaSetConnection" =>
        /\ mode \in {"PRIMARY", "PRIMARY_PREFERRED"} => sent'.to = "primary"
        /\ mode \in {"SECONDARY", "SECONDARY_PREFERRED"} => sent'.to = "secondary"
  BY <1>1, Destination
<1> QED
  BY <1>1, <1>2 DEF RoutingInv, Preferred

\* The methods of a collection that read.
Reads == Find \/ Aggregate \/ Group \/ Count \/ Distinct \/ InlineMapReduce
           \/ MapReduce(TRUE)

LEMMA ReadsGo ==
  ASSUME RoutingInv, Reads
  PROVE  /\ RoutingInv' /\ ~sent'.writes
         /\ class = "ReplicaSetConnection" => Preferred
<1> DEFINE o == settings["collection"]
           Goal == /\ RoutingInv' /\ ~sent'.writes
                   /\ class = "ReplicaSetConnection" => Preferred
<1>1. o \in Setting /\ settings["database"] \in Setting
  BY LevelTypes
<1>2. UseMaster(o) \in BOOLEAN /\ (UseMaster(o) => o.read_preference = "PRIMARY")
  BY <1>1 DEF UseMaster, Setting
<1>3. ASSUME NEW name \in SecondaryOk, NEW inline \in BOOLEAN,
             name = "mapreduce" => inline, NEW p \in Setting,
             NEW master \in BOOLEAN, master => o.read_preference = "PRIMARY",
             p.read_preference = o.read_preference,
             Command("collection", FALSE, name, name, inline, p, master)
      PROVE  Goal
  <2> DEFINE must == \/ master
                     \/ name \notin SecondaryOk
                     \/ name = "mapreduce" /\ ~inline
  <2>1. must \in BOOLEAN /\ (must => master)
    BY <1>3
  <2>2. Query("collection", FALSE, p, must)
    BY <1>3 DEF Command
  <2> HIDE DEF must
  <2> QED
    BY <1>3, <2>1, <2>2, ReadGoes
<1>4. CASE Find
  BY <1>1, <1>4, ReadGoes DEF Find
<1>5. ASSUME NEW name \in {"aggregate", "group", "count", "distinct"},
             ReadCommand(name)
      PROVE  Goal
  <2> DEFINE master == UseMaster(o)
             no == FALSE
  <2>1. name \in SecondaryOk /\ name # "mapreduce" /\ no \in BOOLEAN
    BY <1>5 DEF SecondaryOk
  <2>2. Command("collection", FALSE, name, name, no, o, master)
    BY <1>5 DEF ReadCommand
  <2>3. master \in BOOLEAN /\ (master => o.read_preference = "PRIMARY")
    BY <1>2
  <2> HIDE DEF master, no, o
  <2> QED
    BY <1>1, <1>3, <2>1, <2>2, <2>3
<1>6. CASE InlineMapReduce
  BY <1>1, <1>2, <1>3, <1>6 DEF InlineMapReduce, SecondaryOk
<1>7. CASE MapReduce(TRUE)
  <2> DEFINE p == [o EXCEPT !.slave_okay = settings["database"].slave_okay]
  <2>1. p \in Setting /\ p.read_preference = o.read_preference
    BY <1>1 DEF Setting
  <2>2. Command("collection", FALSE, "mapreduce", "mapreduce", TRUE, p, FALSE)
    BY <1>7 DEF MapReduce
  <2> HIDE DEF p
  <2> QED
    BY <1>3, <2>1, <2>2 DEF SecondaryOk
<1>8. CASE Aggregate
  BY <1>5, <1>8 DEF Aggregate
<1>9. CASE Group
  BY <1>5, <1>9 DEF Group
<1>10. CASE Count
  BY <1>5, <1>10 DEF Count
<1>11. CASE Distinct
  BY <1>5, <1>11 DEF Distinct
<1> QED
  BY <1>4, <1>6, <1>7, <1>8, <1>9, <1>10, <1>11 DEF Reads

\* The methods of a collection that write, and the commands of a database.
LEMMA OthersGo ==
  ASSUME RoutingInv,
         \/ MapReduce(FALSE) \/ FindAndModify
         \/ \E b \in BOOLEAN : UserCommand("mapReduce", "mapreduce", b)
         \/ UserCommand("dropIndexes", "dropindexes", TRUE)
         \/ UserCommand("collstats", "collstats", FALSE)
  PROVE  RoutingInv'
<1> DEFINE o == settings["collection"]
           d == settings["database"]
<1>1. o \in Setting /\ d \in Setting
  BY LevelTypes
<1>2. ASSUME NEW b \in BOOLEAN, NEW must \in BOOLEAN, Query("database", b, d, must)
      PROVE  RoutingInv'
  BY <1>1, <1>2, QueryKeepsInv
<1>3. CASE FindAndModify
  <2> DEFINE must == \/ FALSE
                     \/ "findandmodify" \notin SecondaryOk
                     \/ "findAndModify" = "mapreduce" /\ ~FALSE
  <2>1. must
    BY DEF SecondaryOk
  <2>2. Query("collection", TRUE, d, must) /\ must \in BOOLEAN
    BY <1>3 DEF FindAndModify, Command
  <2> HIDE DEF must
  <2> QED
    BY <1>1, <2>1, <2>2, QueryKeepsInv
<1>4. CASE MapReduce(FALSE)
  <2> DEFINE p == [o EXCEPT !.slave_okay = d.slave_okay]
             must == \/ ~FALSE
                     \/ "mapreduce" \notin SecondaryOk
                     \/ "mapreduce" = "mapreduce" /\ ~FALSE
  <2>1. p \in Setting
    BY <1>1 DEF Setting
  <2>2. Query("collection", ~FALSE, p, must) /\ must \in BOOLEAN /\ must
    BY <1>4 DEF MapReduce, Command
  <2> DEFINE writes == ~FALSE
  <2>3. writes \in BOOLEAN /\ Query("collection", writes, p, must)
    BY <2>2
  <2> HIDE DEF p, must, writes
  <2> QED
    BY <2>1, <2>2, <2>3, QueryKeepsInv
<1>5. CASE \E b \in BOOLEAN : UserCommand("mapReduce", "mapreduce", b)
  <2>1. PICK b \in BOOLEAN : UserCommand("mapReduce", "mapreduce", b)
    BY <1>5
  <2> DEFINE must == \/ FALSE
                     \/ "mapreduce" \notin SecondaryOk
                     \/ "mapReduce" = "mapreduce" /\ ~(~b)
  <2>2. must \in BOOLEAN
    OBVIOUS
  <2>3. Query("database", b, d, must)
    BY <2>1 DEF UserCommand, Command
  <2> HIDE DEF must
  <2> QED
    BY <1>2, <2>2, <2>3
<1>6. CASE UserCommand("dropIndexes", "dropindexes", TRUE)
  <2> DEFINE writes == TRUE
             must == \/ FALSE
                     \/ "dropindexes" \notin SecondaryOk
                     \/ "dropIndexes" = "mapreduce" /\ ~(~writes)
  <2>1. must \in BOOLEAN /\ writes \in BOOLEAN
    OBVIOUS
  <2>2. Query("database", writes, d, must)
    BY <1>6 DEF UserCommand, Command
  <2> HIDE DEF must, writes
  <2> QED
    BY <1>2, <2>1, <2>2
<1>7. CASE UserCommand("collstats", "collstats", FALSE)
  <2> DEFINE writes == FALSE
             must == \/ FALSE
                     \/ "collstats" \notin SecondaryOk
                     \/ "collstats" = "mapreduce" /\ ~(~writes)
  <2>1. must \in BOOLEAN /\ writes \in BOOLEAN
    OBVIOUS
  <2>2. Query("database", writes, d, must)
    BY <1>7 DEF UserCommand, Command
  <2> HIDE DEF must, writes
  <2> QED
    BY <1>2, <2>1, <2>2
<1> QED
  BY <1>3, <1>4, <1>5, <1>6, <1>7

\* The settings change, the last call stays as it was.
LEMMA SettingsChange ==
  ASSUME RoutingInv,
         \/ \E l \in Levels :
              \/ \E mode \in RoutingModes : SetReadPreference(l, mode)
              \/ \E b \in BOOLEAN : SetSlaveOkay(l, b)
         \/ GetDatabase \/ GetCollection
         \/ \E b \in BOOLEAN : RequestMs(b)
  PROVE  RoutingInv' /\ UNCHANGED sent
<1>1. \A l \in Levels : settings[l] \in Setting
  BY LevelTypes
<1>2. ASSUME NEW l \in Levels, NEW mode \in RoutingModes, SetReadPreference(l, mode)
      PROVE  RoutingInv' /\ UNCHANGED sent
  <2>1. [settings[l] EXCEPT !.read_preference = mode] \in Setting
    BY <1>1 DEF Setting
  <2> QED
    BY <1>2, <2>1, SettingKept DEF SetReadPreference, SetLevel
<1>3. ASSUME NEW l \in Levels, NEW b \in BOOLEAN, SetSlaveOkay(l, b)
      PROVE  RoutingInv' /\ UNCHANGED sent
  <2>1. [settings[l] EXCEPT !.slave_okay = b] \in Setting
    BY <1>1 DEF Setting
  <2> QED
    BY <1>3, <2>1, SettingKept DEF SetSlaveOkay, SetLevel
<1>4. ASSUME NEW l \in Levels, NEW from \in Levels, SetLevel(l, settings[from])
      PROVE  RoutingInv' /\ UNCHANGED sent
  BY <1>1, <1>4, SettingKept DEF SetLevel
<1>5. ASSUME NEW b \in BOOLEAN, RequestMs(b)
      PROVE  RoutingInv' /\ UNCHANGED sent
  BY <1>5 DEF RequestMs, RoutingInv, RoutingTypeOK
<1> QED
  BY <1>2, <1>3, <1>4, <1>5, LevelTypes DEF GetDatabase, GetCollection

LEMMA RoutingStart ==
  ASSUME RoutingInit
  PROVE  RoutingInv
<1>1. PICK mode \in RoutingModes :
        settings = [l \in Levels |-> [read_preference |-> mode, slave_okay |-> FALSE]]
  BY RoutingAssumption DEF RoutingInit
<1>2. settings \in [Levels -> Setting]
  BY <1>1 DEF Setting
<1> QED
  BY <1>2 DEF RoutingInit, RoutingInv, RoutingTypeOK, Nothing, Roles

\* A step of the specification: it keeps RoutingInv, and reads as preferred.
LEMMA RoutingStep ==
  ASSUME RoutingInv, [RoutingNext]_routingVars
  PROVE  /\ RoutingInv'
         /\ [WritesOnPrimary /\ ReadsAsPreferred]_routingVars
<1>1. CASE UNCHANGED routingVars
  BY <1>1 DEF routingVars, RoutingInv, RoutingTypeOK
<1>2. CASE RoutingNext
  <2>1. RoutingInv'
    <3>1. CASE Reads
      BY <3>1, ReadsGo
    <3>2. CASE ~Reads
      BY <1>2, <3>2, OthersGo, SettingsChange DEF RoutingNext, Reads
    <3> QED
      BY <3>1, <3>2
  <2>2. WritesOnPrimary
    BY <2>1 DEF WritesOnPrimary, RoutingInv
  <2>3. ReadsAsPreferred
    BY ReadsGo DEF ReadsAsPreferred, Reads, Preferred
  <2> QED
    BY <2>1, <2>2, <2>3
<1> QED
  BY <1>1, <1>2

LEMMA RoutingInvariant == RoutingSpec => []RoutingInv
<1>1. RoutingInit => RoutingInv
  BY RoutingStart
<1>2. RoutingInv /\ [RoutingNext]_routingVars => RoutingInv'
  BY RoutingStep
<1> QED
  BY <1>1, <1>2, PTL DEF RoutingSpec

\* The settings of the connection, the database and the collection, and the last
\* call, keep their types (common.py, database.py).
THEOREM RoutingTypeCorrect == RoutingSpec => []RoutingTypeOK
<1>1. RoutingInv => RoutingTypeOK
  BY DEF RoutingInv
<1> QED
  BY <1>1, RoutingInvariant, PTL

\* Whatever the settings of connection, database and collection: a method of a
\* collection that writes goes to the primary, one that reads goes where its own
\* read preference says (collection.py, database.py: command;
\* replica_set_connection.py and master_slave_connection.py:
\* _send_message_with_response).
THEOREM RoutedAsSetCorrect == RoutingSpec => RoutedAsSet
<1>1. RoutingInv /\ [RoutingNext]_routingVars
        => [WritesOnPrimary /\ ReadsAsPreferred]_routingVars
  BY RoutingStep
<1> QED
  BY <1>1, RoutingInvariant, PTL DEF RoutingSpec, RoutedAsSet

----------------------------------------------------------------------------
(* ObjectIds: the counter of a process and the ids it has given differ by   *)
(* as much as the numbers of the ids, but for full turns of the counter.    *)

Congruent(x, y) == \E k \in Int : x - y = k * IncMod

LEMMA RemainderCongruent ==
  ASSUME NEW x \in Int
  PROVE  Congruent(x, x % IncMod) /\ x % IncMod \in 0..(IncMod - 1)
<1>1. x % IncMod \in 0..(IncMod - 1)
  BY OidAssumption
<1>2. x = IncMod * (x \div IncMod) + (x % IncMod) /\ x \div IncMod \in Int
  BY OidAssumption
<1>3. x - (x % IncMod) = (x \div IncMod) * IncMod
  BY <1>1, <1>2, OidAssumption
<1> QED
  BY <1>1, <1>2, <1>3 DEF Congruent

LEMMA CongruentAdd ==
  ASSUME NEW w \in Int, NEW x \in Int, NEW y \in Int, NEW z \in Int,
         Congruent(w, x), Congruent(y, z)
  PROVE  Congruent(w + y, x + z)
<1>1. PICK k \in Int : w - x = k * IncMod
  BY DEF Congruent
<1>2. PICK l \in Int : y - z = l * IncMod
  BY DEF Congruent
<1>3. (w + y) - (x + z) = (k + l) * IncMod
  BY <1>1, <1>2, OidAssumption
<1> QED
  BY <1>3 DEF Congruent

LEMMA CongruentSymmetric ==
  ASSUME NEW x \in Int, NEW y \in Int, Congruent(x, y)
  PROVE  Congruent(y, x) /\ Congruent(-x, -y)
<1>1. PICK k \in Int : x - y = k * IncMod
  BY DEF Congruent
<1>2. y - x = (-k) * IncMod /\ (-x) - (-y) = (-k) * IncMod
  BY <1>1, OidAssumption
<1> QED
  BY <1>2 DEF Congruent

LEMMA CongruentSame ==
  ASSUME NEW x \in Int, NEW y \in Int, Congruent(x, y)
  PROVE  x % IncMod = y % IncMod
<1> DEFINE r == x % IncMod
           s == y % IncMod
<1>1. r \in 0..(IncMod - 1) /\ s \in 0..(IncMod - 1) /\ Congruent(x, r) /\ Congruent(y, s)
  BY RemainderCongruent
<1> HIDE DEF r, s
<1>2. Congruent(-r, -x) /\ Congruent(s, y)
  <2>1. Congruent(r, x) /\ Congruent(s, y)
    BY <1>1, CongruentSymmetric
  <2> QED
    BY <1>1, <2>1, CongruentSymmetric
<1>3. PICK k \in Int : x - y = k * IncMod
  BY DEF Congruent
<1>4. PICK l \in Int : x - r = l * IncMod
  BY <1>1 DEF Congruent
<1>5. PICK m \in Int : y - s = m * IncMod
  BY <1>1 DEF Congruent
<1> DEFINE n == (k + m) - l
<1>6. n \in Int /\ r - s = n * IncMod
  BY <1>1, <1>3, <1>4, <1>5, OidAssumption
<1> HIDE DEF n
<1>7. CASE n = 0
  BY <1>1, <1>6, <1>7, OidAssumption DEF r, s
<1>8. CASE n >= 1
  <2>1. n * IncMod >= IncMod
    BY <1>6, <1>8, OidAssumption
  <2> QED
    BY <1>1, <1>6, <2>1, OidAssumption
<1>9. CASE n <= -1
  <2>1. (-n) * IncMod >= IncMod
    BY <1>6, <1>9, OidAssumption
  <2>2. (-n) * IncMod = s - r
    BY <1>1, <1>6, OidAssumption
  <2> QED
    BY <1>1, <2>1, <2>2, OidAssumption
<1> QED
  BY <1>6, <1>7, <1>8, <1>9

----------------------------------------------------------------------------
Generated(a) ==
  LET p == process[a.by]
  IN  /\ p.started
      /\ a.pid = a.by % PidMod
      /\ a.nth < p.count
      /\ Congruent(p.inc - a.inc, p.count - a.nth)

OidInv ==
  /\ OidTypeOK
  /\ \A p \in Pids, t \in Threads :
       making[<<p, t>>] # NoTime => process[p].started
  /\ \A a \in oids : Generated(a)

Oid == [time : 0..MaxTime, pid : 0..(PidMod - 1), inc : 0..IncMod, by : Pids,
        nth : 0..MaxOids]
Counter == [started : BOOLEAN, inc : 0..IncMod, count : 0..MaxOids]

LEMMA OidTypes ==
  OidTypeOK <=> /\ clock \in 0..MaxTime
                /\ process \in [Pids -> Counter]
                /\ making \in [Pids \X Threads -> 0..NoTime]
                /\ oids \subseteq Oid
BY DEF OidTypeOK, Oid, Counter

LEMMA OidInitially == OidInit => OidInv
<1> SUFFICES ASSUME OidInit PROVE OidInv
  OBVIOUS
<1>1. PICK first \in Pids, inc \in 0..IncMod :
        process = [p \in Pids |-> [started |-> p = first, inc |-> inc, count |-> 0]]
  BY DEF OidInit
<1>2. process \in [Pids -> Counter]
  BY <1>1, OidAssumption DEF Counter
<1>3. OidTypeOK
  BY <1>2, OidTypes, OidAssumption DEF OidInit, NoTime
<1> QED
  BY <1>3 DEF OidInit, OidInv

LEMMA ReadTimeKeeps ==
  ASSUME OidInv, NEW p \in Pids, NEW t \in Threads, ReadTime(p, t)
  PROVE  OidInv'
<1>1. OidTypeOK'
  BY OidTypes, OidAssumption DEF OidInv, OidTypeOK, ReadTime, NoTime
<1>2. (\A q \in Pids, u \in Threads :
         making[<<q, u>>] # NoTime => process[q].started)'
  BY OidTypes DEF OidInv, ReadTime, NoTime
<1>3. (\A a \in oids : Generated(a))'
  BY DEF OidInv, ReadTime, Generated
<1> QED
  BY <1>1, <1>2, <1>3 DEF OidInv

LEMMA TakeIncKeeps ==
  ASSUME OidInv, NEW p \in Pids, NEW t \in Threads, TakeInc(p, t)
  PROVE  OidInv'
<1> DEFINE old == process[p]
           new == [old EXCEPT !.inc = (@ + 1) % IncMod, !.count = @ + 1]
<1>1. /\ process \in [Pids -> Counter] /\ oids \subseteq Oid
      /\ making \in [Pids \X Threads -> 0..NoTime] /\ clock \in 0..MaxTime
      /\ making[<<p, t>>] \in 0..NoTime /\ making[<<p, t>>] # NoTime
      /\ old.started
  BY OidTypes DEF OidInv, TakeInc
<1>2. old \in Counter /\ old.inc \in 0..IncMod /\ old.count \in 0..MaxOids
      /\ old.count < MaxOids
  BY <1>1 DEF Counter, TakeInc
<1>3. (old.inc + 1) % IncMod \in 0..(IncMod - 1)
      /\ Congruent(old.inc + 1, (old.inc + 1) % IncMod)
  BY <1>2, RemainderCongruent, OidAssumption
<1>4. /\ new \in Counter /\ new.started = old.started
      /\ new.inc = (old.inc + 1) % IncMod /\ new.count = old.count + 1
  <2>1. (old.inc + 1) % IncMod \in 0..IncMod /\ old.count + 1 \in 0..MaxOids
    BY <1>2, <1>3, OidAssumption
  <2>2. old \in Counter
    BY <1>2
  <2> HIDE DEF old
  <2> QED
    BY <2>1, <2>2 DEF Counter
<1>5. PICK id \in Oid :
        /\ id = [time |-> making[<<p, t>>], pid |-> p % PidMod, inc |-> old.inc,
                 by |-> p, nth |-> old.count]
        /\ id.by = p /\ id.inc = old.inc /\ id.nth = old.count /\ id.pid = p % PidMod
  <2> DEFINE time == making[<<p, t>>]
             pid == p % PidMod
             id == [time |-> time, pid |-> pid, inc |-> old.inc, by |-> p,
                    nth |-> old.count]
  <2>1. time \in 0..MaxTime
    BY <1>1, OidAssumption DEF NoTime
  <2>2. pid \in 0..(PidMod - 1)
    BY OidAssumption
  <2>3. old.inc \in 0..IncMod /\ old.count \in 0..MaxOids
    BY <1>2
  <2> HIDE DEF time, pid, old
  <2>4. id \in Oid
    BY <2>1, <2>2, <2>3 DEF Oid
  <2> QED
    BY <2>4 DEF time, pid
<1>6. /\ process' = [process EXCEPT ![p] = new] /\ oids' = oids \union {id}
      /\ making' = [making EXCEPT ![<<p, t>>] = NoTime] /\ clock' = clock
  BY <1>5 DEF TakeInc
<1> HIDE DEF old, new
<1>7. OidTypeOK'
  BY <1>1, <1>4, <1>5, <1>6, OidTypes, OidAssumption DEF OidTypeOK, Oid, Counter, NoTime
<1>8. /\ process'[p] = new
      /\ \A q \in Pids : q # p => process'[q] = process[q]
  BY <1>1, <1>6
<1>9. (\A q \in Pids, u \in Threads :
         making[<<q, u>>] # NoTime => process[q].started)'
  BY <1>1, <1>4, <1>6, <1>8 DEF OidInv, NoTime, old
<1>10. ASSUME NEW a \in oids
       PROVE  Generated(a)'
  <2>1. a \in Oid /\ Generated(a) /\ a.by \in Pids /\ a.inc \in 0..IncMod /\ a.nth \in 0..MaxOids
    BY <1>1 DEF OidInv, Oid
  <2>2. CASE a.by # p
    BY <2>1, <2>2, <1>8 DEF Generated
  <2>3. CASE a.by = p
    <3>1. Congruent(old.inc - a.inc, old.count - a.nth) /\ a.nth < old.count
      BY <2>1, <2>3 DEF Generated, old
    <3>2. Congruent((old.inc + 1) % IncMod, old.inc + 1)
      BY <1>2, <1>3, CongruentSymmetric, OidAssumption
    <3> DEFINE w == (old.inc + 1) % IncMod
    <3>3. w \in Int
      BY <1>3, OidAssumption
    <3> HIDE DEF w
    <3>4. PICK k \in Int : w - (old.inc + 1) = k * IncMod
      BY <3>2 DEF Congruent, w
    <3>5. PICK l \in Int : (old.inc - a.inc) - (old.count - a.nth) = l * IncMod
      BY <3>1 DEF Congruent
    <3>6. (w - a.inc) - ((old.count + 1) - a.nth) = (k + l) * IncMod
      BY <3>3, <3>4, <3>5, <2>1, <1>2, OidAssumption
    <3>7. Congruent(w - a.inc, (old.count + 1) - a.nth)
      BY <3>6 DEF Congruent
    <3>8. Congruent(new.inc - a.inc, new.count - a.nth)
      BY <3>7, <1>4 DEF w
    <3>9. a.nth < new.count
      BY <3>1, <2>1, <1>2, <1>4
    <3> QED
      BY <2>1, <2>3, <3>8, <3>9, <1>1, <1>4, <1>8 DEF Generated
  <2> QED
    BY <2>2, <2>3
<1>11. Generated(id)'
  <2>1. Congruent(new.inc - old.inc, new.count - old.count)
    <3> DEFINE w == (old.inc + 1) % IncMod
    <3>1. w \in Int /\ Congruent(old.inc + 1, w)
      BY <1>3, OidAssumption
    <3> HIDE DEF w
    <3>2. PICK k \in Int : (old.inc + 1) - w = k * IncMod
      BY <3>1 DEF Congruent
    <3>3. (w - old.inc) - ((old.count + 1) - old.count) = (-k) * IncMod
      BY <3>1, <3>2, <1>2, OidAssumption
    <3>4. Congruent(w - old.inc, (old.count + 1) - old.count)
      BY <3>3 DEF Congruent
    <3> QED
      BY <3>4, <1>4 DEF w
  <2>2. old.count < new.count
    BY <1>2, <1>4
  <2> QED
    BY <2>1, <2>2, <1>1, <1>4, <1>5, <1>8 DEF Generated
<1>12. (\A a \in oids : Generated(a))'
  BY <1>6, <1>10, <1>11
<1> QED
  BY <1>7, <1>9, <1>12 DEF OidInv

LEMMA ForkKeeps ==
  ASSUME OidInv, NEW p \in Pids, NEW q \in Pids, ForkProcess(p, q)
  PROVE  OidInv'
<1> DEFINE new == [process[q] EXCEPT !.started = TRUE, !.inc = process[p].inc]
<1>1. process \in [Pids -> Counter] /\ oids \subseteq Oid
  BY OidTypes DEF OidInv
<1>2. new \in Counter /\ new.started
  BY <1>1 DEF Counter
<1>3. process' = [process EXCEPT ![q] = new] /\ UNCHANGED <<clock, making, oids>>
      /\ ~process[q].started
  BY DEF ForkProcess
<1> HIDE DEF new
<1>4. process' \in [Pids -> Counter] /\ process'[q] = new
      /\ \A r \in Pids : r # q => process'[r] = process[r]
  BY <1>1, <1>2, <1>3
<1>5. OidTypeOK'
  BY <1>3, <1>4 DEF OidInv, OidTypeOK, Counter
<1>6. (\A r \in Pids, u \in Threads :
         making[<<r, u>>] # NoTime => process[r].started)'
  BY <1>2, <1>3, <1>4 DEF OidInv, NoTime
<1>7. (\A a \in oids : Generated(a))'
  <2> SUFFICES ASSUME NEW a \in oids PROVE Generated(a)'
    BY <1>3
  <2>1. Generated(a) /\ a.by \in Pids
    BY <1>1 DEF OidInv, Oid
  <2>2. a.by # q
    BY <2>1, <1>3 DEF Generated
  <2> QED
    BY <2>1, <2>2, <1>4 DEF Generated
<1> QED
  BY <1>5, <1>6, <1>7 DEF OidInv

LEMMA OidInvariant == OidSpec => []OidInv
<1>1. OidInit => OidInv
  BY OidInitially
<1>2. OidInv /\ [OidNext]_oidVars => OidInv'
  <2> SUFFICES ASSUME OidInv, [OidNext]_oidVars PROVE OidInv'
    OBVIOUS
  <2>1. ASSUME NEW p \in Pids, NEW t \in Threads, ReadTime(p, t)
        PROVE  OidInv'
    BY <2>1, ReadTimeKeeps
  <2>2. ASSUME NEW p \in Pids, NEW t \in Threads, TakeInc(p, t)
        PROVE  OidInv'
    BY <2>2, TakeIncKeeps
  <2>3. ASSUME NEW p \in Pids, NEW q \in Pids, ForkProcess(p, q)
        PROVE  OidInv'
    BY <2>3, ForkKeeps
  <2>4. ASSUME NEW s \in 0..MaxTime, Tick(s)
        PROVE  OidInv'
    BY <2>4 DEF OidInv, OidTypeOK, Generated, Tick, NoTime
  <2>5. CASE UNCHANGED oidVars
    BY <2>5 DEF OidInv, OidTypeOK, Generated, NoTime, oidVars
  <2> QED
    BY <2>1, <2>2, <2>3, <2>4, <2>5 DEF OidNext
<1> QED
  BY <1>1, <1>2, PTL DEF OidSpec

\* An id is not generated twice.
LEMMA OidInvUnique == OidInv => OidsUnique
<1> SUFFICES ASSUME OidInv, NEW a \in oids, NEW b \in oids, SameOid(a, b)
             PROVE  IF a.by = b.by THEN a.nth % IncMod = b.nth % IncMod
                                   ELSE a.by % PidMod = b.by % PidMod
  BY DEF OidsUnique
<1>1. /\ Generated(a) /\ Generated(b) /\ process[a.by] \in Counter
      /\ a.inc \in 0..IncMod /\ a.nth \in 0..MaxOids /\ b.nth \in 0..MaxOids
  BY OidTypes DEF OidInv, Oid
<1>2. CASE a.by = b.by
  <2> DEFINE c == process[a.by].count
             d == process[a.by].inc
  <2>1. c \in Int /\ d \in Int /\ Congruent(d - a.inc, c - a.nth) /\ Congruent(d - a.inc, c - b.nth)
    BY <1>1, <1>2, OidAssumption DEF Generated, SameOid, Counter
  <2> HIDE DEF c, d
  <2>2. PICK k \in Int : (d - a.inc) - (c - a.nth) = k * IncMod
    BY <2>1 DEF Congruent
  <2>3. PICK l \in Int : (d - a.inc) - (c - b.nth) = l * IncMod
    BY <2>1 DEF Congruent
  <2>4. a.nth - b.nth = (k + (-l)) * IncMod
    BY <1>1, <2>1, <2>2, <2>3, OidAssumption
  <2>5. Congruent(a.nth, b.nth)
    BY <2>4 DEF Congruent
  <2> QED
    BY <1>1, <1>2, <2>5, CongruentSame, OidAssumption
<1>3. CASE a.by # b.by
  BY <1>1, <1>3 DEF Generated, SameOid
<1> QED
  BY <1>2, <1>3

LEMMA OidsUniqueCorrect == OidSpec => []OidsUnique
BY OidInvariant, OidInvUnique, PTL

\* The clock, the counters of the processes and the ids keep their types
\* (bson/objectid.py: __generate).
THEOREM OidTypeCorrect == OidSpec => []OidTypeOK
<1>1. OidInv => OidTypeOK
  BY DEF OidInv
<1> QED
  BY <1>1, OidInvariant, PTL

\* For any number of processes and threads, and any counter: no document is
\* stored twice because an insertion is repeated, and no ObjectId is given twice
\* but after a full turn of the counter or by processes whose pids differ by
\* PidMod (collection.py: insert, save; bson/objectid.py: __generate).
THEOREM IdsUniqueCorrect == CollectionSpec /\ OidSpec => []IdsUnique
<1>1. StoredOnce /\ OidsUnique => IdsUnique
  BY DEF IdsUnique
<1> QED
  BY <1>1, StoredOnceCorrect, OidsUniqueCorrect, PTL

----------------------------------------------------------------------------
(* Cursor: CursorInv says how what the user has got, what is in data, and  *)
(* what the server still has make up what skip and limit ask for.          *)

CursorFields ==
  [skip : Nat, limit : Int, batch_size : Nat, empty : BOOLEAN,
   id : {None, 0} \union Ids, conn : Members \union {NoMember},
   retrieved : Nat, killed : BOOLEAN, full : BOOLEAN, next : Nat, count : Nat]
ServerCursors ==
  [state : {"unused", "open", "gone"}, pos : Nat,
   host : Members \union {NoMember}]

LEMMA CursorTypes ==
  CursorTypeOK <=>
    /\ cur \in CursorFields /\ server \in [Ids -> ServerCursors]
    /\ kind \in {"Connection", "BatchCursorManager", "ReplicaSetConnection"}
    /\ primary \in Members \union {NoMember}
    /\ dying \subseteq Ids /\ cut \in BOOLEAN /\ abandoned \subseteq Ids
BY DEF CursorTypeOK, CursorFields, ServerCursors

LEMMA IdsAreNumbers ==
  /\ Ids \subseteq Nat \ {0} /\ None \in Int /\ None \notin Ids /\ None # 0
  /\ 0 \notin Ids /\ \A i \in Ids : i > 0
BY CursorAssumption DEF Ids, None

\* Window, of any fields.
WindowOf(c) ==
  IF c.empty THEN 0
  ELSE IF c.limit = 0 THEN Remaining(c.skip)
       ELSE Least(Magnitude(c.limit), Remaining(c.skip))

\* What holds between a cursor c of the user, who has got g, whether it was cut
\* short, and the cursors s of the servers.
Ordered(c, g) ==
  /\ c.id # None => c.next = c.skip + Len(g) + 1
  /\ Len(g) + c.count = c.retrieved
  /\ \A i \in 1..Len(g) : g[i] = c.skip + i

Begun(c, g, short) ==
  /\ c.batch_size # 1
  /\ c.empty => c.id = None
  /\ c.id = None => /\ c.retrieved = 0 /\ ~c.full /\ g = <<>>
                    /\ c.killed => short
  /\ c.limit < 0 => c.id \notin Ids
  /\ c.full => c.id \in Ids /\ 0 < c.limit /\ c.limit <= c.retrieved

InStep(c, s) ==
  c.id \in Ids /\ ~c.killed /\ s[c.id].state = "open" =>
    s[c.id].pos = c.skip + c.retrieved

Within(c) ==
  /\ c.retrieved <= WindowOf(c)
  /\ c.id = 0 \/ c.killed => c.retrieved = WindowOf(c)
  /\ c.id \in Ids /\ ~c.killed /\ ~c.full /\ 0 < c.limit => c.retrieved < c.limit

Fetching(c, g, short, s) ==
  /\ Ordered(c, g) /\ Begun(c, g, short) /\ InStep(c, s)
  /\ ~short => Within(c)

CursorInv ==
  /\ CursorTypeOK /\ got \in Seq(Nat)
  /\ Fetching(cur, got, cut, server)

LEMMA RemainingIsNat == ASSUME NEW pos \in Nat PROVE Remaining(pos) \in Nat
BY CursorAssumption DEF Remaining

LEMMA WindowIsNat == ASSUME NEW c \in CursorFields PROVE WindowOf(c) \in Nat
<1>1. c.skip \in Nat /\ c.limit \in Int
  BY DEF CursorFields
<1>2. Remaining(c.skip) \in Nat
  BY <1>1, RemainingIsNat
<1> QED
  BY <1>1, <1>2 DEF WindowOf, Least, Magnitude

\* A cursor that is not evaluated.
LEMMA UnevaluatedIsFine ==
  ASSUME NEW c \in CursorFields, c.batch_size # 1, c.id = None, c.retrieved = 0,
         c.count = 0, ~c.full, NEW short, c.killed => short, NEW s
  PROVE  Fetching(c, <<>>, short, s)
<1>1. None \notin Ids /\ None # 0
  BY IdsAreNumbers
<1>2. WindowOf(c) \in Nat
  BY WindowIsNat
<1>3. Ordered(c, <<>>)
  BY DEF Ordered
<1>4. Begun(c, <<>>, short) /\ InStep(c, s)
  BY <1>1 DEF Begun, InStep
<1>5. ~short => Within(c)
  BY <1>1, <1>2 DEF Within
<1> QED
  BY <1>3, <1>4, <1>5 DEF Fetching

LEMMA ReplyFields ==
  ASSUME NEW pos \in Nat, NEW n \in Int, NEW query \in BOOLEAN,
         NEW r \in Replies(pos, n, query)
  PROVE  /\ r.count \in Nat /\ r.open \in BOOLEAN /\ r.count <= Remaining(pos)
         /\ n # 0 => r.count <= Magnitude(n)
         /\ IF n < 0 \/ (query /\ n = 1)
            THEN ~r.open /\ r.count = Least(Magnitude(n), Remaining(pos))
            ELSE ~r.open => r.count = Remaining(pos)
<1> DEFINE rest == Remaining(pos)
           most == IF n = 0 THEN rest ELSE Least(Magnitude(n), rest)
<1>1. rest \in Nat
  BY RemainingIsNat
<1>2. most \in Nat /\ most <= rest /\ (n # 0 => most <= Magnitude(n))
  BY <1>1 DEF Least, Magnitude
<1>3. CASE n < 0 \/ (query /\ n = 1)
  <2>1. r = [count |-> most, open |-> FALSE]
    BY <1>3 DEF Replies
  <2>2. n # 0
    BY <1>3
  <2> QED
    BY <1>2, <1>3, <2>1, <2>2
<1>4. CASE ~(n < 0 \/ (query /\ n = 1))
  <2>1. /\ r \in [count : 0..most, open : BOOLEAN]
        /\ r.count < rest => r.open
    BY <1>4 DEF Replies
  <2> HIDE DEF most, rest
  <2>2. r.count \in 0..most /\ r.open \in BOOLEAN
    BY <2>1
  <2>3. r.count \in Nat /\ r.count <= rest /\ (n # 0 => r.count <= Magnitude(n))
    <3> DEFINE m == Magnitude(n)
    <3>1. m \in Nat
      BY DEF Magnitude
    <3> HIDE DEF m
    <3> QED
      BY <1>1, <1>2, <2>2, <3>1 DEF m
  <2>4. ~r.open => r.count = rest
    BY <1>1, <2>1, <2>2, <2>3
  <2> QED
    BY <1>4, <2>2, <2>3, <2>4 DEF rest
<1> QED
  BY <1>3, <1>4

LEMMA RemainingAfter ==
  ASSUME NEW pos \in Nat, NEW k \in Nat, k <= Remaining(pos)
  PROVE  k + Remaining(pos + k) = Remaining(pos)
<1>1. CASE pos < Docs
  BY <1>1, CursorAssumption DEF Remaining
<1>2. CASE ~(pos < Docs)
  BY <1>2, CursorAssumption DEF Remaining
<1> QED
  BY <1>1, <1>2

\* __send_message: c is the cursor with the new batch, s the servers' cursors.
LEMMA FilledKeeps ==
  ASSUME CursorInv, Refreshes, NEW i \in Ids, NEW query \in BOOLEAN,
         IF query THEN cur.id = None ELSE cur.id = i,
         NEW pos \in Nat, pos = cur.skip + cur.retrieved,
         NEW n \in Int, n = Requested(cur.limit - cur.retrieved),
         NEW r \in Replies(pos, n, query),
         NEW host \in Members \union {NoMember},
         NEW s, s[i].pos = pos + r.count
  PROVE  /\ Filled(i, pos, host, r) \in CursorFields
         /\ Fetching(Filled(i, pos, host, r), got, cut, s)
<1> DEFINE R == cur.retrieved
           L == cur.limit
           S == cur.skip
           new == Filled(i, pos, host, r)
<1>1. /\ cur \in CursorFields /\ Fetching(cur, got, cut, server) /\ got \in Seq(Nat)
      /\ L \in Int /\ S \in Nat /\ R \in Nat /\ cur.batch_size \in Nat /\ cur.count = 0
      /\ ~cur.empty /\ ~cur.full /\ ~cur.killed /\ cur.batch_size # 1
  BY CursorTypes DEF CursorInv, Refreshes, CursorFields, Fetching, Begun
<1>2. /\ r.count \in Nat /\ r.open \in BOOLEAN /\ r.count <= Remaining(pos)
      /\ n # 0 => r.count <= Magnitude(n)
      /\ IF n < 0 \/ (query /\ n = 1)
         THEN ~r.open /\ r.count = Least(Magnitude(n), Remaining(pos))
         ELSE ~r.open => r.count = Remaining(pos)
  BY ReplyFields
<1>3. i # 0 /\ i # None /\ None # 0 /\ 0 \notin Ids /\ cur.id # 0 /\ i \in Nat
  BY IdsAreNumbers
<1> DEFINE middle == [cur EXCEPT
             !.id = IF r.open THEN i ELSE 0,
             !.conn = IF kind = "ReplicaSetConnection" THEN host ELSE NoMember,
             !.retrieved = @ + r.count, !.next = pos + 1, !.count = r.count]
<1>4. /\ middle \in CursorFields
      /\ middle.id = (IF r.open THEN i ELSE 0)
      /\ middle.retrieved = R + r.count /\ middle.next = pos + 1
      /\ middle.count = r.count
      /\ middle.limit = L /\ middle.skip = S /\ middle.batch_size = cur.batch_size
      /\ middle.empty = cur.empty
  <2> DEFINE id == IF r.open THEN i ELSE 0
             at == IF kind = "ReplicaSetConnection" THEN host ELSE NoMember
             more == cur.retrieved + r.count
  <2>1. id \in {None, 0} \union Ids /\ at \in Members \union {NoMember}
        /\ more \in Nat /\ pos + 1 \in Nat /\ r.count \in Nat
    BY <1>1, <1>2
  <2> HIDE DEF id, at
  <2>2. /\ [cur EXCEPT !.id = id, !.conn = at, !.retrieved = more, !.next = pos + 1,
                       !.count = r.count] = middle
    BY DEF id, at
  <2> HIDE DEF middle, more
  <2>3. cur \in CursorFields
    BY <1>1
  <2>4. middle \in CursorFields /\ middle.id = id /\ middle.retrieved = more
        /\ middle.next = pos + 1 /\ middle.count = r.count
        /\ middle.limit = L /\ middle.skip = S /\ middle.batch_size = cur.batch_size
        /\ middle.empty = cur.empty
    BY <2>1, <2>2, <2>3 DEF CursorFields
  <2> QED
    BY <2>4 DEF more, id
<1> DEFINE filled == middle.limit # 0 /\ r.open /\ middle.limit <= middle.retrieved
           dead == middle.killed \/ (cur.id = None /\ ~r.open)
<1>5. /\ new = [middle EXCEPT !.full = filled, !.killed = dead]
      /\ middle.killed = cur.killed
  BY <1>1 DEF Filled, CursorFields
<1>6. filled \in BOOLEAN /\ dead \in BOOLEAN
  BY <1>2
<1>7. /\ filled <=> L # 0 /\ r.open /\ L <= R + r.count
      /\ dead <=> query /\ ~r.open
  BY <1>1, <1>3, <1>4, <1>5
<1> HIDE DEF middle, filled, dead, new
<1>8. /\ new \in CursorFields /\ new.id = (IF r.open THEN i ELSE 0)
      /\ new.retrieved = R + r.count /\ new.next = pos + 1 /\ new.count = r.count
      /\ new.limit = L /\ new.skip = S /\ new.batch_size = cur.batch_size
      /\ new.empty = cur.empty /\ new.full = filled /\ new.killed = dead
  BY <1>4, <1>5, <1>6 DEF CursorFields
<1>9. Len(got) = R /\ \A j \in 1..Len(got) : got[j] = S + j
  BY <1>1 DEF Fetching, Ordered
<1>10. Ordered(new, got)
  BY <1>1, <1>2, <1>8, <1>9 DEF Ordered
<1>11. ~cut => /\ R + r.count <= WindowOf(cur) /\ (~r.open => R + r.count = WindowOf(cur))
  <2> SUFFICES ASSUME ~cut
               PROVE  /\ R + r.count <= WindowOf(cur)
                      /\ ~r.open => R + r.count = WindowOf(cur)
    OBVIOUS
  <2>1. Within(cur) /\ Begun(cur, got, cut)
    BY <1>1 DEF Fetching
  <2>2. /\ query => R = 0
        /\ L < 0 => query
        /\ 0 < L => R < L
    BY <1>1, <1>3, <2>1 DEF Within, Begun
  <2> DEFINE all == Remaining(S)
             rest == Remaining(pos)
             asked == WindowOf(cur)
  <2>3. all \in Nat /\ rest \in Nat /\ asked \in Nat
    BY <1>1, RemainingIsNat, WindowIsNat
  <2>4. asked = IF L = 0 THEN all ELSE Least(Magnitude(L), all)
    BY <1>1 DEF WindowOf
  <2>5. R <= asked
    BY <2>1 DEF Within
  <2> HIDE DEF asked
  <2>6. asked <= all
    <3> HIDE DEF all
    <3> QED
      BY <1>1, <2>3, <2>4 DEF Least, Magnitude
  <2>7. R + rest = all
    <3>1. R <= all
      <4> HIDE DEF all
      <4> QED
        BY <1>1, <2>3, <2>5, <2>6
    <3> QED
      BY <1>1, <3>1, RemainingAfter
  <2> DEFINE k == r.count
             open == r.open
             b == cur.batch_size
  <2>8. n = IF L = 0 THEN b ELSE IF b = 0 THEN L - R ELSE Least(L - R, b)
    BY DEF Requested
  <2>9. /\ k \in Nat /\ open \in BOOLEAN /\ k <= rest
        /\ n # 0 => k <= Magnitude(n)
        /\ IF n < 0 \/ (query /\ n = 1)
           THEN ~open /\ k = Least(Magnitude(n), rest)
           ELSE ~open => k = rest
    BY <1>2
  <2>10. b \in Nat /\ b # 1 /\ S \in Nat /\ R \in Nat /\ L \in Int
    BY <1>1
  <2> HIDE DEF k, open, b, all, rest, R, L, S
  <2>11. R + k <= asked /\ (~open => R + k = asked)
    <3>1. CASE L = 0
      BY <2>2, <2>3, <2>4, <2>7, <2>8, <2>9, <2>10, <3>1
    <3>2. CASE 0 < L
      <4>1. 1 <= n /\ n <= L - R /\ (n = 1 => L - R = 1)
        BY <2>2, <2>8, <2>10, <3>2 DEF Least
      <4>2. Magnitude(n) = n /\ Magnitude(L) = L
        BY <2>10, <3>2, <4>1 DEF Magnitude
      <4>3. k <= n /\ asked = Least(L, all)
        BY <2>4, <2>9, <3>2, <4>1, <4>2
      <4> QED
        BY <2>2, <2>3, <2>7, <2>9, <2>10, <3>2, <4>1, <4>2, <4>3 DEF Least
    <3>3. CASE L < 0
      <4>1. query /\ R = 0 /\ n = L
        BY <2>2, <2>8, <2>10, <3>3 DEF Least
      <4>2. rest = all /\ asked = Least(Magnitude(L), all) /\ k = Least(Magnitude(L), all)
        BY <2>3, <2>4, <2>7, <2>9, <3>3, <4>1
      <4> QED
        BY <2>3, <2>10, <4>1, <4>2 DEF Least, Magnitude
    <3> QED
      BY <2>10, <3>1, <3>2, <3>3
  <2> QED
    BY <2>11 DEF k, open, asked, R
<1>12. L < 0 => ~r.open
  <2> SUFFICES ASSUME L < 0 PROVE ~r.open
    OBVIOUS
  <2>1. query /\ R = 0
    BY <1>1, <1>3 DEF Fetching, Begun
  <2>2. n < 0
    BY <1>1, <2>1 DEF Requested, Least
  <2> QED
    BY <1>2, <2>2
<1>13. Begun(new, got, cut)
  <2>1. new.id # None /\ (new.id \in Ids <=> r.open)
    BY <1>2, <1>3, <1>8
  <2>2. ASSUME new.full
        PROVE  new.id \in Ids /\ 0 < new.limit /\ new.limit <= new.retrieved
    <3>1. L # 0 /\ r.open /\ L <= R + r.count
      BY <1>7, <1>8, <2>2
    <3>2. 0 < L
      BY <1>1, <1>12, <3>1
    <3> QED
      BY <1>8, <2>1, <3>1, <3>2
  <2> QED
    BY <1>1, <1>8, <1>12, <2>1, <2>2 DEF Begun
<1>14. InStep(new, s)
  <2>1. new.id \in Ids => new.id = i
    BY <1>3, <1>8
  <2> QED
    BY <1>1, <1>2, <1>8, <2>1 DEF InStep
<1>15. ~cut => Within(new)
  <2>1. WindowOf(new) = WindowOf(cur)
    BY <1>8 DEF WindowOf
  <2>2. new.id = 0 \/ new.killed => ~r.open
    BY <1>2, <1>3, <1>7, <1>8
  <2>3. new.id \in Ids /\ ~new.full /\ 0 < new.limit => new.retrieved < new.limit
    BY <1>1, <1>2, <1>3, <1>7, <1>8
  <2> QED
    BY <1>8, <1>11, <2>1, <2>2, <2>3 DEF Within
<1> QED
  BY <1>8, <1>10, <1>13, <1>14, <1>15 DEF Fetching, new

\* A cursor that only has its flags changed.
LEMMA FlagsKeep ==
  ASSUME CursorInv, NEW dead \in BOOLEAN, NEW filled \in BOOLEAN,
         NEW more \in BOOLEAN, cur.killed => dead, filled => cur.full,
         cur.full => filled \/ dead \/ more, cut => more,
         cur.id = None => (dead => more),
         dead /\ ~cur.killed => more \/ cur.full
  PROVE  LET new == [cur EXCEPT !.killed = dead, !.full = filled]
         IN  new \in CursorFields /\ Fetching(new, got, more, server)
<1> DEFINE c == cur
           g == got
           s == server
           new == [c EXCEPT !.killed = dead, !.full = filled]
<1>0. c \in CursorFields /\ Fetching(c, g, cut, s)
  BY CursorTypes DEF CursorInv
<1>1. /\ new \in CursorFields /\ new.killed = dead /\ new.full = filled
      /\ new.id = c.id /\ new.limit = c.limit /\ new.skip = c.skip
      /\ new.batch_size = c.batch_size /\ new.empty = c.empty
      /\ new.retrieved = c.retrieved /\ new.next = c.next /\ new.count = c.count
  BY <1>0 DEF CursorFields
<1> HIDE DEF new
<1>2. Ordered(new, g) /\ InStep(new, s)
  BY <1>0, <1>1 DEF Fetching, Ordered, InStep
<1>3. Begun(new, g, more)
  BY <1>0, <1>1 DEF Fetching, Begun
<1>4. ~more => Within(new)
  <2> SUFFICES ASSUME ~more PROVE Within(new)
    OBVIOUS
  <2>1. WindowOf(new) = WindowOf(c) /\ Within(c) /\ WindowOf(c) \in Nat
    BY <1>0, <1>1, WindowIsNat DEF WindowOf, Fetching
  <2>2. ASSUME c.full
        PROVE  c.retrieved = WindowOf(c) /\ (dead \/ filled)
    <3>1. 0 < c.limit /\ c.limit <= c.retrieved /\ ~c.empty /\ c.retrieved <= WindowOf(c)
      BY <1>0, <2>1, <2>2, IdsAreNumbers DEF Fetching, Begun, Within
    <3>2. c.limit \in Int /\ c.retrieved \in Nat /\ c.skip \in Nat
      BY <1>0 DEF CursorFields
    <3>3. WindowOf(c) <= c.limit
      BY <3>1, <3>2, RemainingIsNat DEF WindowOf, Least, Magnitude
    <3> QED
      BY <2>1, <2>2, <3>1, <3>2, <3>3
  <2> QED
    BY <1>1, <2>1, <2>2 DEF Within
<1> QED
  BY <1>1, <1>2, <1>3, <1>4 DEF Fetching, new

\* What a kill message and a list of dying cursors do.
LEMMA KillGoes ==
  ASSUME CursorTypeOK, NEW ids \in SUBSET Ids, Kill(ids)
  PROVE  /\ server' \in [Ids -> ServerCursors] /\ abandoned' \subseteq Ids
         /\ abandoned \subseteq abandoned'
         /\ \A i \in Ids : server'[i].state = "open" =>
              server'[i] = server[i] /\ (i \in ids => i \in abandoned')
<1> DEFINE gone(i) == [server[i] EXCEPT !.state = "gone"]
<1>1. server \in [Ids -> ServerCursors] /\ abandoned \subseteq Ids
  BY CursorTypes
<1>2. ASSUME NEW i \in Ids
      PROVE  gone(i) \in ServerCursors /\ gone(i).state = "gone"
  BY <1>1 DEF ServerCursors
<1>3. server' = [i \in Ids |-> IF i \in ids /\ server[i].host = Target
                               THEN gone(i) ELSE server[i]]
  BY DEF Kill
<1> HIDE DEF gone
<1>4. server' \in [Ids -> ServerCursors]
  BY <1>1, <1>2, <1>3
<1>5. abandoned' = abandoned \union {i \in ids : server[i].host # Target}
  BY DEF Kill
<1>6. ASSUME NEW i \in Ids, server'[i].state = "open"
      PROVE  server'[i] = server[i] /\ (i \in ids => i \in abandoned')
  BY <1>2, <1>3, <1>5, <1>6
<1> QED
  BY <1>1, <1>4, <1>5, <1>6

\* __die, in one of its two ways.
LEMMA DieGoes ==
  ASSUME CursorTypeOK, Die
  PROVE  /\ server' \in [Ids -> ServerCursors]
         /\ dying' \subseteq Ids /\ abandoned' \subseteq Ids
         /\ \A i \in Ids : server'[i].state = "open" =>
              /\ server'[i] = server[i]
              /\ i \in dying \union abandoned => i \in dying' \union abandoned'
              /\ i = cur.id /\ ~cur.killed => i \in dying' \union abandoned'
<1>1. /\ server \in [Ids -> ServerCursors] /\ dying \subseteq Ids /\ abandoned \subseteq Ids
      /\ cur.id \in {None, 0} \union Ids
  BY CursorTypes DEF CursorFields
<1>2. CASE ~Alive
  <2>1. ~(cur.id \in Ids /\ ~cur.killed)
    BY <1>2, IdsAreNumbers DEF Alive
  <2> QED
    BY <1>1, <1>2, <2>1 DEF Die
<1>3. CASE Alive
  <2>1. cur.id \in Ids /\ CloseCursor(cur.id)
    BY <1>1, <1>3 DEF Alive, Die, None
  <2>2. CASE kind # "BatchCursorManager"
    <3>1. Kill({cur.id}) /\ dying' = dying /\ {cur.id} \in SUBSET Ids
      BY <2>1, <2>2 DEF CloseCursor
    <3> QED
      BY <1>1, <3>1, KillGoes
  <2>3. CASE kind = "BatchCursorManager" /\ SendsKill(cur.id)
    <3>1. Kill(Dying(cur.id)) /\ dying' = {} /\ Dying(cur.id) \in SUBSET Ids
      BY <1>1, <2>1, <2>3 DEF CloseCursor, Dying
    <3> QED
      BY <1>1, <3>1, KillGoes DEF Dying
  <2>4. CASE kind = "BatchCursorManager" /\ ~SendsKill(cur.id)
    <3>1. dying' = Dying(cur.id) /\ server' = server /\ abandoned' = abandoned
      BY <2>1, <2>4 DEF CloseCursor
    <3> QED
      BY <1>1, <2>1, <3>1 DEF Dying
  <2> QED
    BY <2>2, <2>3, <2>4
<1> QED
  BY <1>2, <1>3

LEMMA DieFailsGoes ==
  ASSUME CursorTypeOK, DieFails
  PROVE  server' = server /\ dying' \subseteq Ids /\ dying \subseteq dying'
         /\ cur.id \in Ids
<1>1. dying \subseteq Ids /\ cur.id \in {None, 0} \union Ids
  BY CursorTypes DEF CursorFields
<1>2. cur.id \in Ids
  BY <1>1 DEF DieFails, Alive, None
<1> QED
  BY <1>1, <1>2 DEF DieFails, Dying

\* Cursors that the servers no longer have are not asked for more.
LEMMA FewerKeep ==
  ASSUME NEW c, NEW g, NEW short, NEW s, NEW t, Fetching(c, g, short, s),
         \A i \in Ids : t[i].state = "open" => t[i] = s[i]
  PROVE  Fetching(c, g, short, t)
BY DEF Fetching, InStep

\* The options, which leave a cursor unevaluated.
LEMMA OptionKeeps ==
  ASSUME CursorInv, NEW c \in CursorFields, SetOption(c), c.id = cur.id,
         c.retrieved = cur.retrieved, c.count = cur.count, c.full = cur.full,
         c.killed = cur.killed, c.batch_size # 1
  PROVE  CursorInv'
<1>1. /\ cur.id = None /\ cur.retrieved = 0 /\ ~cur.full /\ cur' = c
      /\ UNCHANGED <<server, kind, primary, dying, got, cut, abandoned>>
  BY DEF SetOption, OkayToChain
<1>2. got = <<>> /\ (cur.killed => cut) /\ cur.count = 0
  <2>1. cur.count \in Nat
    BY CursorTypes DEF CursorInv, CursorFields
  <2> QED
    BY <1>1, <2>1 DEF CursorInv, Fetching, Begun, Ordered
<1>3. Fetching(c, <<>>, cut, server)
  BY <1>1, <1>2, UnevaluatedIsFine
<1> QED
  BY <1>1, <1>2, <1>3 DEF CursorInv, CursorTypeOK, CursorFields

LEMMA OptionsKeep ==
  ASSUME CursorInv,
         \/ \E n \in Limits : Limit(n)
         \/ \E n \in BatchSizes : BatchSize(n)
         \/ \E n \in Skips : Skip(n)
         \/ \E a, b \in Skips : CursorSlice(a, b)
         \/ CursorIndex
  PROVE  CursorInv'
<1>1. cur \in CursorFields /\ cur.batch_size # 1
  BY CursorTypes DEF CursorInv, Fetching, Begun
<1>2. ASSUME NEW n \in Limits, Limit(n)
      PROVE  CursorInv'
  <2> DEFINE c == [cur EXCEPT !.empty = FALSE, !.limit = n]
  <2>1. c \in CursorFields /\ c.id = cur.id /\ c.retrieved = cur.retrieved
        /\ c.count = cur.count /\ c.full = cur.full /\ c.killed = cur.killed
        /\ c.batch_size = cur.batch_size
    BY <1>1, CursorAssumption DEF CursorFields
  <2>2. SetOption(c)
    BY <1>2 DEF Limit
  <2> HIDE DEF c
  <2> QED
    BY <1>1, <2>1, <2>2, OptionKeeps
<1>3. ASSUME NEW n \in BatchSizes, BatchSize(n)
      PROVE  CursorInv'
  <2> DEFINE size == IF n = 1 THEN 2 ELSE n
             c == [cur EXCEPT !.batch_size = size]
  <2>1. size \in Nat /\ size # 1
    BY CursorAssumption
  <2>2. SetOption(c)
    BY <1>3 DEF BatchSize
  <2> HIDE DEF size
  <2>3. c \in CursorFields /\ c.id = cur.id /\ c.retrieved = cur.retrieved
        /\ c.count = cur.count /\ c.full = cur.full /\ c.killed = cur.killed
        /\ c.batch_size = size
    BY <1>1, <2>1 DEF CursorFields
  <2> HIDE DEF c
  <2> QED
    BY <2>1, <2>2, <2>3, OptionKeeps
<1>4. ASSUME NEW n \in Skips, Skip(n)
      PROVE  CursorInv'
  <2> DEFINE c == [cur EXCEPT !.skip = n]
  <2>1. c \in CursorFields /\ c.id = cur.id /\ c.retrieved = cur.retrieved
        /\ c.count = cur.count /\ c.full = cur.full /\ c.killed = cur.killed
        /\ c.batch_size = cur.batch_size
    BY <1>1, CursorAssumption DEF CursorFields
  <2>2. SetOption(c)
    BY <1>4 DEF Skip
  <2> HIDE DEF c
  <2> QED
    BY <1>1, <2>1, <2>2, OptionKeeps
<1>5. ASSUME NEW a \in Skips, NEW b \in Skips, CursorSlice(a, b)
      PROVE  CursorInv'
  <2> DEFINE none == a = b
             n == b - a
             c == [cur EXCEPT !.skip = a, !.limit = n, !.empty = none]
  <2>1. a \in Nat /\ n \in Int /\ none \in BOOLEAN
    BY CursorAssumption
  <2>2. SetOption(c)
    BY <1>5 DEF CursorSlice
  <2> HIDE DEF none, n
  <2>3. c \in CursorFields /\ c.id = cur.id /\ c.retrieved = cur.retrieved
        /\ c.count = cur.count /\ c.full = cur.full /\ c.killed = cur.killed
        /\ c.batch_size = cur.batch_size
    BY <1>1, <2>1 DEF CursorFields
  <2> HIDE DEF c
  <2> QED
    BY <1>1, <2>2, <2>3, OptionKeeps
<1>6. CASE CursorIndex
  <2> DEFINE c == [cur EXCEPT !.empty = FALSE]
  <2>1. c \in CursorFields /\ c.id = cur.id /\ c.retrieved = cur.retrieved
        /\ c.count = cur.count /\ c.full = cur.full /\ c.killed = cur.killed
        /\ c.batch_size = cur.batch_size
    BY <1>1 DEF CursorFields
  <2>2. SetOption(c)
    BY <1>6 DEF CursorIndex
  <2> HIDE DEF c
  <2> QED
    BY <1>1, <2>1, <2>2, OptionKeeps
<1> QED
  BY <1>2, <1>3, <1>4, <1>5, <1>6

\* Rewind and Clone.
LEMMA AnewKeeps ==
  ASSUME CursorInv, Rewind \/ Clone
  PROVE  CursorInv'
<1>1. cur \in CursorFields /\ cur.batch_size # 1
  BY CursorTypes DEF CursorInv, Fetching, Begun
<1> DEFINE bare == Unevaluated(cur)
           copy == [bare EXCEPT !.empty = FALSE]
<1>2. /\ bare \in CursorFields /\ bare.id = None /\ bare.retrieved = 0 /\ bare.count = 0
      /\ ~bare.full /\ ~bare.killed /\ bare.batch_size = cur.batch_size
  BY <1>1 DEF CursorFields, Unevaluated
<1> HIDE DEF bare
<1>3. /\ copy \in CursorFields /\ copy.id = None /\ copy.retrieved = 0 /\ copy.count = 0
      /\ ~copy.full /\ ~copy.killed /\ copy.batch_size = cur.batch_size
  BY <1>2 DEF CursorFields
<1> HIDE DEF copy
<1>4. cur' \in {bare, copy} /\ cut' = FALSE /\ got' = <<>> /\ UNCHANGED <<kind, primary>>
  BY DEF Rewind, Clone, bare, copy
<1>5. Fetching(cur', got', cut', server')
  <2> DEFINE short == FALSE
             new == cur'
             s == server'
  <2>1. new \in CursorFields /\ new.id = None /\ new.retrieved = 0 /\ new.count = 0
        /\ ~new.full /\ (new.killed => short) /\ new.batch_size # 1
    BY <1>1, <1>2, <1>3, <1>4
  <2>2. cut' = short
    BY <1>4
  <2> HIDE DEF short, new, s
  <2>3. Fetching(new, <<>>, short, s)
    BY <2>1, UnevaluatedIsFine
  <2> QED
    BY <1>4, <2>2, <2>3 DEF new, s
<1>6. /\ server' \in [Ids -> ServerCursors] /\ dying' \subseteq Ids
      /\ abandoned' \subseteq Ids
  <2>1. CursorTypeOK /\ cur.id \in {None, 0} \union Ids
    BY <1>1 DEF CursorInv, CursorFields
  <2>2. CASE Rewind
    BY <2>1, <2>2, CursorTypes DEF Rewind, Alive, None
  <2>3. CASE Clone /\ Die
    BY <2>1, <2>3, DieGoes
  <2>4. CASE DieFails /\ abandoned' = abandoned \union {cur.id}
    BY <2>1, <2>4, DieFailsGoes, CursorTypes
  <2> QED
    BY <2>2, <2>3, <2>4 DEF Clone
<1>7. CursorTypeOK'
  <2>1. cur' \in CursorFields
    BY <1>2, <1>3, <1>4
  <2> QED
    BY <1>4, <1>6, <2>1 DEF CursorInv, CursorTypeOK, CursorFields, ServerCursors
<1> QED
  BY <1>4, <1>5, <1>7 DEF CursorInv

\* __die, of a cursor of which one flag or the other changes, or none.
LEMMA DyingKeeps ==
  ASSUME CursorInv, NEW new \in CursorFields,
         Fetching(new, got, cut', server), cur' = new, cut' \in BOOLEAN,
         UNCHANGED <<kind, primary, got>>,
         Die \/ (DieFails /\ abandoned' = abandoned)
  PROVE  CursorInv'
<1>1. CursorTypeOK /\ server \in [Ids -> ServerCursors] /\ abandoned \subseteq Ids
  BY CursorTypes DEF CursorInv
<1>2. /\ server' \in [Ids -> ServerCursors] /\ dying' \subseteq Ids
      /\ abandoned' \subseteq Ids
      /\ \A i \in Ids : server'[i].state = "open" => server'[i] = server[i]
  <2>1. CASE Die
    BY <1>1, <2>1, DieGoes
  <2>2. CASE DieFails /\ abandoned' = abandoned
    BY <1>1, <2>2, DieFailsGoes
  <2> QED
    BY <2>1, <2>2
<1>3. Fetching(new, got, cut', server')
  <2> DEFINE short == cut'
             t == server'
  <2>1. Fetching(new, got, short, server)
        /\ \A i \in Ids : t[i].state = "open" => t[i] = server[i]
    BY <1>2
  <2> HIDE DEF short, t
  <2>2. Fetching(new, got, short, t)
    BY <2>1, FewerKeep
  <2> QED
    BY <2>2 DEF short, t
<1>4. CursorTypeOK'
  BY <1>2 DEF CursorInv, CursorTypeOK, CursorFields, ServerCursors
<1> QED
  BY <1>3, <1>4 DEF CursorInv

LEMMA ClosesKeep ==
  ASSUME CursorInv,
         CursorClose \/ CursorCloseFails \/ KillAtLimit \/ KillAtLimitFails
  PROVE  CursorInv'
<1>1. cur \in CursorFields /\ Fetching(cur, got, cut, server) /\ cur.killed \in BOOLEAN
      /\ cut \in BOOLEAN /\ cur.full \in BOOLEAN
  BY CursorTypes DEF CursorInv, CursorFields
<1>2. ASSUME NEW dead \in BOOLEAN, NEW filled \in BOOLEAN, NEW more \in BOOLEAN,
             cur.killed => dead, filled => cur.full,
             cur.full => filled \/ dead \/ more, cut => more,
             cur.id = None => (dead => more),
             dead /\ ~cur.killed => more \/ cur.full
      PROVE  LET new == [cur EXCEPT !.killed = dead, !.full = filled]
             IN  new \in CursorFields /\ Fetching(new, got, more, server)
  BY <1>2, FlagsKeep
<1>3. CASE CursorClose
  <2> DEFINE new == [cur EXCEPT !.killed = TRUE, !.full = FALSE]
             more == TRUE
  <2>1. new = [cur EXCEPT !.killed = TRUE] /\ ~cur.full
    BY <1>1, <1>3 DEF CursorClose, CursorFields
  <2>2. new \in CursorFields /\ Fetching(new, got, more, server)
    BY <1>2, <2>1
  <2> HIDE DEF new, more
  <2>3. cur' = new /\ cut' = more /\ more \in BOOLEAN /\ Die
        /\ UNCHANGED <<kind, primary, got>>
    BY <1>3, <2>1 DEF CursorClose, more
  <2> QED
    BY <2>2, <2>3, DyingKeeps
<1>4. CASE CursorCloseFails
  <2> DEFINE more == TRUE
  <2>1. ~cur.full /\ cur = [cur EXCEPT !.killed = cur.killed, !.full = FALSE]
    BY <1>1, <1>4 DEF CursorCloseFails, CursorFields
  <2>2. cur.id # None
    BY <1>4, IdsAreNumbers DEF CursorCloseFails, DieFails, Alive, None
  <2>3. Fetching(cur, got, more, server)
    BY <1>1, <1>2, <2>1, <2>2
  <2> HIDE DEF more
  <2>4. cur' = cur /\ cut' = more /\ more \in BOOLEAN /\ DieFails
        /\ UNCHANGED <<kind, primary, got, abandoned>>
    BY <1>4 DEF CursorCloseFails, more
  <2> QED
    BY <1>1, <2>3, <2>4, DyingKeeps
<1>5. CASE KillAtLimit
  <2> DEFINE new == [cur EXCEPT !.killed = TRUE, !.full = FALSE]
  <2>1. cur.full /\ cur.id # None
    BY <1>1, <1>5, IdsAreNumbers DEF KillAtLimit, Fetching, Begun
  <2>2. new \in CursorFields /\ Fetching(new, got, cut, server)
    BY <1>1, <1>2, <2>1
  <2>3. new = [cur EXCEPT !.full = FALSE, !.killed = TRUE]
    BY <1>1 DEF CursorFields
  <2> HIDE DEF new
  <2>4. cur' = new /\ cut' = cut /\ Die /\ UNCHANGED <<kind, primary, got>>
    BY <1>5, <2>3 DEF KillAtLimit
  <2> QED
    BY <1>1, <2>2, <2>4, DyingKeeps
<1>6. CASE KillAtLimitFails
  <2> DEFINE new == [cur EXCEPT !.killed = cur.killed, !.full = FALSE]
             more == TRUE
  <2>1. new = [cur EXCEPT !.full = FALSE]
    BY <1>1 DEF CursorFields
  <2>2. cur.id # None
    BY <1>6, IdsAreNumbers DEF KillAtLimitFails, DieFails, Alive, None
  <2>3. new \in CursorFields /\ Fetching(new, got, more, server)
    BY <1>1, <1>2, <2>2
  <2> HIDE DEF new, more
  <2>4. cur' = new /\ cut' = more /\ more \in BOOLEAN /\ DieFails
        /\ UNCHANGED <<kind, primary, got, abandoned>>
    BY <1>6, <2>1 DEF KillAtLimitFails, more
  <2> QED
    BY <2>3, <2>4, DyingKeeps
<1> QED
  BY <1>3, <1>4, <1>5, <1>6

LEMMA PopKeeps ==
  ASSUME CursorInv, Pop
  PROVE  CursorInv'
<1> DEFINE c == [cur EXCEPT !.next = @ + 1, !.count = @ - 1]
           g == Append(got, cur.next)
<1>1. /\ cur \in CursorFields /\ Fetching(cur, got, cut, server) /\ got \in Seq(Nat)
      /\ cur.next \in Nat /\ cur.count \in Nat /\ cur.count > 0 /\ cur.skip \in Nat
      /\ cur.retrieved \in Nat /\ ~cur.full
  BY CursorTypes DEF CursorInv, CursorFields, Pop
<1>2. /\ c \in CursorFields /\ c.next = cur.next + 1 /\ c.count = cur.count - 1
      /\ c.id = cur.id /\ c.limit = cur.limit /\ c.skip = cur.skip
      /\ c.batch_size = cur.batch_size /\ c.empty = cur.empty
      /\ c.retrieved = cur.retrieved /\ c.full = cur.full /\ c.killed = cur.killed
  <2> DEFINE next == cur.next + 1
             count == cur.count - 1
  <2>1. next \in Nat /\ count \in Nat /\ c = [cur EXCEPT !.next = next, !.count = count]
    BY <1>1
  <2> HIDE DEF next, count, c
  <2>2. /\ c \in CursorFields /\ c.next = next /\ c.count = count
        /\ c.id = cur.id /\ c.limit = cur.limit /\ c.skip = cur.skip
        /\ c.batch_size = cur.batch_size /\ c.empty = cur.empty
        /\ c.retrieved = cur.retrieved /\ c.full = cur.full /\ c.killed = cur.killed
    BY <1>1, <2>1 DEF CursorFields
  <2> QED
    BY <2>2 DEF next, count
<1>3. /\ cur' = c /\ got' = g
      /\ UNCHANGED <<server, kind, primary, dying, cut, abandoned>>
  BY DEF Pop
<1> HIDE DEF c
<1>4. /\ g \in Seq(Nat) /\ Len(g) = Len(got) + 1 /\ Len(got) \in Nat
      /\ \A j \in 1..Len(got) : g[j] = got[j]
      /\ g[Len(got) + 1] = cur.next
  BY <1>1
<1>5. cur.id # None
  <2> SUFFICES ASSUME cur.id = None PROVE FALSE
    OBVIOUS
  <2>1. got = <<>> /\ cur.retrieved = 0
    BY <1>1 DEF Fetching, Begun
  <2> QED
    BY <1>1, <2>1 DEF Fetching, Ordered
<1> HIDE DEF g
<1>6. Ordered(c, g)
  <2>1. Ordered(cur, got)
    BY <1>1 DEF Fetching
  <2>2. cur.next = cur.skip + Len(got) + 1
    BY <1>5, <2>1 DEF Ordered
  <2> DEFINE m == Len(got)
             n == Len(g)
  <2>3. /\ m \in Nat /\ n = m + 1 /\ c.skip \in Nat /\ c.skip = cur.skip
        /\ c.next = cur.next + 1 /\ cur.next = cur.skip + m + 1
        /\ m + cur.count = cur.retrieved /\ cur.count \in Nat
        /\ c.count = cur.count - 1 /\ c.retrieved = cur.retrieved
        /\ g[m + 1] = cur.next /\ cur.skip \in Nat
    BY <1>1, <1>2, <1>4, <2>1, <2>2 DEF Ordered
  <2>4. \A j \in 1..m : g[j] = cur.skip + j
    BY <1>4, <2>1 DEF Ordered
  <2> HIDE DEF m, n
  <2>5. c.next = c.skip + n + 1 /\ n + c.count = c.retrieved
    BY <2>3
  <2>6. \A j \in 1..n : g[j] = c.skip + j
    BY <2>3, <2>4
  <2> QED
    BY <2>5, <2>6 DEF Ordered, n
<1>7. Begun(c, g, cut)
  BY <1>1, <1>2, <1>5 DEF Fetching, Begun
<1>8. InStep(c, server) /\ (~cut => Within(c))
  BY <1>1, <1>2 DEF Fetching, InStep, Within, WindowOf
<1>9. Fetching(c, g, cut, server)
  BY <1>6, <1>7, <1>8 DEF Fetching
<1> QED
  BY <1>2, <1>3, <1>4, <1>9 DEF CursorInv, CursorTypeOK, CursorFields

\* A cursor whose reply gets lost, or to which the server no longer answers.
LEMMA LostKeeps ==
  ASSUME CursorInv, NEW s, NEW more, more
  PROVE  LET new == [cur EXCEPT !.killed = TRUE]
         IN  ~cur.full => new \in CursorFields /\ Fetching(new, got, more, s)
<1> SUFFICES ASSUME ~cur.full
             PROVE  LET new == [cur EXCEPT !.killed = TRUE]
                    IN  new \in CursorFields /\ Fetching(new, got, more, s)
  OBVIOUS
<1> DEFINE new == [cur EXCEPT !.killed = TRUE]
<1>1. cur \in CursorFields /\ Fetching(cur, got, cut, server)
  BY CursorTypes DEF CursorInv
<1>2. /\ new \in CursorFields /\ new.killed
      /\ new.id = cur.id /\ new.limit = cur.limit /\ new.skip = cur.skip
      /\ new.batch_size = cur.batch_size /\ new.empty = cur.empty /\ new.full = cur.full
      /\ new.retrieved = cur.retrieved /\ new.next = cur.next /\ new.count = cur.count
  BY <1>1 DEF CursorFields
<1> HIDE DEF new
<1>3. Ordered(new, got) /\ Begun(new, got, more) /\ InStep(new, s)
  BY <1>1, <1>2 DEF Fetching, Ordered, Begun, InStep
<1>4. Fetching(new, got, more, s)
  BY <1>3 DEF Fetching
<1> QED
  BY <1>2, <1>4 DEF new

LEMMA ServedGoes ==
  ASSUME CursorTypeOK, NEW i \in Ids, NEW pos \in Nat, NEW n \in Int,
         NEW query \in BOOLEAN, NEW r \in Replies(pos, n, query),
         NEW host \in Members \union {NoMember}, Served(i, pos, host, r)
  PROVE  /\ server' \in [Ids -> ServerCursors]
         /\ server'[i].pos = pos + r.count
         /\ server'[i].state = "open" <=> r.open
         /\ \A j \in Ids : j # i => server'[j] = server[j]
<1> DEFINE state == IF r.open THEN "open" ELSE "gone"
           at == pos + r.count
           new == [state |-> state, pos |-> at, host |-> host]
<1>1. r.count \in Nat /\ r.open \in BOOLEAN
  BY ReplyFields
<1>2. state \in {"unused", "open", "gone"} /\ at \in Nat /\ (state = "open" <=> r.open)
  BY <1>1
<1>3. server \in [Ids -> ServerCursors]
  BY CursorTypes
<1>4. server' = [server EXCEPT ![i] = new]
  BY DEF Served
<1> HIDE DEF state, at
<1>5. new \in ServerCursors /\ new.state = state /\ new.pos = at
  BY <1>2 DEF ServerCursors
<1> HIDE DEF new
<1>6. server' \in [Ids -> ServerCursors] /\ server'[i] = new
      /\ \A j \in Ids : j # i => server'[j] = server[j]
  BY <1>3, <1>4, <1>5
<1> QED
  BY <1>2, <1>5, <1>6 DEF at

LEMMA RequestedIsInt ==
  ASSUME CursorTypeOK, NEW limit \in Int PROVE Requested(limit) \in Int
<1>1. cur.batch_size \in Nat
  BY CursorTypes DEF CursorFields
<1> QED
  BY <1>1 DEF Requested, Least

\* What __send_message is given by the query and by the requests for more.
Asks(i, query) ==
  /\ IF query THEN cur.id = None ELSE cur.id = i
  /\ \E pos \in Nat, n \in Int, host \in Members \union {NoMember} :
       /\ pos = cur.skip + cur.retrieved
       /\ n = Requested(cur.limit - cur.retrieved)
       /\ \E r \in Replies(pos, n, query) :
            /\ Served(i, pos, host, r)
            /\ \/ cur' = Filled(i, pos, host, r) /\ UNCHANGED <<cut, abandoned>>
               \/ /\ cur' = [cur EXCEPT !.killed = TRUE]
                  /\ cut' = TRUE
                  /\ abandoned' = abandoned \union {i}
  /\ UNCHANGED <<kind, primary, dying, got>>

LEMMA AsksKeeps ==
  ASSUME CursorInv, Refreshes, NEW i \in Ids, NEW query \in BOOLEAN, Asks(i, query)
  PROVE  CursorInv'
<1>1. PICK pos \in Nat, n \in Int, host \in Members \union {NoMember} :
        /\ pos = cur.skip + cur.retrieved
        /\ n = Requested(cur.limit - cur.retrieved)
        /\ \E r \in Replies(pos, n, query) :
             /\ Served(i, pos, host, r)
             /\ \/ cur' = Filled(i, pos, host, r) /\ UNCHANGED <<cut, abandoned>>
                \/ /\ cur' = [cur EXCEPT !.killed = TRUE]
                   /\ cut' = TRUE
                   /\ abandoned' = abandoned \union {i}
  BY DEF Asks
<1>2. PICK r \in Replies(pos, n, query) :
        /\ Served(i, pos, host, r)
        /\ \/ cur' = Filled(i, pos, host, r) /\ UNCHANGED <<cut, abandoned>>
           \/ /\ cur' = [cur EXCEPT !.killed = TRUE]
              /\ cut' = TRUE
              /\ abandoned' = abandoned \union {i}
  BY <1>1
<1>3. CursorTypeOK /\ ~cur.full /\ cut \in BOOLEAN /\ abandoned \subseteq Ids
  BY CursorTypes DEF CursorInv, Refreshes
<1>4. server' \in [Ids -> ServerCursors] /\ server'[i].pos = pos + r.count
  BY <1>2, <1>3, ServedGoes
<1>5. UNCHANGED <<kind, primary, dying, got>>
  BY DEF Asks
<1>6. CASE cur' = Filled(i, pos, host, r) /\ UNCHANGED <<cut, abandoned>>
  <2> DEFINE s == server'
  <2>1. s[i].pos = pos + r.count /\ (IF query THEN cur.id = None ELSE cur.id = i)
    BY <1>4 DEF Asks
  <2> HIDE DEF s
  <2>2. /\ Filled(i, pos, host, r) \in CursorFields
        /\ Fetching(Filled(i, pos, host, r), got, cut, s)
    BY <1>1, <2>1, FilledKeeps
  <2> QED
    BY <1>3, <1>4, <1>5, <1>6, <2>2
    DEF CursorInv, CursorTypeOK, CursorFields, ServerCursors, s
<1>7. CASE /\ cur' = [cur EXCEPT !.killed = TRUE]
           /\ cut' = TRUE
           /\ abandoned' = abandoned \union {i}
  <2> DEFINE s == server'
             more == TRUE
             new == [cur EXCEPT !.killed = TRUE]
  <2>1. more
    OBVIOUS
  <2> HIDE DEF s, more
  <2>2. new \in CursorFields /\ Fetching(new, got, more, s)
    BY <1>3, <2>1, LostKeeps
  <2> HIDE DEF new
  <2>3. cur' = new /\ cut' = more
    BY <1>7 DEF new, more
  <2> QED
    BY <1>3, <1>4, <1>5, <1>7, <2>2, <2>3
    DEF CursorInv, CursorTypeOK, CursorFields, ServerCursors, s
<1> QED
  BY <1>2, <1>6, <1>7

LEMMA SendQueryAsks ==
  ASSUME CursorInv, SendQuery
  PROVE  \E i \in Ids : server[i].state = "unused" /\ Asks(i, TRUE)
<1>1. CursorTypeOK /\ cur.skip \in Nat /\ cur.limit \in Int /\ cur.id = None
      /\ cur.retrieved = 0
  BY CursorTypes DEF CursorInv, CursorFields, SendQuery, Fetching, Begun
<1>2. PICK i \in Ids, host \in QueryHosts :
        /\ server[i].state = "unused"
        /\ \E r \in Replies(cur.skip, Requested(cur.limit), TRUE) :
             /\ Served(i, cur.skip, host, r)
             /\ \/ cur' = Filled(i, cur.skip, host, r) /\ UNCHANGED <<cut, abandoned>>
                \/ /\ cur' = [cur EXCEPT !.killed = TRUE]
                   /\ cut' = TRUE
                   /\ abandoned' = abandoned \union {i}
  BY DEF SendQuery
<1>3. host \in Members \union {NoMember}
  BY <1>1, CursorTypes DEF QueryHosts
<1>4. /\ cur.skip + cur.retrieved = cur.skip
      /\ cur.limit - cur.retrieved = cur.limit /\ Requested(cur.limit) \in Int
  BY <1>1, RequestedIsInt
<1>5. UNCHANGED <<kind, primary, dying, got>>
  BY DEF SendQuery
<1> QED
  BY <1>1, <1>2, <1>3, <1>4, <1>5 DEF Asks

LEMMA GetMoreAsks ==
  ASSUME CursorInv, GetMore
  PROVE  cur.id \in Ids /\ Asks(cur.id, FALSE)
<1>1. /\ CursorTypeOK /\ cur.skip \in Nat /\ cur.limit \in Int /\ cur.retrieved \in Nat
      /\ cur.id \in {None, 0} \union Ids /\ cur.id > 0 /\ ~cur.killed
      /\ server \in [Ids -> ServerCursors]
  BY CursorTypes DEF CursorInv, CursorFields, GetMore, Refreshes
<1>2. cur.id \in Ids
  BY <1>1 DEF None
<1> DEFINE s == server[cur.id]
           n == Requested(cur.limit - cur.retrieved)
<1>3. /\ s.state = "open"
      /\ \E r \in Replies(s.pos, n, FALSE) :
           /\ Served(cur.id, s.pos, s.host, r)
           /\ \/ cur' = Filled(cur.id, s.pos, s.host, r) /\ UNCHANGED <<cut, abandoned>>
              \/ /\ cur' = [cur EXCEPT !.killed = TRUE]
                 /\ cut' = TRUE
                 /\ abandoned' = abandoned \union {cur.id}
      /\ UNCHANGED <<kind, primary, dying, got>>
  BY DEF GetMore
<1>4. s.pos \in Nat /\ s.host \in Members \union {NoMember}
  BY <1>1, <1>2 DEF ServerCursors
<1>5. s.pos = cur.skip + cur.retrieved
  BY <1>1, <1>2, <1>3 DEF CursorInv, Fetching, InStep
<1>6. n \in Int
  BY <1>1, RequestedIsInt
<1> QED
  BY <1>2, <1>3, <1>4, <1>5, <1>6 DEF Asks

LEMMA GetMoreFailsKeeps ==
  ASSUME CursorInv, GetMoreFails
  PROVE  CursorInv'
<1>1. /\ CursorTypeOK /\ ~cur.full /\ cur.id \in {None, 0} \union Ids /\ cur.id > 0
      /\ abandoned \subseteq Ids /\ cur \in CursorFields
  BY CursorTypes DEF CursorInv, CursorFields, GetMoreFails, Refreshes
<1>2. cur.id \in Ids
  BY <1>1 DEF None
<1> DEFINE new == [cur EXCEPT !.killed = TRUE]
           more == TRUE
           s == server
<1>3. more
  OBVIOUS
<1> HIDE DEF more, s
<1>4. new \in CursorFields /\ Fetching(new, got, more, s)
  BY <1>1, <1>3, LostKeeps
<1> HIDE DEF new
<1>5. Fetching(cur, got, more, s)
  BY <1>2, <1>3, IdsAreNumbers DEF CursorInv, Fetching, Begun, s
<1>6. /\ cur' = cur \/ cur' = new
      /\ cut' = more /\ UNCHANGED <<server, kind, primary, dying, got>>
      /\ abandoned' = abandoned \/ abandoned' = abandoned \union {cur.id}
  BY DEF GetMoreFails, new, more
<1>7. cut' \in BOOLEAN
  BY DEF GetMoreFails
<1> QED
  BY <1>1, <1>2, <1>4, <1>5, <1>6, <1>7
  DEF CursorInv, CursorTypeOK, CursorFields, ServerCursors, s

LEMMA ServersKeep ==
  ASSUME CursorInv,
         \/ \E i \in Ids : CursorTimesOut(i)
         \/ \E n \in Members : Failover(n)
  PROVE  CursorInv'
<1>1. CursorTypeOK /\ server \in [Ids -> ServerCursors]
  BY CursorTypes DEF CursorInv
<1>2. ASSUME NEW i \in Ids, CursorTimesOut(i)
      PROVE  CursorInv'
  <2> DEFINE new == [server[i] EXCEPT !.state = "gone"]
             t == server'
  <2>1. new \in ServerCursors /\ new.state = "gone"
    BY <1>1 DEF ServerCursors
  <2>2. /\ server' = [server EXCEPT ![i] = new]
        /\ UNCHANGED <<cur, kind, primary, dying, got, cut, abandoned>>
    BY <1>2 DEF CursorTimesOut
  <2> HIDE DEF new
  <2>3. /\ server' \in [Ids -> ServerCursors]
        /\ \A j \in Ids : t[j].state = "open" => t[j] = server[j]
    BY <1>1, <2>1, <2>2
  <2> HIDE DEF t
  <2>4. Fetching(cur, got, cut, t)
    BY <2>3, FewerKeep DEF CursorInv
  <2> QED
    BY <2>2, <2>3, <2>4 DEF CursorInv, CursorTypeOK, CursorFields, ServerCursors, t
<1>3. ASSUME NEW n \in Members, Failover(n)
      PROVE  CursorInv'
  BY <1>3 DEF CursorInv, CursorTypeOK, Failover
<1> QED
  BY <1>2, <1>3

LEMMA CursorInitially == CursorInit => CursorInv
<1> SUFFICES ASSUME CursorInit PROVE CursorInv
  OBVIOUS
<1>1. cur \in CursorFields /\ cur.id = None /\ cur.retrieved = 0 /\ cur.count = 0
      /\ ~cur.full /\ ~cur.killed /\ cur.batch_size # 1
  BY DEF CursorInit, CursorFields
<1>2. server \in [Ids -> ServerCursors]
  BY DEF CursorInit, ServerCursors
<1>3. CursorTypeOK
  BY <1>1, <1>2, CursorTypes DEF CursorInit
<1>4. Fetching(cur, <<>>, cut, server)
  BY <1>1, UnevaluatedIsFine
<1> QED
  BY <1>3, <1>4 DEF CursorInit, CursorInv

LEMMA CursorStays ==
  ASSUME CursorInv, UNCHANGED cursorVars PROVE CursorInv'
BY DEF CursorInv, CursorTypeOK, cursorVars

LEMMA CursorInvariant == CursorSpec => []CursorInv
<1>1. CursorInv /\ [CursorNext]_cursorVars => CursorInv'
  <2> SUFFICES ASSUME CursorInv, [CursorNext]_cursorVars PROVE CursorInv'
    OBVIOUS
  <2>1. CASE \/ \E n \in Limits : Limit(n)
             \/ \E n \in BatchSizes : BatchSize(n)
             \/ \E n \in Skips : Skip(n)
             \/ \E a, b \in Skips : CursorSlice(a, b)
             \/ CursorIndex
    BY <2>1, OptionsKeep
  <2>2. CASE CursorClose \/ CursorCloseFails \/ KillAtLimit \/ KillAtLimitFails
    BY <2>2, ClosesKeep
  <2>3. CASE Rewind \/ Clone
    BY <2>3, AnewKeeps
  <2>4. CASE Pop
    BY <2>4, PopKeeps
  <2>5. CASE SendQuery
    <3>1. PICK i \in Ids : Asks(i, TRUE)
      BY <2>5, SendQueryAsks
    <3> DEFINE query == TRUE
    <3>2. query \in BOOLEAN /\ Asks(i, query) /\ Refreshes
      BY <2>5, <3>1 DEF SendQuery
    <3> HIDE DEF query
    <3> QED
      BY <3>2, AsksKeeps
  <2>6. CASE GetMore
    <3> DEFINE query == FALSE
    <3>1. query \in BOOLEAN /\ cur.id \in Ids /\ Asks(cur.id, query) /\ Refreshes
      BY <2>6, GetMoreAsks DEF GetMore
    <3> HIDE DEF query
    <3> QED
      BY <3>1, AsksKeeps
  <2>7. CASE GetMoreFails
    BY <2>7, GetMoreFailsKeeps
  <2>8. CASE (\E i \in Ids : CursorTimesOut(i)) \/ (\E n \in Members : Failover(n))
    BY <2>8, ServersKeep
  <2>9. CASE UNCHANGED cursorVars
    BY <2>9, CursorStays
  <2> QED
    BY <2>1, <2>2, <2>3, <2>4, <2>5, <2>6, <2>7, <2>8, <2>9 DEF CursorNext
<1> QED
  BY <1>1, CursorInitially, PTL DEF CursorSpec

\* A cursor returns the documents that skip and limit ask for.
LEMMA CursorInvReturns == CursorInv => ReturnsWindow
<1> SUFFICES ASSUME CursorInv PROVE ReturnsWindow
  OBVIOUS
<1>1. /\ cur \in CursorFields /\ cur.count \in Nat /\ cur.retrieved \in Nat
      /\ Fetching(cur, got, cut, server) /\ got \in Seq(Nat)
  BY CursorTypes DEF CursorInv, CursorFields
<1>2. WindowOf(cur) = Window /\ WindowOf(cur) \in Nat
  BY <1>1, WindowIsNat DEF WindowOf, Window
<1>3. /\ Len(got) + cur.count = cur.retrieved /\ Len(got) \in Nat
      /\ \A i \in 1..Len(got) : got[i] = cur.skip + i
  BY <1>1 DEF Fetching, Ordered
<1>4. ASSUME ~cut
      PROVE  /\ cur.retrieved <= Window
             /\ cur.killed \/ cur.id = 0 => cur.retrieved = Window
  BY <1>1, <1>2, <1>4 DEF Fetching, Within
<1> QED
  BY <1>1, <1>2, <1>3, <1>4 DEF ReturnsWindow

\* The cursor, those of the servers and the dying ones keep their types
\* (cursor.py:42).
THEOREM CursorTypeCorrect == CursorSpec => []CursorTypeOK
<1>1. CursorInv => CursorTypeOK
  BY DEF CursorInv
<1> QED
  BY <1>1, CursorInvariant, PTL

\* However limit, batch size and the size of replies divide what a query finds,
\* the user gets the documents asked for, in order and to the last, unless it is
\* cut short (cursor.py: __send_message, _refresh, next).
THEOREM ReturnsWindowCorrect == CursorSpec => []ReturnsWindow
BY CursorInvariant, CursorInvReturns, PTL

----------------------------------------------------------------------------
(* Cursor: a server cursor is somebody's.                                  *)

\* The server and the lists as they were, and the cursor still that of before.
LEMMA StillOwned ==
  ASSUME CursorsEnd, dying \subseteq dying', abandoned \subseteq abandoned',
         \A i \in Ids : server'[i].state = "open" => server[i].state = "open",
         \A i \in Ids : i = cur.id /\ ~cur.killed =>
           (i = cur'.id /\ ~cur'.killed) \/ i \in dying' \union abandoned'
  PROVE  CursorsEnd'
BY DEF CursorsEnd

\* __die, after which the cursor need not be remembered.
LEMMA DieDisowns ==
  ASSUME CursorTypeOK, CursorsEnd, Die PROVE CursorsEnd'
<1>1. ASSUME NEW i \in Ids, server'[i].state = "open"
      PROVE  i \in dying' \union abandoned'
  <2>1. /\ server'[i] = server[i]
        /\ i \in dying \union abandoned => i \in dying' \union abandoned'
        /\ i = cur.id /\ ~cur.killed => i \in dying' \union abandoned'
    BY <1>1, DieGoes
  <2>2. (i = cur.id /\ ~cur.killed) \/ i \in dying \union abandoned
    BY <1>1, <2>1 DEF CursorsEnd
  <2> QED
    BY <2>1, <2>2
<1> QED
  BY <1>1 DEF CursorsEnd

LEMMA AsksOwned ==
  ASSUME CursorTypeOK, CursorsEnd, Refreshes, NEW i \in Ids, NEW query \in BOOLEAN,
         cur.retrieved \in Nat, cur.skip \in Nat, cur.limit \in Int,
         Asks(i, query)
  PROVE  CursorsEnd'
<1>1. PICK pos \in Nat, n \in Int, host \in Members \union {NoMember} :
        \E r \in Replies(pos, n, query) :
          /\ Served(i, pos, host, r)
          /\ \/ cur' = Filled(i, pos, host, r) /\ UNCHANGED <<cut, abandoned>>
             \/ /\ cur' = [cur EXCEPT !.killed = TRUE]
                /\ cut' = TRUE
                /\ abandoned' = abandoned \union {i}
  BY DEF Asks
<1>2. PICK r \in Replies(pos, n, query) :
        /\ Served(i, pos, host, r)
        /\ \/ cur' = Filled(i, pos, host, r) /\ UNCHANGED <<cut, abandoned>>
           \/ /\ cur' = [cur EXCEPT !.killed = TRUE]
              /\ cut' = TRUE
              /\ abandoned' = abandoned \union {i}
  BY <1>1
<1>3. /\ server'[i].state = "open" <=> r.open
      /\ \A j \in Ids : j # i => server'[j] = server[j]
  BY <1>2, ServedGoes
<1>4. dying' = dying /\ ~cur.killed /\ (cur.id = None \/ cur.id = i) /\ cur \in CursorFields
  BY CursorTypes DEF Asks, Refreshes
<1>5. i \notin {None, 0} /\ \A j \in Ids : j # None
  BY IdsAreNumbers
<1>6. CASE cur' = Filled(i, pos, host, r) /\ UNCHANGED <<cut, abandoned>>
  <2>1. r.open => cur'.id = i /\ ~cur'.killed
    <3> SUFFICES ASSUME r.open PROVE cur'.id = i /\ ~cur'.killed
      OBVIOUS
    <3> DEFINE middle == [cur EXCEPT
             !.id = IF r.open THEN i ELSE 0,
             !.conn = IF kind = "ReplicaSetConnection" THEN host ELSE NoMember,
             !.retrieved = @ + r.count, !.next = pos + 1, !.count = r.count]
    <3>1. middle.id = i /\ middle.killed = cur.killed
          /\ middle = [middle EXCEPT !.full = middle.full]
      BY <1>4 DEF CursorFields
    <3> DEFINE filled == middle.limit # 0 /\ r.open /\ middle.limit <= middle.retrieved
               dead == middle.killed \/ (cur.id = None /\ ~r.open)
               new == [middle EXCEPT !.full = filled, !.killed = dead]
    <3>2. cur' = new
      BY <1>6 DEF Filled
    <3>3. DOMAIN middle = DOMAIN cur
      OBVIOUS
    <3>4. {"id", "killed", "full"} \subseteq DOMAIN cur
      BY <1>4 DEF CursorFields
    <3>5. ~dead
      BY <1>4, <3>1
    <3> HIDE DEF middle, filled, dead
    <3>6. new.id = middle.id /\ new.killed = dead
      BY <3>3, <3>4
    <3> QED
      BY <3>1, <3>2, <3>5, <3>6
  <2>2. ASSUME NEW j \in Ids, server'[j].state = "open"
        PROVE  (j = cur'.id /\ ~cur'.killed) \/ j \in dying' \union abandoned'
    <3>1. CASE j = i
      BY <1>3, <2>1, <2>2, <3>1
    <3>2. CASE j # i
      <4>1. server[j].state = "open" /\ j # cur.id
        BY <1>3, <1>4, <1>5, <2>2, <3>2
      <4> QED
        BY <1>4, <1>6, <4>1 DEF CursorsEnd
    <3> QED
      BY <3>1, <3>2
  <2> QED
    BY <2>2 DEF CursorsEnd
<1>7. CASE abandoned' = abandoned \union {i}
  <2>1. ASSUME NEW j \in Ids, server'[j].state = "open"
        PROVE  j \in dying' \union abandoned'
    <3>1. CASE j = i
      BY <1>7, <3>1
    <3>2. CASE j # i
      <4>1. server[j].state = "open" /\ j # cur.id
        BY <1>3, <1>4, <1>5, <2>1, <3>2
      <4> QED
        BY <1>4, <1>7, <4>1 DEF CursorsEnd
    <3> QED
      BY <3>1, <3>2
  <2> QED
    BY <2>1 DEF CursorsEnd
<1> QED
  BY <1>2, <1>6, <1>7

LEMMA OwnedGoesOn ==
  ASSUME CursorInv, CursorsEnd, [CursorNext]_cursorVars
  PROVE  CursorsEnd'
<1>1. /\ CursorTypeOK /\ cur \in CursorFields /\ server \in [Ids -> ServerCursors]
      /\ cur.id \in {None, 0} \union Ids /\ cur.retrieved \in Nat /\ cur.skip \in Nat
      /\ cur.limit \in Int /\ \A i \in Ids : i > 0
  BY CursorTypes, IdsAreNumbers DEF CursorInv, CursorFields
<1>3. CASE \/ \E n \in Limits : Limit(n)
           \/ \E n \in BatchSizes : BatchSize(n)
           \/ \E n \in Skips : Skip(n)
           \/ \E a, b \in Skips : CursorSlice(a, b)
           \/ CursorIndex
  <2>1. /\ cur'.id = cur.id /\ cur'.killed = cur.killed
        /\ UNCHANGED <<server, dying, abandoned>>
    BY <1>1, <1>3
    DEF Limit, BatchSize, Skip, CursorSlice, CursorIndex, SetOption, CursorFields
  <2> QED
    BY <2>1 DEF CursorsEnd
<1>4. CASE CursorClose \/ KillAtLimit
  BY <1>1, <1>4, DieDisowns DEF CursorClose, KillAtLimit
<1>5. CASE CursorCloseFails \/ KillAtLimitFails
  <2>1. DieFails /\ UNCHANGED abandoned /\ cur'.id = cur.id /\ cur'.killed = cur.killed
    BY <1>1, <1>5 DEF CursorCloseFails, KillAtLimitFails, CursorFields
  <2>2. server' = server /\ dying \subseteq dying'
    BY <1>1, <2>1, DieFailsGoes
  <2> QED
    BY <2>1, <2>2, StillOwned
<1>6. CASE Rewind
  <2>1. /\ UNCHANGED <<server, dying>> /\ abandoned \subseteq abandoned'
        /\ cur.id \in Ids /\ ~cur.killed => cur.id \in abandoned'
    BY <1>1, <1>6 DEF Rewind, Alive
  <2> QED
    BY <2>1, StillOwned
<1>7. CASE Clone
  <2>1. CASE Die
    BY <1>1, <2>1, DieDisowns
  <2>2. CASE DieFails /\ abandoned' = abandoned \union {cur.id}
    <3>1. server' = server /\ dying \subseteq dying' /\ cur.id \in abandoned'
          /\ abandoned \subseteq abandoned'
      BY <1>1, <2>2, DieFailsGoes
    <3> QED
      BY <3>1, StillOwned
  <2> QED
    BY <1>7, <2>1, <2>2 DEF Clone
<1>8. CASE Pop
  <2>1. /\ cur'.id = cur.id /\ cur'.killed = cur.killed
        /\ UNCHANGED <<server, dying, abandoned>>
    BY <1>1, <1>8 DEF Pop, CursorFields
  <2> QED
    BY <2>1 DEF CursorsEnd
<1>9. CASE SendQuery
  <2>1. PICK i \in Ids : Asks(i, TRUE)
    BY <1>9, SendQueryAsks
  <2> DEFINE query == TRUE
  <2>2. query \in BOOLEAN /\ Asks(i, query) /\ Refreshes
    BY <1>9, <2>1 DEF SendQuery
  <2> HIDE DEF query
  <2> QED
    BY <1>1, <2>2, AsksOwned
<1>10. CASE GetMore
  <2> DEFINE query == FALSE
  <2>1. query \in BOOLEAN /\ cur.id \in Ids /\ Asks(cur.id, query) /\ Refreshes
    BY <1>10, GetMoreAsks DEF GetMore
  <2> HIDE DEF query
  <2> QED
    BY <1>1, <2>1, AsksOwned
<1>11. CASE GetMoreFails
  <2>1. UNCHANGED <<server, dying>> /\ abandoned \subseteq abandoned'
        /\ (cur' = cur \/ cur.id \in abandoned')
    BY <1>11 DEF GetMoreFails
  <2> QED
    BY <2>1, StillOwned
<1>12. CASE \E i \in Ids : CursorTimesOut(i)
  <2>1. PICK i \in Ids : CursorTimesOut(i)
    BY <1>12
  <2>2. /\ UNCHANGED <<cur, dying, abandoned>>
        /\ \A j \in Ids : server'[j].state = "open" => server[j].state = "open"
    BY <1>1, <2>1 DEF CursorTimesOut, ServerCursors
  <2> QED
    BY <2>2, StillOwned
<1>13. CASE (\E n \in Members : Failover(n)) \/ UNCHANGED cursorVars
  BY <1>13 DEF Failover, cursorVars, CursorsEnd
<1> QED
  BY <1>3, <1>4, <1>5, <1>6, <1>7, <1>8, <1>9, <1>10, <1>11, <1>12, <1>13
  DEF CursorNext

\* No cursor is left open on a server without anybody to answer for it
\* (cursor.py: __die, __del__; cursor_manager.py: close).
THEOREM CursorsEndCorrect == CursorSpec => []CursorsEnd
<1>1. CursorInit => CursorsEnd
  BY DEF CursorInit, CursorsEnd
<1> QED
  BY <1>1, CursorInvariant, OwnedGoesOn, PTL DEF CursorSpec

----------------------------------------------------------------------------
(* GridFS: what a reader has in its buffer are bytes that the file's owner *)
(* has written, from its position on.                                      *)

\* The sequence s has bytes of w, those that follow the first a.
Run(s, w, a) == \A i \in 1..Len(s) : s[i] = <<w, a + i>>

LEMMA NothingIsRun ==
  ASSUME NEW w, NEW a
  PROVE  <<>> \in Data /\ Len(<<>>) = 0 /\ Run(<<>>, w, a)
BY EmptySeq DEF Data, Run

LEMMA DataLength ==
  ASSUME NEW s \in Data
  PROVE  Len(s) \in Nat /\ (Len(s) = 0 <=> s = <<>>)
<1>1. Len(s) \in Nat
  BY LenProperties DEF Data
<1>2. s # <<>> => Len(s) # 0
  BY EmptySeq DEF Data
<1>3. s = <<>> => Len(s) = 0
  BY EmptySeq
<1> QED
  BY <1>1, <1>2, <1>3

LEMMA TakenRuns ==
  ASSUME NEW w \in Writers, NEW g \in GridIn, g.given <= MaxBytes,
         NEW n \in Nat, n <= g.left, g.left <= g.given
  PROVE  /\ Taken(w, g, n) \in Data /\ Len(Taken(w, g, n)) = n
         /\ Run(Taken(w, g, n), w, g.given - g.left)
<1> DEFINE a == g.given - g.left
           s == [i \in 1..n |-> <<w, a + i>>]
<1>1. g.given \in Nat /\ g.left \in Nat /\ a \in Nat /\ a + n <= MaxBytes
  BY GridAssumption DEF GridIn
<1>2. Taken(w, g, n) = s
  BY DEF Taken
<1> HIDE DEF a
<1>3. \A i \in 1..n : a + i \in 1..MaxBytes
  BY <1>1, GridAssumption
<1>4. s \in [1..n -> Bytes]
  BY <1>3 DEF Bytes
<1>5. s \in Seq(Bytes)
  BY <1>4, SeqDef
<1>6. Len(s) = n
  <2>1. Len(s) \in Nat /\ DOMAIN s = 1..Len(s) /\ DOMAIN s = 1..n
    BY <1>4, <1>5, LenProperties
  <2> QED
    BY <2>1
<1>7. Run(s, w, a)
  BY <1>6 DEF Run
<1> QED
  BY <1>2, <1>5, <1>6, <1>7 DEF Data, a

LEMMA RunsJoin ==
  ASSUME NEW w, NEW a \in Nat, NEW s \in Data, NEW t \in Data,
         Run(s, w, a), Run(t, w, a + Len(s))
  PROVE  s \o t \in Data /\ Len(s \o t) = Len(s) + Len(t) /\ Run(s \o t, w, a)
<1>1. Len(s) \in Nat /\ Len(t) \in Nat
  BY DataLength
<1>2. /\ s \o t \in Data /\ Len(s \o t) = Len(s) + Len(t)
      /\ \A i \in 1..(Len(s) + Len(t)) :
           (s \o t)[i] = IF i <= Len(s) THEN s[i] ELSE t[i - Len(s)]
  BY ConcatProperties DEF Data
<1>3. ASSUME NEW i \in 1..(Len(s) + Len(t))
      PROVE  (s \o t)[i] = <<w, a + i>>
  <2>1. CASE i <= Len(s)
    BY <1>1, <1>2, <2>1 DEF Run
  <2>2. CASE ~(i <= Len(s))
    <3>1. i - Len(s) \in 1..Len(t) /\ (a + Len(s)) + (i - Len(s)) = a + i
      BY <1>1, <2>2
    <3> QED
      BY <1>2, <2>2, <3>1 DEF Run
  <2> QED
    BY <2>1, <2>2
<1> QED
  BY <1>1, <1>2, <1>3 DEF Run

\* Any two sequences, of which nothing else is known.
LEMMA DataJoin ==
  ASSUME NEW s \in Data, NEW t \in Data
  PROVE  s \o t \in Data /\ Len(s \o t) = Len(s) + Len(t)
BY ConcatProperties DEF Data

\* The elements of s from m on.
LEMMA RestOfData ==
  ASSUME NEW s \in Data, NEW m \in 1..(Len(s) + 1)
  PROVE  /\ SubSeq(s, m, Len(s)) \in Data
         /\ Len(SubSeq(s, m, Len(s))) = Len(s) - m + 1
         /\ \A i \in 1..(Len(s) - m + 1) : SubSeq(s, m, Len(s))[i] = s[m + i - 1]
<1>1. Len(s) \in Nat
  BY DataLength
<1>2. \A i \in m..Len(s) : s[i] \in Bytes
  BY <1>1, LenProperties, ElementOfSeq DEF Data
<1>3. m \in Int /\ Len(s) \in Int
  BY <1>1
<1> DEFINE n == Len(s)
<1> HIDE DEF n
<1>4. n \in Int /\ \A i \in m..n : s[i] \in Bytes
  BY <1>2, <1>3 DEF n
<1>5. /\ SubSeq(s, m, n) \in Seq(Bytes)
      /\ Len(SubSeq(s, m, n)) = IF m <= n THEN n - m + 1 ELSE 0
      /\ \A i \in 1..(n - m + 1) : SubSeq(s, m, n)[i] = s[m + i - 1]
  BY <1>3, <1>4, SubSeqProperties
<1> QED
  BY <1>1, <1>5 DEF n, Data

LEMMA StartOfData ==
  ASSUME NEW s \in Data, NEW k \in 0..Len(s)
  PROVE  /\ SubSeq(s, 1, k) \in Data
         /\ Len(SubSeq(s, 1, k)) = k
         /\ \A i \in 1..k : SubSeq(s, 1, k)[i] = s[i]
<1>1. Len(s) \in Nat
  BY DataLength
<1>2. \A i \in 1..k : s[i] \in Bytes
  BY <1>1, LenProperties, ElementOfSeq DEF Data
<1>3. 1 \in Int /\ k \in Int
  BY <1>1
<1>4. /\ SubSeq(s, 1, k) \in Seq(Bytes)
      /\ Len(SubSeq(s, 1, k)) = IF 1 <= k THEN k - 1 + 1 ELSE 0
      /\ \A i \in 1..(k - 1 + 1) : SubSeq(s, 1, k)[i] = s[1 + i - 1]
  BY <1>2, <1>3, SubSeqProperties
<1>5. \A i \in 1..k : SubSeq(s, 1, k)[i] = s[i]
  BY <1>1, <1>4
<1> QED
  BY <1>1, <1>4, <1>5 DEF Data

LEMMA RunGoesOn ==
  ASSUME NEW w, NEW a \in Nat, NEW s \in Data, Run(s, w, a),
         NEW m \in 1..(Len(s) + 1)
  PROVE  Run(SubSeq(s, m, Len(s)), w, a + m - 1)
<1>1. Len(s) \in Nat
  BY DataLength
<1>2. ASSUME NEW i \in 1..(Len(s) - m + 1)
      PROVE  SubSeq(s, m, Len(s))[i] = <<w, (a + m - 1) + i>>
  <2>1. m + i - 1 \in 1..Len(s) /\ a + (m + i - 1) = (a + m - 1) + i
    BY <1>1
  <2> QED
    BY <2>1, RestOfData DEF Run
<1> QED
  BY <1>2, RestOfData DEF Run

\* Where chunk n starts in the file.
Start(n) == n * chunkSize

LEMMA StartsOfChunks ==
  /\ Start(0) = 0
  /\ \A n \in Nat : Start(n) \in Nat /\ Start(n + 1) = Start(n) + chunkSize
  /\ \A n, m \in Nat : n < m => Start(n) + chunkSize <= Start(m)
<1>1. chunkSize \in Nat /\ chunkSize >= 1
  BY GridAssumption
<1>2. Start(0) = 0
  BY <1>1 DEF Start
<1>3. ASSUME NEW n \in Nat
      PROVE  Start(n) \in Nat /\ Start(n + 1) = Start(n) + chunkSize
  BY <1>1 DEF Start
<1>4. ASSUME NEW n \in Nat, NEW m \in Nat, n < m
      PROVE  Start(n) + chunkSize <= Start(m)
  <2>1. n + 1 <= m
    BY <1>4
  <2>2. (n + 1) * chunkSize <= m * chunkSize
    BY <1>1, <2>1
  <2> QED
    BY <1>1, <1>3, <2>2 DEF Start
<1> QED
  BY <1>2, <1>3, <1>4

\* The chunk in which a position is.
LEMMA ChunkOfPosition ==
  ASSUME NEW x \in Nat
  PROVE  /\ x \div chunkSize \in Nat
         /\ Start(x \div chunkSize) <= x
         /\ x < Start(x \div chunkSize) + chunkSize
         /\ x % chunkSize = x - Start(x \div chunkSize)
<1>1. chunkSize \in Nat /\ chunkSize >= 1
  BY GridAssumption
<1>2. x \div chunkSize \in Nat /\ x % chunkSize \in 0..(chunkSize - 1)
  BY <1>1
<1>3. x = chunkSize * (x \div chunkSize) + (x % chunkSize)
  BY <1>1
<1>4. chunkSize * (x \div chunkSize) = (x \div chunkSize) * chunkSize
  BY <1>1, <1>2
<1> DEFINE s == Start(x \div chunkSize)
<1>5. s \in Nat /\ x = s + (x % chunkSize)
  BY <1>2, <1>3, <1>4, StartsOfChunks DEF Start
<1> HIDE DEF s
<1>6. s <= x /\ x < s + chunkSize /\ x % chunkSize = x - s
  BY <1>1, <1>2, <1>5
<1> QED
  BY <1>2, <1>6 DEF s

\* The chunks are at most as many as the bytes.
LEMMA ChunkIsNumbered ==
  ASSUME NEW x \in Nat, x < MaxBytes + chunkSize
  PROVE  x \div chunkSize \in ChunkNumbers
<1> DEFINE n == x \div chunkSize
<1>1. chunkSize \in Nat /\ chunkSize >= 1 /\ MaxBytes \in Nat
  BY GridAssumption
<1>2. n \in Nat /\ n * chunkSize <= x
  BY ChunkOfPosition DEF Start
<1> HIDE DEF n
<1>3. n <= MaxBytes
  <2>1. SUFFICES ASSUME n >= MaxBytes + 1 PROVE FALSE
    BY <1>1, <1>2
  <2>2. (MaxBytes + 1) * chunkSize <= n * chunkSize
    BY <1>1, <1>2, <2>1
  <2>3. (MaxBytes + 1) * chunkSize = MaxBytes * chunkSize + chunkSize
    BY <1>1
  <2>4. MaxBytes <= MaxBytes * chunkSize
    BY <1>1
  <2>5. MaxBytes * chunkSize \in Nat /\ n * chunkSize \in Nat
    BY <1>1, <1>2
  <2> QED
    BY <1>1, <1>2, <2>2, <2>3, <2>4, <2>5
<1> QED
  BY <1>1, <1>2, <1>3 DEF n, ChunkNumbers

\* The counts of a GridIn: the chunks and the bytes in them.
InOK(g) ==
  /\ Len(g.buffer) <= chunkSize
  /\ g.position + Len(g.buffer) + g.left <= g.given
  /\ g.chunk_number <= g.position
  /\ g.pc = "flushBuffer" => Len(g.buffer) = chunkSize
  /\ g.pc = "loop" => g.buffer = <<>> /\ chunkSize <= g.left
  /\ g.pc \in {"open", "insert", "closed"} => g.left = 0
  /\ g.pc \in {"insert", "closed"} => g.buffer = <<>>

\* Chunk c is the nth of w, who has put so many bytes in chunks: only the last
\* may be short.
ChunkOK(w, position, c, n) ==
  /\ c.owner = w
  /\ Run(c.data, w, Start(n))
  /\ \/ Len(c.data) = chunkSize /\ Start(n) + chunkSize <= position
     \/ Start(n) + Len(c.data) = position

\* What an intact writer has in the chunks ch and in its buffer: all that it
\* was given, up to what write has not yet read.
WrittenKept(w, g, ch) ==
  /\ g.position + Len(g.buffer) + g.left = g.given
  /\ g.position <= Start(g.chunk_number)
  /\ g.buffer # <<>> \/ g.pc \in {"flushBuffer", "loop"}
       => g.position = Start(g.chunk_number)
  /\ Run(g.buffer, w, g.position)
  /\ \A n \in 0..(g.chunk_number - 1) : ChunkOK(w, g.position, ch[n], n)

\* What file holds, if writers are at in.
FileRecord(f, in) ==
  f # NoFile =>
    /\ f.owner \in Writers
    /\ f.length <= in[f.owner].position
    /\ in[f.owner].pc = "closed" /\ in[f.owner].intact
         => f.length = in[f.owner].given

\* The nth document in chunks.
ChunkRecord(n, c, in) ==
  c # NoChunk => c.owner \in Writers /\ n < in[c.owner].chunk_number

\* A GridOut: the position after its buffer is the start of a chunk or the end
\* of the file, and the next chunk is the one that starts there.
OutRecord(g, in) ==
  LET x == g.position + Len(g.buffer)
  IN  /\ g.pc = "none" => g.buffer = <<>>
      /\ g.pc # "none" => /\ g.file.owner \in Writers
                          /\ g.file.length <= in[g.file.owner].position
      /\ g.pc # "reading" => Len(g.buffer) < chunkSize
      /\ g.pc = "reading" => /\ g.had <= Len(g.buffer) /\ g.had < chunkSize
                             /\ g.position + g.size <= g.file.length
                             /\ Len(g.buffer) < chunkSize + g.size
      /\ g.buffer # <<>> => g.position <= g.file.length
      /\ g.pc # "none" /\ in[g.file.owner].intact =>
           /\ Run(g.buffer, g.file.owner, g.position)
           /\ g.buffer # <<>> =>
                g.file.length <= x \/ \E k \in Nat : x = Start(k)
           /\ g.pc = "reading" /\ Len(g.buffer) < g.size =>
                /\ Start(g.n) <= x /\ x < Start(g.n) + chunkSize
                /\ g.buffer # <<>> => x = Start(g.n)

GridInv ==
  /\ GridTypeOK
  /\ \A w \in Writers : /\ InOK(gridIn[w])
                        /\ gridIn[w].intact => WrittenKept(w, gridIn[w], chunk)
  /\ \A n \in ChunkNumbers : ChunkRecord(n, chunk[n], gridIn)
  /\ FileRecord(file, gridIn)
  /\ \A r \in Readers : OutRecord(gridOut[r], gridIn)

LEMMA FieldsOfIn ==
  ASSUME NEW g \in GridIn
  PROVE  /\ {g.position, g.left, g.given, g.chunk_number} \subseteq Nat
         /\ {g.position, g.left, g.given, g.chunk_number} \subseteq 0..MaxBytes
         /\ g.buffer \in Data /\ Len(g.buffer) \in Nat
<1>1. /\ {g.position, g.left, g.given, g.chunk_number} \subseteq 0..MaxBytes
      /\ g.buffer \in Data
  BY DEF GridIn, ChunkNumbers
<1>2. MaxBytes \in Nat
  BY GridAssumption
<1> QED
  BY <1>1, <1>2, DataLength

LEMMA NothingStored ==
  ASSUME NEW w, NEW ch, NEW g,
         g.buffer = <<>>, g.pc = "open", g.position = 0, g.chunk_number = 0,
         g.left = 0, g.given = 0
  PROVE  InOK(g) /\ WrittenKept(w, g, ch)
<1>1. Len(g.buffer) = 0 /\ Run(g.buffer, w, g.position)
  BY NothingIsRun
<1>2. chunkSize \in Nat /\ Start(g.chunk_number) = 0
  BY GridAssumption, StartsOfChunks
<1>3. \A n \in 0..(g.chunk_number - 1) : FALSE
  OBVIOUS
<1>4. InOK(g)
  BY <1>1, <1>2 DEF InOK
<1>5. WrittenKept(w, g, ch)
  BY <1>1, <1>2, <1>3 DEF WrittenKept
<1> QED
  BY <1>4, <1>5

LEMMA GridInvInit == GridInit => GridInv
<1> SUFFICES ASSUME GridInit PROVE GridInv
  OBVIOUS
<1> USE DEF GridInit
<1>a. NoFile \in [owner : Writers \union {NoWriter}, length : 0..MaxBytes]
  BY GridAssumption DEF NoFile
<1>b. <<>> \in Data /\ <<>> \in Seq(Bytes) /\ Len(<<>>) = 0
  BY NothingIsRun DEF Data
<1>c. 0 \in 0..MaxBytes /\ 0 \in ChunkNumbers /\ 0 \in Nat /\ chunkSize \in Nat /\ 0 < chunkSize
  BY GridAssumption DEF ChunkNumbers
<1>d. NoChunk \in [owner : Writers \union {NoWriter}, data : Data] /\ Len(NoChunk.data) = 0
  BY <1>b DEF NoChunk
<1>1. GridTypeOK
  <2>1. ASSUME NEW w \in Writers
        PROVE  gridIn[w] \in GridIn /\ Len(gridIn[w].buffer) <= chunkSize
    BY <1>b, <1>c DEF GridIn
  <2>2. ASSUME NEW r \in Readers
        PROVE  gridOut[r] \in GridOut
    BY <1>a, <1>b, <1>c DEF GridOut
  <2>3. gridIn \in [Writers -> GridIn] /\ gridOut \in [Readers -> GridOut]
    BY <2>1, <2>2
  <2>4. chunk \in [ChunkNumbers -> [owner : Writers \union {NoWriter}, data : Data]]
    BY <1>d
  <2>5. \A n \in ChunkNumbers : Len(chunk[n].data) <= chunkSize
    BY <1>c, <1>d
  <2> QED
    BY <1>a, <2>1, <2>3, <2>4, <2>5 DEF GridTypeOK
<1>2. ASSUME NEW w \in Writers
      PROVE  InOK(gridIn[w]) /\ WrittenKept(w, gridIn[w], chunk)
  <2> DEFINE g == gridIn[w]
  <2>1. /\ g.buffer = <<>> /\ g.pc = "open" /\ g.position = 0
        /\ g.chunk_number = 0 /\ g.left = 0 /\ g.given = 0
    OBVIOUS
  <2> HIDE DEF g
  <2> QED
    BY <2>1, NothingStored DEF g
<1>3. ASSUME NEW r \in Readers
      PROVE  OutRecord(gridOut[r], gridIn)
  BY <1>b, <1>c DEF OutRecord
<1> QED
  BY <1>1, <1>2, <1>3 DEF GridInv, ChunkRecord, FileRecord

----------------------------------------------------------------------------
(* The writers. *)

\* What a writer may do to the rest of the state: it moves on, and its chunks
\* come after each other.
Onward(g, h) ==
  /\ h \in GridIn
  /\ g.position <= h.position /\ g.chunk_number <= h.chunk_number
  /\ h.intact => g.intact

\* A document in chunks at most is new, and it is the writer's.
OneChunk(w, h, ch, ch2) ==
  \/ ch2 = ch
  \/ \E n \in ChunkNumbers, data \in Data :
       /\ ch[n] = NoChunk /\ n < h.chunk_number /\ Len(data) <= chunkSize
       /\ ch2 = [ch EXCEPT ![n] = [owner |-> w, data |-> data]]

\* Nobody else's invariant is touched by that.
LEMMA WriterMoves ==
  ASSUME GridInv, NEW w \in Writers, NEW h,
         gridIn' = [gridIn EXCEPT ![w] = h],
         Onward(gridIn[w], h), InOK(h), h.intact => WrittenKept(w, h, chunk'),
         OneChunk(w, h, chunk, chunk'),
         FileRecord(file', gridIn'),
         file' \in [owner : Writers \union {NoWriter}, length : 0..MaxBytes],
         UNCHANGED <<gridOut, deletion>>
  PROVE  GridInv'
<1> USE DEF GridInv, GridTypeOK
<1>1. /\ gridIn' \in [Writers -> GridIn] /\ gridIn'[w] = h
      /\ \A v \in Writers : v # w => gridIn'[v] = gridIn[v]
  BY DEF Onward
<1>2. \A v \in Writers : /\ gridIn[v].position <= gridIn'[v].position
                         /\ gridIn[v].chunk_number <= gridIn'[v].chunk_number
                         /\ gridIn'[v].intact => gridIn[v].intact
                         /\ gridIn[v].position \in Nat /\ gridIn'[v].position \in Nat
                         /\ gridIn[v].chunk_number \in Nat
                         /\ gridIn'[v].chunk_number \in Nat
  <2> SUFFICES ASSUME NEW v \in Writers
               PROVE  /\ gridIn[v].position <= gridIn'[v].position
                      /\ gridIn[v].chunk_number <= gridIn'[v].chunk_number
                      /\ gridIn'[v].intact => gridIn[v].intact
                      /\ gridIn[v].position \in Nat /\ gridIn'[v].position \in Nat
                      /\ gridIn[v].chunk_number \in Nat
                      /\ gridIn'[v].chunk_number \in Nat
    OBVIOUS
  <2>1. gridIn[v] \in GridIn /\ gridIn'[v] \in GridIn
    BY <1>1
  <2>2. /\ gridIn[v].position \in Nat /\ gridIn'[v].position \in Nat
        /\ gridIn[v].chunk_number \in Nat /\ gridIn'[v].chunk_number \in Nat
    BY <2>1, FieldsOfIn
  <2>3. CASE v = w
    BY <1>1, <2>2, <2>3 DEF Onward
  <2>4. CASE v # w
    BY <1>1, <2>2, <2>4
  <2> QED
    BY <2>3, <2>4
<1>3. /\ chunk' \in [ChunkNumbers -> [owner : Writers \union {NoWriter}, data : Data]]
      /\ \A n \in ChunkNumbers : Len(chunk'[n].data) <= chunkSize
      /\ \A n \in ChunkNumbers : chunk'[n] = chunk[n]
                                 \/ /\ chunk[n] = NoChunk /\ n < h.chunk_number
                                    /\ chunk'[n].owner = w
  <2>1. CASE chunk' = chunk
    BY <2>1
  <2>2. ASSUME NEW n \in ChunkNumbers, NEW data \in Data,
               chunk[n] = NoChunk, n < h.chunk_number, Len(data) <= chunkSize,
               chunk' = [chunk EXCEPT ![n] = [owner |-> w, data |-> data]]
        PROVE  <1>3!1 /\ <1>3!2 /\ <1>3!3
    <3> DEFINE c == [owner |-> w, data |-> data]
    <3>1. /\ c \in [owner : Writers \union {NoWriter}, data : Data]
          /\ Len(c.data) <= chunkSize /\ c.owner = w
      BY <2>2
    <3> HIDE DEF c
    <3>2. chunk' = [chunk EXCEPT ![n] = c]
      BY <2>2 DEF c
    <3>3. chunk'[n] = c /\ \A m \in ChunkNumbers : m # n => chunk'[m] = chunk[m]
      BY <3>2
    <3> QED
      BY <2>2, <3>1, <3>2, <3>3
  <2> QED
    BY <2>1, <2>2 DEF OneChunk
<1>4. GridTypeOK'
  <2>1. \A v \in Writers : Len(gridIn'[v].buffer) <= chunkSize
    BY <1>1 DEF InOK
  <2> QED
    BY <1>1, <1>3, <2>1
<1>5. ASSUME NEW v \in Writers
      PROVE  InOK(gridIn'[v]) /\ (gridIn'[v].intact => WrittenKept(v, gridIn'[v], chunk'))
  <2>1. CASE v = w
    BY <1>1, <2>1
  <2>2. CASE v # w
    <3>1. gridIn'[v] = gridIn[v] /\ InOK(gridIn[v])
      BY <1>1, <2>2
    <3>2. SUFFICES ASSUME gridIn[v].intact PROVE WrittenKept(v, gridIn[v], chunk')
      BY <3>1
    <3>3. WrittenKept(v, gridIn[v], chunk)
      BY <3>2
    <3>4. ASSUME NEW n \in 0..(gridIn[v].chunk_number - 1)
          PROVE  chunk'[n] = chunk[n]
      <4>1. n \in ChunkNumbers
        <5>1. gridIn[v].chunk_number \in 0..MaxBytes
          BY FieldsOfIn
        <5> QED
          BY <5>1, GridAssumption DEF ChunkNumbers
      <4>2. chunk[n].owner = v
        BY <3>3 DEF WrittenKept, ChunkOK
      <4>3. chunk[n] # NoChunk
        BY <4>2, GridAssumption DEF NoChunk
      <4> QED
        BY <1>3, <4>1, <4>3
    <3> QED
      BY <3>3, <3>4 DEF WrittenKept
  <2> QED
    BY <2>1, <2>2
<1>6. ASSUME NEW n \in ChunkNumbers
      PROVE  ChunkRecord(n, chunk'[n], gridIn')
  <2>1. CASE chunk'[n] = chunk[n]
    <3>1. ChunkRecord(n, chunk[n], gridIn) /\ n \in Nat
      BY GridAssumption DEF ChunkNumbers
    <3> QED
      BY <1>2, <2>1, <3>1 DEF ChunkRecord
  <2>2. CASE chunk'[n].owner = w /\ n < h.chunk_number
    BY <1>1, <2>2 DEF ChunkRecord
  <2> QED
    BY <1>3, <2>1, <2>2
<1>7. ASSUME NEW r \in Readers
      PROVE  OutRecord(gridOut'[r], gridIn')
  <2> DEFINE g == gridOut[r]
  <2>1. OutRecord(g, gridIn) /\ gridOut'[r] = g
    OBVIOUS
  <2>2. g.file.length \in Nat
    BY GridAssumption DEF GridOut
  <2> HIDE DEF g
  <2>3. OutRecord(g, gridIn')
    BY <1>2, <2>1, <2>2 DEF OutRecord
  <2> QED
    BY <2>1, <2>3
<1> QED
  BY <1>4, <1>5, <1>6, <1>7

LEMMA LoopOK ==
  ASSUME NEW w \in Writers, NEW g \in GridIn, g.buffer = <<>>,
         g.position + g.left <= g.given, g.chunk_number <= g.position
  PROVE  /\ Loop(w, g) \in GridIn /\ InOK(Loop(w, g))
         /\ Loop(w, g).position = g.position
         /\ Loop(w, g).chunk_number = g.chunk_number
         /\ Loop(w, g).given = g.given
         /\ Loop(w, g).intact = g.intact
         /\ Loop(w, g).pc \in {"open", "loop"}
<1>1. /\ g.position \in Nat /\ g.left \in Nat /\ g.given \in Nat
      /\ g.chunk_number \in Nat /\ g.given <= MaxBytes /\ g.left <= g.given
      /\ chunkSize \in Nat /\ chunkSize >= 1 /\ 0 \in 0..MaxBytes
  <2>1. {g.position, g.left, g.given, g.chunk_number} \subseteq Nat
    BY FieldsOfIn
  <2>2. g.given \in 0..MaxBytes
    BY FieldsOfIn
  <2> QED
    BY <2>1, <2>2, GridAssumption
<1>2. CASE g.left >= chunkSize
  <2> DEFINE h == [g EXCEPT !.pc = "loop"]
  <2>1. Loop(w, g) = h
    BY <1>2 DEF Loop
  <2>2. /\ h \in GridIn
        /\ h.pc = "loop" /\ h.buffer = <<>> /\ h.left = g.left /\ h.given = g.given
        /\ h.position = g.position /\ h.chunk_number = g.chunk_number
        /\ h.intact = g.intact
    BY DEF GridIn
  <2> HIDE DEF h
  <2>3. InOK(h)
    BY <1>1, <1>2, <2>2, NothingIsRun DEF InOK
  <2> QED
    BY <2>1, <2>2, <2>3
<1>3. CASE ~(g.left >= chunkSize)
  <2> DEFINE b == Taken(w, g, g.left)
  <2>1. b \in Data /\ Len(b) = g.left
    BY <1>1, TakenRuns
  <2> HIDE DEF b
  <2> DEFINE h == [g EXCEPT !.buffer = b, !.left = 0, !.pc = "open"]
  <2>2. Loop(w, g) = h
    BY <1>3 DEF Loop, b
  <2>3. /\ h \in GridIn
        /\ h.pc = "open" /\ h.buffer = b /\ h.left = 0 /\ h.given = g.given
        /\ h.position = g.position /\ h.chunk_number = g.chunk_number
        /\ h.intact = g.intact
    BY <1>1, <2>1 DEF GridIn
  <2> HIDE DEF h
  <2>4. InOK(h)
    BY <1>1, <1>3, <2>1, <2>3 DEF InOK
  <2> QED
    BY <2>2, <2>3, <2>4
<1> QED
  BY <1>2, <1>3

LEMMA LoopStored ==
  ASSUME NEW w \in Writers, NEW g \in GridIn, g.buffer = <<>>, NEW ch,
         g.position + g.left = g.given, g.position = Start(g.chunk_number),
         \A n \in 0..(g.chunk_number - 1) : ChunkOK(w, g.position, ch[n], n)
  PROVE  WrittenKept(w, Loop(w, g), ch)
<1>1. /\ g.position \in Nat /\ g.left \in Nat /\ g.given \in Nat
      /\ g.given <= MaxBytes /\ g.left <= g.given
      /\ g.given - g.left = g.position
  <2>1. {g.position, g.left, g.given} \subseteq Nat /\ g.given \in 0..MaxBytes
    BY FieldsOfIn
  <2> QED
    BY <2>1, GridAssumption
<1>2. CASE g.left >= chunkSize
  <2> DEFINE h == [g EXCEPT !.pc = "loop"]
  <2>1. Loop(w, g) = h
    BY <1>2 DEF Loop
  <2>2. /\ h.pc = "loop" /\ h.buffer = <<>> /\ h.left = g.left /\ h.given = g.given
        /\ h.position = g.position /\ h.chunk_number = g.chunk_number
    BY DEF GridIn
  <2> HIDE DEF h
  <2>3. Len(h.buffer) = 0 /\ Run(h.buffer, w, h.position)
    BY <2>2, NothingIsRun
  <2> QED
    BY <1>1, <2>1, <2>2, <2>3 DEF WrittenKept
<1>3. CASE ~(g.left >= chunkSize)
  <2> DEFINE b == Taken(w, g, g.left)
  <2>1. Len(b) = g.left /\ Run(b, w, g.position)
    BY <1>1, TakenRuns
  <2> HIDE DEF b
  <2> DEFINE h == [g EXCEPT !.buffer = b, !.left = 0, !.pc = "open"]
  <2>2. Loop(w, g) = h
    BY <1>3 DEF Loop, b
  <2>3. /\ h.buffer = b /\ h.left = 0 /\ h.given = g.given
        /\ h.position = g.position /\ h.chunk_number = g.chunk_number
    BY DEF GridIn
  <2> HIDE DEF h
  <2> QED
    BY <1>1, <2>1, <2>2, <2>3 DEF WrittenKept
<1> QED
  BY <1>2, <1>3

\* What is put into a full row of chunks: only the last may be short.
LEMMA ChunkFollows ==
  ASSUME NEW w \in Writers, NEW c \in Nat, NEW position \in Nat,
         position = Start(c),
         NEW ch, \A n \in 0..(c - 1) : ChunkOK(w, position, ch[n], n),
         \A n \in 0..(c - 1) : Len(ch[n].data) \in 0..chunkSize,
         NEW data \in Data, Run(data, w, position),
         NEW ch2, ch2[c] = [owner |-> w, data |-> data],
         \A n \in 0..(c - 1) : ch2[n] = ch[n]
  PROVE  \A n \in 0..c : ChunkOK(w, position + Len(data), ch2[n], n)
<1>1. Len(data) \in Nat /\ chunkSize \in Nat
  BY DataLength, GridAssumption
<1>2. ChunkOK(w, position + Len(data), ch2[c], c)
  BY <1>1 DEF ChunkOK
<1>3. ASSUME NEW n \in 0..(c - 1)
      PROVE  ChunkOK(w, position + Len(data), ch2[n], n)
  <2> DEFINE l == Len(ch[n].data)
             s == Start(n)
  <2>1. s \in Nat /\ s + chunkSize <= position
    <3>1. n \in Nat /\ n < c
      OBVIOUS
    <3> QED
      BY <3>1, StartsOfChunks
  <2>2. ChunkOK(w, position, ch[n], n) /\ l \in 0..chunkSize
    OBVIOUS
  <2>3. l = chunkSize
    <3>1. CASE s + l = position
      <4> HIDE DEF l, s
      <4> QED
        BY <1>1, <2>1, <2>2, <3>1
    <3> QED
      BY <2>2, <3>1 DEF ChunkOK
  <2>4. s + chunkSize <= position + Len(data)
    <3> HIDE DEF s
    <3> QED
      BY <1>1, <2>1
  <2> QED
    BY <2>2, <2>3, <2>4 DEF ChunkOK
<1> QED
  BY <1>2, <1>3

\* A file stays as it is while a writer goes on, and does not close it.
LEMMA FileStays ==
  ASSUME GridInv, NEW w \in Writers, NEW h,
         gridIn' = [gridIn EXCEPT ![w] = h],
         Onward(gridIn[w], h), h.pc # "closed", file' = file
  PROVE  /\ FileRecord(file', gridIn')
         /\ file' \in [owner : Writers \union {NoWriter}, length : 0..MaxBytes]
<1>1. /\ gridIn'[w] = h /\ gridIn \in [Writers -> GridIn] /\ h \in GridIn
      /\ \A v \in Writers : v # w => gridIn'[v] = gridIn[v]
  BY DEF GridInv, GridTypeOK, Onward
<1>2. file \in [owner : Writers \union {NoWriter}, length : 0..MaxBytes]
  BY DEF GridInv, GridTypeOK
<1>3. FileRecord(file, gridIn)
  BY DEF GridInv
<1>4. CASE file.owner = w
  <2>1. /\ gridIn[w].position \in Nat /\ h.position \in Nat
        /\ gridIn[w].position <= h.position /\ file.length \in Nat
    BY <1>1, <1>2, FieldsOfIn, GridAssumption DEF Onward
  <2> QED
    BY <1>1, <1>3, <1>4, <2>1, <1>2 DEF FileRecord
<1>5. CASE file.owner # w
  BY <1>1, <1>2, <1>3, <1>5 DEF FileRecord
<1> QED
  BY <1>2, <1>4, <1>5

\* A chunk is inserted, or dropped on the way.
LEMMA FlushDataOK ==
  ASSUME GridInv, NEW w \in Writers, NEW data \in Data,
         Len(data) >= 1, Len(data) <= chunkSize,
         gridIn[w].intact =>
           /\ gridIn[w].position = Start(gridIn[w].chunk_number)
           /\ Run(data, w, gridIn[w].position),
         NEW flushed \in GridIn, InOK(flushed), flushed.pc # "closed",
         flushed.position = gridIn[w].position + Len(data),
         flushed.chunk_number = gridIn[w].chunk_number + 1,
         flushed.intact = gridIn[w].intact,
         (flushed.intact
            /\ \A n \in 0..(flushed.chunk_number - 1) :
                 ChunkOK(w, flushed.position, chunk'[n], n))
           => WrittenKept(w, flushed, chunk'),
         FlushData(w, data, gridIn[w], flushed)
  PROVE  GridInv'
<1> USE DEF GridInv, GridTypeOK
<1> DEFINE g == gridIn[w]
           c == g.chunk_number
<1>1. /\ g \in GridIn /\ Len(data) \in Nat /\ g.position \in Nat /\ c \in Nat
      /\ c \in ChunkNumbers /\ MaxBytes \in Nat
  <2>1. g \in GridIn
    OBVIOUS
  <2>2. {g.position, g.chunk_number} \subseteq Nat
        /\ g.chunk_number \in 0..MaxBytes
    BY <2>1, FieldsOfIn
  <2> QED
    BY <2>1, <2>2, DataLength, GridAssumption DEF ChunkNumbers
<1>2. Onward(g, flushed)
  BY <1>1 DEF Onward
<1>3. CASE /\ chunk[c] = NoChunk
           /\ chunk' = [chunk EXCEPT ![c] = [owner |-> w, data |-> data]]
           /\ SetFields(w, flushed)
  <2>1. /\ gridIn' = [gridIn EXCEPT ![w] = flushed]
        /\ file' = file /\ UNCHANGED <<gridOut, deletion>>
    BY <1>3 DEF SetFields, SetIn
  <2>2. OneChunk(w, flushed, chunk, chunk')
    <3>1. c < flushed.chunk_number
      BY <1>1
    <3> QED
      BY <1>1, <1>3, <3>1 DEF OneChunk
  <2>3. flushed.intact => WrittenKept(w, flushed, chunk')
    <3> SUFFICES ASSUME flushed.intact PROVE WrittenKept(w, flushed, chunk')
      OBVIOUS
    <3>1. /\ g.position = Start(c) /\ Run(data, w, g.position)
          /\ WrittenKept(w, g, chunk)
      OBVIOUS
    <3>2. \A n \in 0..(c - 1) : ChunkOK(w, g.position, chunk[n], n)
      BY <3>1 DEF WrittenKept
    <3>3. \A n \in 0..(c - 1) : n \in ChunkNumbers /\ n # c
      BY <1>1 DEF ChunkNumbers
    <3>4. \A n \in 0..(c - 1) : Len(chunk[n].data) \in 0..chunkSize
      <4> SUFFICES ASSUME NEW n \in 0..(c - 1)
                   PROVE  Len(chunk[n].data) \in 0..chunkSize
        OBVIOUS
      <4>1. chunk[n].data \in Data /\ Len(chunk[n].data) <= chunkSize
        BY <3>3
      <4> QED
        BY <4>1, DataLength, GridAssumption
    <3>5. chunk'[c] = [owner |-> w, data |-> data]
          /\ \A n \in 0..(c - 1) : chunk'[n] = chunk[n]
      BY <1>1, <1>3, <3>3
    <3> DEFINE ch == chunk
               ch2 == chunk'
               p == g.position
    <3> HIDE DEF ch, ch2, c, p
    <3>6. \A n \in 0..c : ChunkOK(w, p + Len(data), ch2[n], n)
      <4>1. /\ c \in Nat /\ p \in Nat /\ p = Start(c)
            /\ \A n \in 0..(c - 1) : ChunkOK(w, p, ch[n], n)
            /\ \A n \in 0..(c - 1) : Len(ch[n].data) \in 0..chunkSize
            /\ Run(data, w, p) /\ ch2[c] = [owner |-> w, data |-> data]
            /\ \A n \in 0..(c - 1) : ch2[n] = ch[n]
        BY <1>1, <3>1, <3>2, <3>4, <3>5 DEF ch, ch2, c, p
      <4> QED
        BY <4>1, ChunkFollows
    <3>7. flushed.chunk_number - 1 = c /\ flushed.position = p + Len(data)
      BY <1>1 DEF c, p
    <3> QED
      BY <3>6, <3>7 DEF ch2
  <2>4. /\ FileRecord(file', gridIn')
        /\ file' \in [owner : Writers \union {NoWriter}, length : 0..MaxBytes]
    BY <1>2, <2>1, FileStays
  <2> QED
    BY <1>2, <2>1, <2>2, <2>3, <2>4, WriterMoves
<1>4. CASE SetFields(w, [flushed EXCEPT !.intact = FALSE]) /\ UNCHANGED chunk
  <2> DEFINE h == [flushed EXCEPT !.intact = FALSE]
  <2>1. /\ h \in GridIn /\ ~h.intact
        /\ h.pc = flushed.pc /\ h.buffer = flushed.buffer /\ h.left = flushed.left
        /\ h.given = flushed.given /\ h.position = flushed.position
        /\ h.chunk_number = flushed.chunk_number
    BY DEF GridIn
  <2>2. /\ gridIn' = [gridIn EXCEPT ![w] = h]
        /\ file' = file /\ UNCHANGED <<gridOut, deletion>>
    BY <1>4 DEF SetFields, SetIn
  <2> HIDE DEF h
  <2>3. InOK(h) /\ h.pc # "closed"
    BY <2>1 DEF InOK
  <2>4. Onward(g, h)
    BY <1>2, <2>1 DEF Onward
  <2>5. OneChunk(w, h, chunk, chunk')
    BY <1>4 DEF OneChunk
  <2>6. /\ FileRecord(file', gridIn')
        /\ file' \in [owner : Writers \union {NoWriter}, length : 0..MaxBytes]
    BY <2>2, <2>3, <2>4, FileStays
  <2> QED
    BY <2>1, <2>2, <2>3, <2>4, <2>5, <2>6, WriterMoves
<1> QED
  BY <1>3, <1>4 DEF FlushData

\* The facts about a writer that the following steps start from.
LEMMA WriterFacts ==
  ASSUME GridInv, NEW w \in Writers
  PROVE  /\ gridIn[w] \in GridIn /\ InOK(gridIn[w])
         /\ gridIn[w].intact => WrittenKept(w, gridIn[w], chunk)
         /\ gridIn[w].buffer \in Data /\ Len(gridIn[w].buffer) \in Nat
         /\ gridIn[w].buffer # <<>> => Len(gridIn[w].buffer) >= 1
         /\ gridIn[w].buffer = <<>> => Len(gridIn[w].buffer) = 0
         /\ gridIn[w].position \in Nat /\ gridIn[w].left \in Nat
         /\ gridIn[w].given \in Nat /\ gridIn[w].chunk_number \in Nat
         /\ gridIn[w].given <= MaxBytes
         /\ gridIn[w].intact \in BOOLEAN
         /\ chunkSize \in Nat /\ chunkSize >= 1 /\ MaxBytes \in Nat
<1> DEFINE g == gridIn[w]
<1>1. g \in GridIn /\ InOK(g) /\ (g.intact => WrittenKept(w, g, chunk))
  BY DEF GridInv, GridTypeOK
<1>2. chunkSize \in Nat /\ chunkSize >= 1 /\ MaxBytes \in Nat
  BY GridAssumption
<1> HIDE DEF g
<1>3. /\ {g.position, g.left, g.given, g.chunk_number} \subseteq Nat
      /\ g.given \in 0..MaxBytes
      /\ g.buffer \in Data
  BY <1>1, FieldsOfIn
<1>4. /\ Len(g.buffer) \in Nat
      /\ (g.buffer # <<>> => Len(g.buffer) >= 1)
      /\ (g.buffer = <<>> => Len(g.buffer) = 0)
  BY <1>3, DataLength
<1>5. g.intact \in BOOLEAN
  BY <1>1 DEF GridIn
<1> QED
  BY <1>1, <1>2, <1>3, <1>4, <1>5 DEF g

LEMMA FlushBufferOK ==
  ASSUME GridInv, NEW w \in Writers, FlushBuffer(w)
  PROVE  GridInv'
<1> DEFINE g == gridIn[w]
           data == g.buffer
<1>1. /\ g \in GridIn /\ InOK(g) /\ (g.intact => WrittenKept(w, g, chunk))
      /\ data \in Data /\ Len(data) \in Nat
      /\ g.position \in Nat /\ g.left \in Nat
      /\ g.given \in Nat /\ g.chunk_number \in Nat
      /\ g.given <= MaxBytes /\ g.intact \in BOOLEAN
      /\ chunkSize \in Nat /\ chunkSize >= 1 /\ MaxBytes \in Nat
  BY WriterFacts
<1> DEFINE flushed == [[g EXCEPT !.chunk_number = @ + 1, !.position = @ + Len(data)]
                      EXCEPT !.buffer = <<>>]
<1>2. g.pc = "flushBuffer" /\ FlushData(w, data, g, Loop(w, flushed))
  BY DEF FlushBuffer, Flushed
<1> HIDE DEF g
<1>3. Len(data) = chunkSize
  BY <1>1, <1>2 DEF InOK
<1>4. /\ g.position + Len(data) + g.left <= g.given
      /\ g.chunk_number <= g.position
  BY <1>1 DEF InOK
<1>5. /\ g.position + Len(data) \in 0..MaxBytes
      /\ g.chunk_number + 1 \in ChunkNumbers
      /\ g.chunk_number + 1 <= g.position + Len(data)
      /\ g.position + Len(data) + g.left <= g.given
  <2> DEFINE l == Len(data)
  <2> HIDE DEF l, data
  <2>1. /\ l \in Nat /\ l >= 1 /\ g.position + l + g.left <= g.given
    BY <1>1, <1>3, <1>4 DEF l
  <2> QED
    BY <1>1, <1>4, <2>1 DEF ChunkNumbers, l
<1>6. /\ flushed \in GridIn /\ flushed.buffer = <<>>
      /\ flushed.position = g.position + Len(data)
      /\ flushed.chunk_number = g.chunk_number + 1
      /\ flushed.left = g.left /\ flushed.given = g.given /\ flushed.intact = g.intact
  BY <1>1, <1>5, NothingIsRun DEF GridIn
<1> HIDE DEF flushed
<1>7. /\ flushed.position + flushed.left <= flushed.given
      /\ flushed.chunk_number <= flushed.position
  BY <1>5, <1>6
<1> DEFINE h == Loop(w, flushed)
<1>8. /\ h \in GridIn /\ InOK(h) /\ h.position = flushed.position
      /\ h.chunk_number = flushed.chunk_number /\ h.given = flushed.given
      /\ h.intact = flushed.intact /\ h.pc \in {"open", "loop"}
  BY <1>6, <1>7, LoopOK
<1>9. g.intact =>
        /\ g.position = Start(g.chunk_number) /\ Run(data, w, g.position)
        /\ g.position + Len(data) + g.left = g.given
  BY <1>1, <1>2 DEF WrittenKept
<1>10. ASSUME h.intact, NEW ch,
              \A n \in 0..(h.chunk_number - 1) : ChunkOK(w, h.position, ch[n], n)
       PROVE  WrittenKept(w, h, ch)
  <2>1. flushed.position = Start(flushed.chunk_number)
    BY <1>1, <1>3, <1>6, <1>8, <1>9, <1>10, StartsOfChunks
  <2>2. flushed.position + flushed.left = flushed.given
    BY <1>6, <1>8, <1>9, <1>10
  <2>3. \A n \in 0..(flushed.chunk_number - 1) : ChunkOK(w, flushed.position, ch[n], n)
    BY <1>8, <1>10
  <2> QED
    BY <1>6, <2>1, <2>2, <2>3, LoopStored
<1> HIDE DEF h, data
<1>11. /\ h.position = g.position + Len(data)
       /\ h.chunk_number = g.chunk_number + 1 /\ h.intact = g.intact
       /\ h.pc # "closed" /\ Len(data) >= 1 /\ Len(data) <= chunkSize
       /\ FlushData(w, data, g, h)
  BY <1>1, <1>2, <1>3, <1>6, <1>8 DEF h
<1>12. (h.intact /\ \A n \in 0..(h.chunk_number - 1) :
                      ChunkOK(w, h.position, chunk'[n], n))
         => WrittenKept(w, h, chunk')
  BY <1>10
<1> QED
  BY <1>1, <1>8, <1>9, <1>11, <1>12, FlushDataOK DEF g

LEMMA FlushChunkOK ==
  ASSUME GridInv, NEW w \in Writers, FlushChunk(w)
  PROVE  GridInv'
<1> DEFINE g == gridIn[w]
           data == Taken(w, g, chunkSize)
<1>1. /\ g \in GridIn /\ InOK(g) /\ (g.intact => WrittenKept(w, g, chunk))
      /\ g.position \in Nat /\ g.left \in Nat
      /\ g.given \in Nat /\ g.chunk_number \in Nat
      /\ g.given <= MaxBytes /\ g.intact \in BOOLEAN
      /\ chunkSize \in Nat /\ chunkSize >= 1 /\ MaxBytes \in Nat
  BY WriterFacts
<1> DEFINE flushed == [[g EXCEPT !.chunk_number = @ + 1, !.position = @ + Len(data)]
                      EXCEPT !.left = @ - chunkSize]
<1>2. g.pc = "loop" /\ FlushData(w, data, g, Loop(w, flushed))
  BY DEF FlushChunk, Flushed
<1> HIDE DEF g
<1>3. /\ g.buffer = <<>> /\ Len(g.buffer) = 0 /\ chunkSize <= g.left
      /\ g.position + g.left <= g.given /\ g.chunk_number <= g.position
      /\ g.left <= g.given
  <2>1. /\ g.buffer = <<>> /\ chunkSize <= g.left
        /\ g.position + Len(g.buffer) + g.left <= g.given
        /\ g.chunk_number <= g.position
    BY <1>1, <1>2 DEF InOK
  <2>2. Len(g.buffer) = 0
    BY <2>1, NothingIsRun
  <2> QED
    BY <1>1, <2>1, <2>2
<1>4. data \in Data /\ Len(data) = chunkSize /\ Run(data, w, g.given - g.left)
  BY <1>1, <1>3, TakenRuns
<1> HIDE DEF data
<1>5. /\ g.position + Len(data) \in 0..MaxBytes
      /\ g.chunk_number + 1 \in ChunkNumbers
      /\ g.chunk_number + 1 <= g.position + Len(data)
      /\ g.left - chunkSize \in 0..MaxBytes
      /\ g.position + Len(data) + (g.left - chunkSize) <= g.given
  <2> DEFINE l == Len(data)
  <2> HIDE DEF l
  <2>1. l \in Nat /\ l >= 1 /\ l = chunkSize
    BY <1>1, <1>4 DEF l
  <2>2. g.position + l \in 0..MaxBytes /\ g.position + l <= g.given
    BY <1>1, <1>3, <2>1
  <2>3. g.chunk_number + 1 <= g.position + l /\ g.chunk_number + 1 \in 0..MaxBytes
    BY <1>1, <1>3, <2>1, <2>2
  <2>4. g.left - chunkSize \in 0..MaxBytes
    BY <1>1, <1>3
  <2>5. g.position + l + (g.left - chunkSize) <= g.given
    BY <1>1, <1>3, <2>1
  <2> QED
    BY <2>2, <2>3, <2>4, <2>5 DEF l, ChunkNumbers
<1>6. /\ flushed \in GridIn /\ flushed.buffer = <<>>
      /\ flushed.position = g.position + Len(data)
      /\ flushed.chunk_number = g.chunk_number + 1
      /\ flushed.left = g.left - chunkSize
      /\ flushed.given = g.given /\ flushed.intact = g.intact
  BY <1>1, <1>3, <1>5 DEF GridIn
<1> HIDE DEF flushed
<1>7. /\ flushed.position + flushed.left <= flushed.given
      /\ flushed.chunk_number <= flushed.position
  BY <1>5, <1>6
<1> DEFINE h == Loop(w, flushed)
<1>8. /\ h \in GridIn /\ InOK(h) /\ h.position = flushed.position
      /\ h.chunk_number = flushed.chunk_number /\ h.given = flushed.given
      /\ h.intact = flushed.intact /\ h.pc \in {"open", "loop"}
  BY <1>6, <1>7, LoopOK
<1>9. g.intact =>
        /\ g.position = Start(g.chunk_number) /\ Run(data, w, g.position)
        /\ g.position + g.left = g.given
  <2> SUFFICES ASSUME g.intact
               PROVE  /\ g.position = Start(g.chunk_number) /\ Run(data, w, g.position)
                      /\ g.position + g.left = g.given
    OBVIOUS
  <2>1. /\ g.position = Start(g.chunk_number)
        /\ g.position + Len(g.buffer) + g.left = g.given
    BY <1>1, <1>2 DEF WrittenKept
  <2>2. g.position + g.left = g.given /\ g.given - g.left = g.position
    BY <1>1, <1>3, <2>1
  <2> QED
    BY <1>4, <2>1, <2>2
<1>10. ASSUME h.intact, NEW ch,
              \A n \in 0..(h.chunk_number - 1) : ChunkOK(w, h.position, ch[n], n)
       PROVE  WrittenKept(w, h, ch)
  <2>1. flushed.position = Start(flushed.chunk_number)
    BY <1>1, <1>4, <1>6, <1>8, <1>9, <1>10, StartsOfChunks
  <2>2. flushed.position + flushed.left = flushed.given
    BY <1>1, <1>4, <1>6, <1>8, <1>9, <1>10
  <2>3. \A n \in 0..(flushed.chunk_number - 1) : ChunkOK(w, flushed.position, ch[n], n)
    BY <1>8, <1>10
  <2> QED
    BY <1>6, <2>1, <2>2, <2>3, LoopStored
<1> HIDE DEF h
<1>11. /\ h.position = g.position + Len(data)
       /\ h.chunk_number = g.chunk_number + 1 /\ h.intact = g.intact
       /\ h.pc # "closed" /\ Len(data) >= 1 /\ Len(data) <= chunkSize
       /\ FlushData(w, data, g, h)
  BY <1>1, <1>2, <1>4, <1>6, <1>8 DEF h
<1>12. (h.intact /\ \A n \in 0..(h.chunk_number - 1) :
                      ChunkOK(w, h.position, chunk'[n], n))
         => WrittenKept(w, h, chunk')
  BY <1>10
<1> QED
  BY <1>4, <1>8, <1>9, <1>11, <1>12, FlushDataOK DEF g

\* A step of a writer that leaves the chunks and the file alone.
LEMMA OnlyFields ==
  ASSUME GridInv, NEW w \in Writers, NEW h,
         gridIn' = [gridIn EXCEPT ![w] = h],
         Onward(gridIn[w], h), InOK(h), h.intact => WrittenKept(w, h, chunk),
         h.pc # "closed",
         UNCHANGED <<file, chunk, gridOut, deletion>>
  PROVE  GridInv'
<1>1. /\ FileRecord(file', gridIn')
      /\ file' \in [owner : Writers \union {NoWriter}, length : 0..MaxBytes]
  BY FileStays
<1>2. OneChunk(w, h, chunk, chunk')
  BY DEF OneChunk
<1>3. h.intact => WrittenKept(w, h, chunk')
  OBVIOUS
<1> QED
  BY <1>1, <1>2, <1>3, WriterMoves

LEMMA CloseFileOK ==
  ASSUME GridInv, NEW w \in Writers, CloseFile(w)
  PROVE  GridInv'
<1> DEFINE g == gridIn[w]
           data == g.buffer
<1>1. /\ g \in GridIn /\ InOK(g) /\ (g.intact => WrittenKept(w, g, chunk))
      /\ data \in Data /\ Len(data) \in Nat
      /\ (data # <<>> => Len(data) >= 1) /\ (data = <<>> => Len(data) = 0)
      /\ g.position \in Nat /\ g.left \in Nat
      /\ g.given \in Nat /\ g.chunk_number \in Nat
      /\ g.given <= MaxBytes /\ g.intact \in BOOLEAN
      /\ chunkSize \in Nat /\ chunkSize >= 1 /\ MaxBytes \in Nat
  BY WriterFacts
<1> DEFINE closing == [g EXCEPT !.buffer = <<>>, !.pc = "insert"]
           flushed == [closing EXCEPT !.chunk_number = @ + 1,
                                   !.position = @ + Len(data)]
<1>2. /\ g.pc = "open"
      /\ data = <<>> => SetFields(w, closing) /\ UNCHANGED chunk
      /\ data # <<>> => FlushData(w, data, g, flushed)
  BY DEF CloseFile, Flushed
<1> HIDE DEF g
<1>3. /\ g.left = 0 /\ g.position + Len(data) + g.left <= g.given
      /\ g.chunk_number <= g.position /\ Len(data) <= chunkSize
  BY <1>1, <1>2 DEF InOK
<1>4. CASE data = <<>>
  <2>1. /\ closing \in GridIn /\ closing.pc = "insert" /\ closing.buffer = <<>>
        /\ closing.left = 0 /\ closing.given = g.given
        /\ closing.position = g.position
        /\ closing.chunk_number = g.chunk_number /\ closing.intact = g.intact
    BY <1>1, <1>3, NothingIsRun DEF GridIn
  <2>2. /\ gridIn' = [gridIn EXCEPT ![w] = closing]
        /\ UNCHANGED <<file, chunk, gridOut, deletion>>
    BY <1>2, <1>4 DEF SetFields, SetIn
  <2> HIDE DEF closing
  <2>3. InOK(closing)
    BY <1>1, <1>3, <1>4, <2>1 DEF InOK
  <2>4. closing.intact => WrittenKept(w, closing, chunk)
    BY <1>1, <1>3, <1>4, <2>1 DEF WrittenKept
  <2>5. Onward(g, closing)
    BY <1>1, <2>1 DEF Onward
  <2> QED
    BY <2>1, <2>2, <2>3, <2>4, <2>5, OnlyFields DEF g
<1>5. CASE data # <<>>
  <2>1. /\ g.position + Len(data) \in 0..MaxBytes
        /\ g.chunk_number + 1 \in ChunkNumbers
        /\ g.chunk_number + 1 <= g.position + Len(data)
        /\ g.position + Len(data) <= g.given
        /\ Len(data) >= 1
    <3> DEFINE l == Len(data)
    <3> HIDE DEF l, data
    <3>1. l \in Nat /\ l >= 1 /\ g.position + l + g.left <= g.given
      BY <1>1, <1>3, <1>5 DEF l
    <3> QED
      BY <1>1, <1>3, <3>1 DEF ChunkNumbers, l
  <2>2. /\ flushed \in GridIn /\ flushed.buffer = <<>> /\ flushed.pc = "insert"
        /\ flushed.position = g.position + Len(data)
        /\ flushed.chunk_number = g.chunk_number + 1
        /\ flushed.left = 0 /\ flushed.given = g.given /\ flushed.intact = g.intact
    <3>1. closing \in GridIn /\ closing.pc = "insert" /\ closing.buffer = <<>>
          /\ closing.left = 0 /\ closing.given = g.given
          /\ closing.position = g.position
          /\ closing.chunk_number = g.chunk_number /\ closing.intact = g.intact
      BY <1>1, <1>3, NothingIsRun DEF GridIn
    <3> HIDE DEF closing
    <3> QED
      BY <2>1, <3>1 DEF GridIn
  <2> HIDE DEF flushed
  <2>3. Len(flushed.buffer) = 0
    BY <2>2, NothingIsRun
  <2>4. InOK(flushed)
    BY <1>1, <2>1, <2>2, <2>3 DEF InOK
  <2>5. g.intact =>
          /\ g.position = Start(g.chunk_number) /\ Run(data, w, g.position)
          /\ g.position + Len(data) + g.left = g.given
    BY <1>1, <1>5 DEF WrittenKept
  <2>6. (flushed.intact /\ \A n \in 0..(flushed.chunk_number - 1) :
                          ChunkOK(w, flushed.position, chunk'[n], n))
          => WrittenKept(w, flushed, chunk')
    <3> SUFFICES ASSUME flushed.intact,
                        \A n \in 0..(flushed.chunk_number - 1) :
                          ChunkOK(w, flushed.position, chunk'[n], n)
                 PROVE  WrittenKept(w, flushed, chunk')
      OBVIOUS
    <3>1. /\ g.position = Start(g.chunk_number)
          /\ g.position + Len(data) + g.left = g.given
      BY <2>2, <2>5
    <3>2. flushed.position + Len(flushed.buffer) + flushed.left = flushed.given
      <4> HIDE DEF data
      <4> QED
        BY <1>1, <1>3, <2>2, <2>3, <3>1
    <3>3. flushed.position <= Start(flushed.chunk_number)
      <4>1. Start(flushed.chunk_number) = g.position + chunkSize
        BY <1>1, <2>2, <3>1, StartsOfChunks
      <4> HIDE DEF data
      <4> QED
        BY <1>1, <1>3, <2>2, <4>1
    <3>4. Run(flushed.buffer, w, flushed.position)
      BY <2>2, NothingIsRun
    <3> QED
      BY <2>2, <3>2, <3>3, <3>4 DEF WrittenKept
  <2> HIDE DEF data
  <2>7. /\ FlushData(w, data, g, flushed) /\ Len(data) >= 1 /\ Len(data) <= chunkSize
        /\ flushed.pc # "closed"
    BY <1>2, <1>3, <1>5, <2>1, <2>2
  <2> QED
    BY <1>1, <2>2, <2>4, <2>5, <2>6, <2>7, FlushDataOK DEF g
<1> QED
  BY <1>4, <1>5

LEMMA WriteFailsOK ==
  ASSUME GridInv, NEW w \in Writers, WriteFails(w)
  PROVE  GridInv'
<1> DEFINE g == gridIn[w]
           h == [g EXCEPT !.pc = "open", !.left = 0, !.intact = FALSE]
<1>1. /\ g \in GridIn /\ InOK(g) /\ Len(g.buffer) \in Nat
      /\ g.position \in Nat /\ g.left \in Nat
      /\ g.given \in Nat /\ g.chunk_number \in Nat /\ MaxBytes \in Nat
  BY WriterFacts
<1>2. /\ gridIn' = [gridIn EXCEPT ![w] = h]
      /\ UNCHANGED <<file, chunk, gridOut, deletion>>
  BY DEF WriteFails, SetFields, SetIn
<1> HIDE DEF g
<1>3. /\ h \in GridIn /\ h.pc = "open" /\ h.buffer = g.buffer /\ h.left = 0
      /\ h.given = g.given /\ h.position = g.position
      /\ h.chunk_number = g.chunk_number /\ ~h.intact
  <2>1. 0 \in 0..MaxBytes
    BY <1>1
  <2> QED
    BY <1>1, <2>1 DEF GridIn
<1> HIDE DEF h
<1>4. InOK(h)
  BY <1>1, <1>3 DEF InOK
<1>5. Onward(g, h) /\ h.pc # "closed"
  BY <1>1, <1>3 DEF Onward
<1> QED
  BY <1>2, <1>3, <1>4, <1>5, OnlyFields DEF g

LEMMA GridWriteOK ==
  ASSUME GridInv, NEW w \in Writers, NEW n \in WriteSizes, GridWrite(w, n)
  PROVE  GridInv'
<1> DEFINE o == gridIn[w]
           aligned == o.position = o.chunk_number * chunkSize
           g == [o EXCEPT !.given = @ + n, !.left = n, !.intact = @ /\ aligned]
           space == chunkSize - Len(g.buffer)
           some == IF n < space THEN n ELSE space
           b == g.buffer \o Taken(w, g, some)
           filled == [g EXCEPT !.buffer = b, !.left = @ - some]
<1>1. /\ o \in GridIn /\ InOK(o) /\ (o.intact => WrittenKept(w, o, chunk))
      /\ o.buffer \in Data /\ Len(o.buffer) \in Nat
      /\ (o.buffer # <<>> => Len(o.buffer) >= 1)
      /\ (o.buffer = <<>> => Len(o.buffer) = 0)
      /\ o.position \in Nat /\ o.left \in Nat
      /\ o.given \in Nat /\ o.chunk_number \in Nat /\ o.intact \in BOOLEAN
      /\ chunkSize \in Nat /\ chunkSize >= 1 /\ MaxBytes \in Nat
  BY WriterFacts
<1>2. /\ g.pc = "open" /\ g.given <= MaxBytes
      /\ \/ g.buffer = <<>> /\ SetFields(w, Loop(w, g))
         \/ g.buffer # <<>> /\ n < space /\ SetFields(w, filled)
         \/ /\ g.buffer # <<>> /\ n >= space
            /\ SetFields(w, [filled EXCEPT !.pc = "flushBuffer"])
      /\ UNCHANGED chunk
  BY DEF GridWrite
<1>3. n \in Nat
  BY GridAssumption
<1> HIDE DEF o, aligned
<1>4. /\ g.pc = o.pc /\ g.buffer = o.buffer /\ g.left = n
      /\ g.given = o.given + n /\ g.position = o.position
      /\ g.chunk_number = o.chunk_number
      /\ g.intact = (o.intact /\ aligned)
  BY <1>1 DEF GridIn
<1>5. g \in GridIn /\ g.given \in Nat /\ g.left <= g.given
  <2>1. o.given + n \in 0..MaxBytes /\ n \in 0..MaxBytes /\ n <= o.given + n
    BY <1>1, <1>2, <1>3, <1>4
  <2>2. (o.intact /\ aligned) \in BOOLEAN
    BY <1>1 DEF aligned
  <2>3. g \in GridIn
    BY <1>1, <2>1, <2>2 DEF GridIn
  <2> QED
    BY <1>4, <2>1, <2>3
<1> HIDE DEF g
<1>6. /\ o.left = 0 /\ o.position + Len(o.buffer) <= o.given
      /\ o.chunk_number <= o.position /\ Len(o.buffer) <= chunkSize
  <2>1. o.left = 0 /\ o.position + Len(o.buffer) + o.left <= o.given
        /\ o.chunk_number <= o.position /\ Len(o.buffer) <= chunkSize
    BY <1>1, <1>2, <1>4 DEF InOK
  <2> QED
    BY <1>1, <2>1
<1>7. g.intact =>
        /\ o.intact /\ WrittenKept(w, o, chunk)
        /\ g.position = Start(g.chunk_number)
        /\ o.position + Len(o.buffer) = o.given
        /\ \A k \in 0..(g.chunk_number - 1) : ChunkOK(w, g.position, chunk[k], k)
  <2> SUFFICES ASSUME g.intact
               PROVE  /\ o.intact /\ WrittenKept(w, o, chunk)
                      /\ g.position = Start(g.chunk_number)
                      /\ o.position + Len(o.buffer) = o.given
                      /\ \A k \in 0..(g.chunk_number - 1) :
                           ChunkOK(w, g.position, chunk[k], k)
    OBVIOUS
  <2>1. o.intact /\ aligned /\ WrittenKept(w, o, chunk)
    BY <1>1, <1>4
  <2>2. o.position = Start(o.chunk_number)
    BY <2>1 DEF aligned, Start
  <2>3. o.position + Len(o.buffer) + o.left = o.given
    BY <2>1 DEF WrittenKept
  <2>4. \A k \in 0..(o.chunk_number - 1) : ChunkOK(w, o.position, chunk[k], k)
    BY <2>1 DEF WrittenKept
  <2> QED
    BY <1>1, <1>4, <1>6, <2>1, <2>2, <2>3, <2>4
<1>8. CASE g.buffer = <<>> /\ SetFields(w, Loop(w, g))
  <2> DEFINE h == Loop(w, g)
  <2>1. /\ g.position + g.left <= g.given /\ g.chunk_number <= g.position
        /\ Len(o.buffer) = 0
    BY <1>1, <1>3, <1>4, <1>6, <1>8
  <2>2. /\ h \in GridIn /\ InOK(h) /\ h.position = g.position
        /\ h.chunk_number = g.chunk_number /\ h.given = g.given
        /\ h.intact = g.intact /\ h.pc \in {"open", "loop"}
    BY <1>5, <1>8, <2>1, LoopOK
  <2>3. h.intact => WrittenKept(w, h, chunk)
    <3> SUFFICES ASSUME g.intact PROVE WrittenKept(w, h, chunk)
      BY <2>2
    <3>1. g.position + g.left = g.given
      BY <1>1, <1>3, <1>4, <1>7, <2>1
    <3> DEFINE ch == chunk
    <3>2. \A k \in 0..(g.chunk_number - 1) : ChunkOK(w, g.position, ch[k], k)
      BY <1>7
    <3> HIDE DEF ch
    <3>3. WrittenKept(w, Loop(w, g), ch)
      BY <1>5, <1>7, <1>8, <3>1, <3>2, LoopStored
    <3> QED
      BY <3>3 DEF ch
  <2>4. /\ gridIn' = [gridIn EXCEPT ![w] = h]
        /\ UNCHANGED <<file, chunk, gridOut, deletion>>
    BY <1>2, <1>8 DEF SetFields, SetIn
  <2> HIDE DEF h
  <2>5. Onward(o, h) /\ h.pc # "closed"
    BY <1>1, <1>4, <2>2 DEF Onward
  <2> QED
    BY <2>2, <2>3, <2>4, <2>5, OnlyFields DEF o
<1>9. CASE g.buffer # <<>>
  <2>1. /\ space \in Nat /\ some \in Nat /\ some <= n /\ some <= space
        /\ Len(g.buffer) = Len(o.buffer)
    <3>1. Len(g.buffer) = Len(o.buffer)
      BY <1>4
    <3>2. space \in Nat
      BY <1>1, <1>6, <3>1
    <3> HIDE DEF space
    <3>3. some \in Nat /\ some <= n /\ some <= space
      BY <1>3, <3>2
    <3> QED
      BY <3>1, <3>2, <3>3
  <2> HIDE DEF some
  <2> DEFINE t == Taken(w, g, some)
  <2>2. t \in Data /\ Len(t) = some /\ Run(t, w, g.given - g.left)
    BY <1>2, <1>4, <1>5, <2>1, TakenRuns
  <2> HIDE DEF t
  <2>3. b = g.buffer \o t
    BY DEF t
  <2>4. b \in Data /\ Len(b) = Len(g.buffer) + some
    BY <1>1, <1>4, <2>2, <2>3, DataJoin
  <2>5. g.intact => Run(b, w, g.position)
    <3> SUFFICES ASSUME g.intact PROVE Run(b, w, g.position)
      OBVIOUS
    <3>1. Run(g.buffer, w, g.position)
      BY <1>4, <1>7 DEF WrittenKept
    <3>2. g.given - g.left = g.position + Len(g.buffer)
      BY <1>1, <1>3, <1>4, <1>7, <2>1
    <3>3. g.buffer \in Data /\ g.position \in Nat
      BY <1>1, <1>4
    <3> QED
      BY <2>2, <2>3, <3>1, <3>2, <3>3, RunsJoin
  <2> HIDE DEF b
  <2>6. n - some \in 0..MaxBytes
    <3>1. n <= MaxBytes
      BY <1>1, <1>2, <1>3, <1>4
    <3> QED
      BY <1>1, <1>3, <2>1, <3>1
  <2>7. /\ filled \in GridIn /\ filled.buffer = b /\ filled.left = n - some
        /\ filled.pc = "open" /\ filled.given = o.given + n
        /\ filled.position = o.position
        /\ filled.chunk_number = o.chunk_number /\ filled.intact = g.intact
    BY <1>2, <1>4, <1>5, <2>4, <2>6 DEF GridIn
  <2> DEFINE h == [filled EXCEPT !.pc = "flushBuffer"]
  <2>8. /\ h \in GridIn /\ h.buffer = b /\ h.left = n - some
        /\ h.pc = "flushBuffer" /\ h.given = o.given + n
        /\ h.position = o.position
        /\ h.chunk_number = o.chunk_number /\ h.intact = g.intact
    BY <2>7 DEF GridIn
  <2> HIDE DEF filled
  <2>9. PICK h2 : /\ SetFields(w, h2)
                  /\ \/ h2 = filled /\ n < space
                     \/ h2 = h /\ n >= space
    BY <1>2, <1>9
  <2>10. /\ h2 \in GridIn /\ h2.buffer = b /\ h2.left = n - some
         /\ h2.given = o.given + n /\ h2.position = o.position
         /\ h2.chunk_number = o.chunk_number /\ h2.intact = g.intact
         /\ \/ h2.pc = "open" /\ n < space
            \/ h2.pc = "flushBuffer" /\ n >= space
    BY <2>7, <2>8, <2>9
  <2> DEFINE l == Len(o.buffer)
             m == Len(b)
  <2>11. /\ n < space => some = n
         /\ ~(n < space) => some = space
    BY DEF some
  <2>12. /\ l \in Nat /\ l <= chunkSize /\ m = l + some /\ space = chunkSize - l
         /\ o.position + l <= o.given
    BY <1>1, <1>4, <1>6, <2>1, <2>4
  <2>13. InOK(h2)
    <3> HIDE DEF l, m, space
    <3>1. /\ m <= chunkSize /\ o.position + m + (n - some) <= o.given + n
          /\ n < space => n - some = 0
          /\ n >= space => m = chunkSize
      BY <1>1, <1>3, <2>1, <2>11, <2>12
    <3>2. Len(h2.buffer) = m
      BY <2>10 DEF m
    <3> QED
      BY <1>6, <2>10, <3>1, <3>2 DEF InOK
  <2>14. h2.intact => WrittenKept(w, h2, chunk)
    <3> SUFFICES ASSUME g.intact PROVE WrittenKept(w, h2, chunk)
      BY <2>10
    <3>1. Len(h2.buffer) = m /\ o.position + l = o.given
      BY <1>7, <2>10
    <3>2. h2.position + Len(h2.buffer) + h2.left = h2.given
      <4> HIDE DEF l, m, space
      <4> QED
        BY <1>1, <1>3, <2>1, <2>10, <2>12, <3>1
    <3>3. h2.position = Start(h2.chunk_number)
      BY <1>4, <1>7, <2>10
    <3>4. h2.position <= Start(h2.chunk_number)
      BY <1>1, <2>10, <3>3
    <3>5. Run(h2.buffer, w, h2.position)
      BY <1>4, <2>5, <2>10
    <3>6. \A k \in 0..(h2.chunk_number - 1) : ChunkOK(w, h2.position, chunk[k], k)
      BY <1>4, <1>7, <2>10
    <3> QED
      BY <3>2, <3>3, <3>4, <3>5, <3>6 DEF WrittenKept
  <2>15. /\ gridIn' = [gridIn EXCEPT ![w] = h2]
         /\ UNCHANGED <<file, chunk, gridOut, deletion>>
    BY <1>2, <2>9 DEF SetFields, SetIn
  <2>16. Onward(o, h2) /\ h2.pc # "closed"
    BY <1>1, <1>4, <2>10 DEF Onward
  <2> QED
    BY <2>10, <2>13, <2>14, <2>15, <2>16, OnlyFields DEF o
<1> QED
  BY <1>2, <1>8, <1>9

LEMMA EndOfCloseOK ==
  ASSUME GridInv, NEW w \in Writers, InsertFile(w) \/ CloseFileFails(w)
  PROVE  GridInv'
<1> DEFINE g == gridIn[w]
           closed == [g EXCEPT !.pc = "closed"]
           open == [g EXCEPT !.pc = "open"]
           new == [owner |-> w, length |-> g.position]
<1>1. /\ g \in GridIn /\ InOK(g) /\ (g.intact => WrittenKept(w, g, chunk))
      /\ Len(g.buffer) \in Nat
      /\ g.position \in Nat /\ g.left \in Nat
      /\ g.given \in Nat /\ g.chunk_number \in Nat
      /\ g.given <= MaxBytes /\ MaxBytes \in Nat
  BY WriterFacts
<1>2. /\ g.pc = "insert"
      /\ \/ gridIn' = [gridIn EXCEPT ![w] = closed] /\ file' = new
         \/ gridIn' = [gridIn EXCEPT ![w] = open] /\ (file' = new \/ file' = file)
      /\ UNCHANGED <<chunk, gridOut, deletion>>
  BY DEF InsertFile, CloseFileFails, SetIn
<1> HIDE DEF g
<1>3. /\ closed \in GridIn /\ closed.pc = "closed" /\ closed.buffer = g.buffer
      /\ closed.left = g.left /\ closed.given = g.given
      /\ closed.position = g.position
      /\ closed.chunk_number = g.chunk_number /\ closed.intact = g.intact
  BY <1>1 DEF GridIn
<1>4. /\ open \in GridIn /\ open.pc = "open" /\ open.buffer = g.buffer
      /\ open.left = g.left /\ open.given = g.given
      /\ open.position = g.position
      /\ open.chunk_number = g.chunk_number /\ open.intact = g.intact
  BY <1>1 DEF GridIn
<1> HIDE DEF closed, open
<1>5. PICK h : /\ gridIn' = [gridIn EXCEPT ![w] = h]
               /\ \/ h = closed /\ file' = new
                  \/ h = open /\ (file' = new \/ file' = file)
  BY <1>2
<1>6. /\ h \in GridIn /\ h.buffer = g.buffer /\ h.left = g.left
      /\ h.given = g.given /\ h.position = g.position
      /\ h.chunk_number = g.chunk_number /\ h.intact = g.intact
      /\ \/ h.pc = "closed" /\ file' = new
         \/ h.pc = "open" /\ (file' = new \/ file' = file)
  BY <1>3, <1>4, <1>5
<1>7. g.left = 0 /\ g.buffer = <<>> /\ Len(g.buffer) = 0
  BY <1>1, <1>2, NothingIsRun DEF InOK
<1>8. InOK(h)
  BY <1>1, <1>2, <1>6, <1>7 DEF InOK
<1>9. h.intact => WrittenKept(w, h, chunk')
  BY <1>1, <1>2, <1>6, <1>7 DEF WrittenKept
<1>10. Onward(g, h) /\ OneChunk(w, h, chunk, chunk')
  BY <1>1, <1>2, <1>6 DEF Onward, OneChunk
<1>11. h.intact => g.position = g.given
  BY <1>1, <1>6, <1>7 DEF WrittenKept
<1>12. /\ FileRecord(file', gridIn')
       /\ file' \in [owner : Writers \union {NoWriter}, length : 0..MaxBytes]
  <2>1. CASE file' = new
    <3>1. g.position \in 0..MaxBytes
      BY <1>1, <1>7 DEF InOK
    <3>2. gridIn'[w] = h
      BY <1>5 DEF GridInv, GridTypeOK
    <3>3. file'.owner = w /\ file'.length = g.position
      BY <2>1
    <3> QED
      BY <1>1, <1>6, <1>11, <2>1, <3>1, <3>2, <3>3 DEF FileRecord
  <2>2. CASE file' = file /\ h.pc # "closed"
    BY <1>5, <1>10, <2>2, FileStays DEF g
  <2>3. file' = new \/ (file' = file /\ h.pc # "closed")
    BY <1>6
  <2> QED
    BY <2>1, <2>2, <2>3
<1> QED
  BY <1>2, <1>5, <1>8, <1>9, <1>10, <1>12, WriterMoves DEF g

----------------------------------------------------------------------------
(* Deletions and readers. *)

LEMMA RemoveFileOK ==
  ASSUME GridInv, RemoveFile
  PROVE  GridInv'
<1>1. NoFile \in [owner : Writers \union {NoWriter}, length : 0..MaxBytes]
  BY GridAssumption DEF NoFile
<1> QED
  BY <1>1 DEF RemoveFile, GridInv, GridTypeOK, FileRecord

\* A writer that stays intact had nothing in the chunks that are removed.
LEMMA RemoveChunksOK ==
  ASSUME GridInv, RemoveChunks
  PROVE  GridInv'
<1> USE DEF GridInv, GridTypeOK
<1> DEFINE untouched(w) == \A n \in ChunkNumbers : chunk[n].owner # w
<1>1. /\ chunk' = [n \in ChunkNumbers |-> NoChunk]
      /\ gridIn' = [w \in Writers |->
           [gridIn[w] EXCEPT !.intact = gridIn[w].intact /\ untouched(w)]]
      /\ deletion' = "done" /\ UNCHANGED <<file, gridOut>>
  BY DEF RemoveChunks
<1>2. ASSUME NEW w \in Writers
      PROVE  /\ gridIn'[w] \in GridIn
             /\ gridIn'[w].intact => gridIn[w].intact /\ untouched(w)
             /\ gridIn'[w].pc = gridIn[w].pc
             /\ gridIn'[w].buffer = gridIn[w].buffer
             /\ gridIn'[w].left = gridIn[w].left
             /\ gridIn'[w].given = gridIn[w].given
             /\ gridIn'[w].position = gridIn[w].position
             /\ gridIn'[w].chunk_number = gridIn[w].chunk_number
  <2> DEFINE g == gridIn[w]
             i == g.intact /\ untouched(w)
             h == [g EXCEPT !.intact = i]
  <2>1. gridIn'[w] = h /\ g \in GridIn
    BY <1>1
  <2> HIDE DEF g
  <2>2. i \in BOOLEAN
    BY <2>1 DEF GridIn
  <2> HIDE DEF i
  <2>3. /\ h \in GridIn /\ h.intact = i /\ h.pc = g.pc
        /\ h.buffer = g.buffer /\ h.left = g.left
        /\ h.given = g.given /\ h.position = g.position
        /\ h.chunk_number = g.chunk_number
    BY <2>1, <2>2 DEF GridIn
  <2> HIDE DEF h
  <2>4. i => gridIn[w].intact /\ untouched(w)
    BY DEF i, g
  <2> QED
    BY <2>1, <2>3, <2>4 DEF g
<1>3. NoChunk \in [owner : Writers \union {NoWriter}, data : Data]
      /\ Len(NoChunk.data) <= chunkSize
  BY NothingIsRun, GridAssumption DEF NoChunk
<1>4. GridTypeOK'
  <2>1. gridIn' \in [Writers -> GridIn]
    <3>1. gridIn' = [w \in Writers |-> gridIn'[w]]
      BY <1>1
    <3> QED
      BY <1>2, <3>1
  <2>2. \A w \in Writers : Len(gridIn'[w].buffer) <= chunkSize
    BY <1>2
  <2>3. /\ chunk' \in [ChunkNumbers -> [owner : Writers \union {NoWriter}, data : Data]]
        /\ \A n \in ChunkNumbers : Len(chunk'[n].data) <= chunkSize
    BY <1>1, <1>3
  <2> QED
    BY <1>1, <2>1, <2>2, <2>3
<1>5. ASSUME NEW w \in Writers
      PROVE  InOK(gridIn'[w]) /\ (gridIn'[w].intact => WrittenKept(w, gridIn'[w], chunk'))
  <2>1. InOK(gridIn'[w])
    <3>1. InOK(gridIn[w])
      OBVIOUS
    <3> QED
      BY <1>2, <3>1 DEF InOK
  <2>2. ASSUME gridIn'[w].intact
        PROVE  WrittenKept(w, gridIn'[w], chunk')
    <3>1. WrittenKept(w, gridIn[w], chunk) /\ untouched(w)
      BY <1>2, <2>2
    <3>2. gridIn[w].chunk_number \in Nat /\ gridIn[w].chunk_number <= MaxBytes
          /\ MaxBytes \in Nat
      <4>1. gridIn[w].chunk_number \in 0..MaxBytes
        BY FieldsOfIn
      <4> QED
        BY <4>1, GridAssumption
    <3>3. ~(gridIn[w].chunk_number > 0)
      <4> SUFFICES ASSUME gridIn[w].chunk_number > 0 PROVE FALSE
        OBVIOUS
      <4>1. 0 \in 0..(gridIn[w].chunk_number - 1) /\ 0 \in ChunkNumbers
        BY <3>2 DEF ChunkNumbers
      <4>2. chunk[0].owner = w
        BY <3>1, <4>1 DEF WrittenKept, ChunkOK
      <4> QED
        BY <3>1, <4>1, <4>2
    <3>4. \A n \in 0..(gridIn[w].chunk_number - 1) : FALSE
      BY <3>2, <3>3
    <3> QED
      BY <1>2, <3>1, <3>4 DEF WrittenKept
  <2> QED
    BY <2>1, <2>2
<1>6. ASSUME NEW n \in ChunkNumbers
      PROVE  ChunkRecord(n, chunk'[n], gridIn')
  BY <1>1 DEF ChunkRecord
<1>7. FileRecord(file', gridIn')
  <2>1. FileRecord(file, gridIn) /\ file' = file
    BY <1>1
  <2>2. \A w \in Writers : /\ gridIn'[w].intact => gridIn[w].intact
                           /\ gridIn'[w].pc = gridIn[w].pc
                           /\ gridIn'[w].given = gridIn[w].given
                           /\ gridIn'[w].position = gridIn[w].position
    BY <1>2
  <2>3. FileRecord(file, gridIn')
    BY <2>1, <2>2 DEF FileRecord
  <2> QED
    BY <2>1, <2>3
<1>8. ASSUME NEW r \in Readers
      PROVE  OutRecord(gridOut'[r], gridIn')
  <2> DEFINE g == gridOut[r]
  <2>1. OutRecord(g, gridIn) /\ gridOut'[r] = g
    BY <1>1
  <2> HIDE DEF g
  <2>2. OutRecord(g, gridIn')
    BY <1>2, <2>1 DEF OutRecord
  <2> QED
    BY <2>1, <2>2
<1> QED
  BY <1>4, <1>5, <1>6, <1>7, <1>8

\* A step of a reader.
LEMMA ReaderMoves ==
  ASSUME GridInv, NEW r \in Readers, NEW h \in GridOut,
         gridOut' = [gridOut EXCEPT ![r] = h], OutRecord(h, gridIn),
         UNCHANGED <<file, chunk, gridIn, deletion>>
  PROVE  GridInv'
<1> USE DEF GridInv, GridTypeOK
<1>1. /\ gridOut' \in [Readers -> GridOut] /\ gridOut'[r] = h
      /\ \A q \in Readers : q # r => gridOut'[q] = gridOut[q]
  OBVIOUS
<1>2. \A q \in Readers : OutRecord(gridOut'[q], gridIn)
  BY <1>1
<1>3. \A q \in Readers : OutRecord(gridOut'[q], gridIn')
  BY <1>2
<1> QED
  BY <1>1, <1>3

LEMMA FieldsOfOut ==
  ASSUME NEW g \in GridOut
  PROVE  /\ g.position \in Nat /\ g.size \in Nat /\ g.had \in Nat
         /\ g.file.length \in Nat /\ g.file.length <= MaxBytes
         /\ g.n \in ChunkNumbers /\ g.n \in Nat
         /\ g.buffer \in Data /\ Len(g.buffer) \in Nat
         /\ (g.buffer = <<>> => Len(g.buffer) = 0)
         /\ (g.buffer # <<>> => Len(g.buffer) >= 1)
         /\ chunkSize \in Nat /\ chunkSize >= 1 /\ MaxBytes \in Nat
<1>1. chunkSize \in Nat /\ chunkSize >= 1 /\ MaxBytes \in Nat
  BY GridAssumption
<1>2. /\ g.position \in Nat /\ g.size \in 0..MaxBytes /\ g.had \in Nat
      /\ g.file.length \in 0..MaxBytes /\ g.n \in 0..MaxBytes
      /\ g.buffer \in Data
  BY DEF GridOut, ChunkNumbers, Data
<1>3. /\ Len(g.buffer) \in Nat
      /\ (g.buffer = <<>> => Len(g.buffer) = 0)
      /\ (g.buffer # <<>> => Len(g.buffer) >= 1)
  BY <1>2, DataLength
<1> QED
  BY <1>1, <1>2, <1>3 DEF ChunkNumbers

LEMMA OpenOK ==
  ASSUME GridInv, NEW r \in Readers, Open(r)
  PROVE  GridInv'
<1> DEFINE g == gridOut[r]
           h == [g EXCEPT !.pc = "open", !.file = file]
<1>1. /\ g \in GridOut /\ OutRecord(g, gridIn)
      /\ file \in [owner : Writers \union {NoWriter}, length : 0..MaxBytes]
      /\ FileRecord(file, gridIn)
  BY DEF GridInv, GridTypeOK
<1>2. /\ g.pc = "none" /\ file # NoFile
      /\ gridOut' = [gridOut EXCEPT ![r] = h]
      /\ UNCHANGED <<file, chunk, gridIn, deletion>>
  BY DEF Open, SetOut
<1> HIDE DEF g
<1>3. /\ h \in GridOut /\ h.pc = "open" /\ h.file = file
      /\ h.buffer = g.buffer /\ h.position = g.position
  BY <1>1 DEF GridOut
<1> HIDE DEF h
<1>4. h.buffer = <<>> /\ Len(h.buffer) = 0 /\ chunkSize >= 1 /\ chunkSize \in Nat
      /\ 0 < chunkSize
  BY <1>1, <1>2, <1>3, NothingIsRun, GridAssumption DEF OutRecord
<1>5. Run(h.buffer, h.file.owner, h.position)
  BY <1>4, NothingIsRun
<1>6. OutRecord(h, gridIn)
  BY <1>1, <1>2, <1>3, <1>4, <1>5 DEF OutRecord, FileRecord
<1> QED
  BY <1>2, <1>3, <1>6, ReaderMoves

LEMMA SeekOK ==
  ASSUME GridInv, NEW r \in Readers, NEW pos \in Positions, Seek(r, pos)
  PROVE  GridInv'
<1> DEFINE g == gridOut[r]
           h == [g EXCEPT !.position = pos, !.buffer = <<>>]
<1>1. g \in GridOut /\ OutRecord(g, gridIn)
  BY DEF GridInv, GridTypeOK
<1>2. /\ g.pc = "open"
      /\ gridOut' = [gridOut EXCEPT ![r] = h]
      /\ UNCHANGED <<file, chunk, gridIn, deletion>>
  BY DEF Seek, SetOut
<1>3. pos \in Nat /\ <<>> \in Seq(Bytes)
  BY GridAssumption, NothingIsRun DEF Data
<1> HIDE DEF g
<1>4. /\ h \in GridOut /\ h.pc = "open" /\ h.file = g.file
      /\ h.buffer = <<>> /\ h.position = pos
  BY <1>1, <1>2, <1>3 DEF GridOut
<1> HIDE DEF h
<1>5. Len(h.buffer) = 0 /\ 0 < chunkSize
  BY <1>4, NothingIsRun, GridAssumption
<1>6. Run(h.buffer, h.file.owner, h.position)
  BY <1>4, NothingIsRun
<1>7. OutRecord(h, gridIn)
  BY <1>1, <1>2, <1>4, <1>5, <1>6 DEF OutRecord
<1> QED
  BY <1>2, <1>4, <1>7, ReaderMoves

\* There is one chunk in which a position is.
LEMMA OneStart ==
  ASSUME NEW x \in Nat, NEW n \in Nat, NEW k \in Nat,
         Start(n) <= x, x < Start(n) + chunkSize,
         Start(k) <= x, x < Start(k) + chunkSize
  PROVE  n = k
<1>1. Start(n) \in Nat /\ Start(k) \in Nat /\ chunkSize \in Nat
  BY StartsOfChunks, GridAssumption
<1>2. ~(n < k)
  <2> SUFFICES ASSUME n < k PROVE FALSE
    OBVIOUS
  <2>1. Start(n) + chunkSize <= Start(k)
    BY StartsOfChunks
  <2> QED
    BY <1>1, <2>1
<1>3. ~(k < n)
  <2> SUFFICES ASSUME k < n PROVE FALSE
    OBVIOUS
  <2>1. Start(k) + chunkSize <= Start(n)
    BY StartsOfChunks
  <2> QED
    BY <1>1, <2>1
<1> QED
  BY <1>2, <1>3

LEMMA GridReadOK ==
  ASSUME GridInv, NEW r \in Readers, NEW size \in ReadSizes, GridRead(r, size)
  PROVE  GridInv'
<1> DEFINE g == gridOut[r]
           remainder == g.file.length - g.position
           back == [g EXCEPT !.position = g.file.length]
           s == IF size > remainder THEN remainder ELSE size
           x == Len(g.buffer) + g.position
           k == x \div chunkSize
           h == [g EXCEPT !.pc = "reading", !.had = Len(g.buffer), !.size = s,
                          !.n = k]
<1>1. g \in GridOut /\ OutRecord(g, gridIn) /\ size \in Nat
  BY GridAssumption DEF GridInv, GridTypeOK
<1>2. /\ g.pc = "open"
      /\ remainder < 0 => gridOut' = [gridOut EXCEPT ![r] = back]
      /\ ~(remainder < 0) => gridOut' = [gridOut EXCEPT ![r] = h]
      /\ UNCHANGED <<file, chunk, gridIn, deletion>>
  BY DEF GridRead, SetOut
<1> HIDE DEF g
<1>3. /\ g.position \in Nat /\ g.file.length \in Nat /\ g.file.length <= MaxBytes
      /\ g.buffer \in Data /\ Len(g.buffer) \in Nat
      /\ (g.buffer = <<>> => Len(g.buffer) = 0)
      /\ (g.buffer # <<>> => Len(g.buffer) >= 1)
      /\ chunkSize \in Nat /\ chunkSize >= 1 /\ MaxBytes \in Nat
  BY <1>1, FieldsOfOut
<1>4. /\ Len(g.buffer) < chunkSize
      /\ g.file.owner \in Writers
      /\ g.file.length <= gridIn[g.file.owner].position
      /\ g.buffer # <<>> => g.position <= g.file.length
  BY <1>1, <1>2 DEF OutRecord
<1>5. CASE remainder < 0
  <2>1. g.buffer = <<>>
    BY <1>3, <1>4, <1>5
  <2>2. /\ back \in GridOut /\ back.pc = "open" /\ back.file = g.file
        /\ back.buffer = g.buffer
    BY <1>1, <1>2, <1>3 DEF GridOut
  <2> HIDE DEF back
  <2>3. Run(back.buffer, back.file.owner, back.position)
    BY <2>1, <2>2, NothingIsRun
  <2>4. OutRecord(back, gridIn)
    BY <1>4, <2>1, <2>2, <2>3 DEF OutRecord
  <2> QED
    BY <1>2, <1>5, <2>2, <2>4, ReaderMoves
<1>6. CASE ~(remainder < 0)
  <2>1. /\ s \in 0..MaxBytes /\ g.position + s <= g.file.length
        /\ x \in Nat /\ x < MaxBytes + chunkSize
        /\ x = g.position + Len(g.buffer)
    BY <1>1, <1>3, <1>4, <1>6
  <2> HIDE DEF s, x
  <2>2. /\ k \in ChunkNumbers /\ k \in Nat
        /\ Start(k) <= x /\ x < Start(k) + chunkSize
    BY <2>1, ChunkIsNumbered, ChunkOfPosition
  <2> HIDE DEF k
  <2>3. /\ h \in GridOut /\ h.pc = "reading" /\ h.file = g.file
        /\ h.buffer = g.buffer /\ h.position = g.position
        /\ h.had = Len(g.buffer) /\ h.size = s /\ h.n = k
    BY <1>1, <1>3, <2>1, <2>2 DEF GridOut
  <2> HIDE DEF h
  <2>4. Len(h.buffer) < chunkSize + h.size
    BY <1>3, <1>4, <2>1, <2>3
  <2>5. ASSUME gridIn[g.file.owner].intact
        PROVE  /\ Run(g.buffer, g.file.owner, g.position)
               /\ g.buffer # <<>> => g.file.length <= x \/ \E i \in Nat : x = Start(i)
    BY <1>1, <1>2, <2>1, <2>5 DEF OutRecord
  <2>6. ASSUME gridIn[g.file.owner].intact, Len(g.buffer) < s, g.buffer # <<>>
        PROVE  x = Start(k)
    <3>1. ~(g.file.length <= x)
      BY <1>3, <2>1, <2>6
    <3>2. PICK i \in Nat : x = Start(i)
      BY <2>5, <2>6, <3>1
    <3>3. Start(i) <= x /\ x < Start(i) + chunkSize
      BY <1>3, <2>1, <3>2
    <3>4. i = k
      BY <2>1, <2>2, <3>3, OneStart
    <3> QED
      BY <3>2, <3>4
  <2>7. OutRecord(h, gridIn)
    <3>1. /\ h.had <= Len(h.buffer) /\ h.had < chunkSize
          /\ h.position + h.size <= h.file.length
          /\ h.position + Len(h.buffer) = x
      BY <1>3, <1>4, <2>1, <2>3
    <3> QED
      BY <1>4, <2>2, <2>3, <2>4, <2>5, <2>6, <3>1 DEF OutRecord
  <2> QED
    BY <1>2, <1>6, <2>3, <2>7, ReaderMoves
<1> QED
  BY <1>5, <1>6

LEMMA ReadReturnsOK ==
  ASSUME GridInv, NEW r \in Readers, ReadReturns(r)
  PROVE  GridInv'
<1> DEFINE g == gridOut[r]
           b == SubSeq(g.buffer, g.size + 1, Len(g.buffer))
           done == [g EXCEPT !.pc = "open", !.size = 0, !.n = 0, !.had = 0]
           h == [done EXCEPT !.position = g.position + g.size, !.buffer = b]
<1>1. g \in GridOut /\ OutRecord(g, gridIn)
  BY DEF GridInv, GridTypeOK
<1>a. done.position = g.position /\ done.buffer = g.buffer
  BY <1>1 DEF GridOut
<1>2. /\ g.pc = "reading" /\ Len(g.buffer) >= g.size
      /\ gridOut' = [gridOut EXCEPT ![r] = h]
      /\ UNCHANGED <<file, chunk, gridIn, deletion>>
  BY <1>a DEF ReadReturns, ReadDone, SetOut
<1> HIDE DEF g
<1>3. /\ g.position \in Nat /\ g.size \in Nat /\ g.file.length \in Nat
      /\ g.buffer \in Data /\ Len(g.buffer) \in Nat
      /\ (g.buffer = <<>> => Len(g.buffer) = 0)
      /\ chunkSize \in Nat /\ MaxBytes \in Nat
  BY <1>1, FieldsOfOut
<1>4. /\ g.file.owner \in Writers
      /\ g.file.length <= gridIn[g.file.owner].position
      /\ g.position + g.size <= g.file.length
      /\ Len(g.buffer) < chunkSize + g.size
  BY <1>1, <1>2 DEF OutRecord
<1>5. g.size + 1 \in 1..(Len(g.buffer) + 1)
  BY <1>2, <1>3
<1>6. b \in Data /\ Len(b) = Len(g.buffer) - g.size
  <2>1. b \in Data /\ Len(b) = Len(g.buffer) - (g.size + 1) + 1
    BY <1>3, <1>5, RestOfData
  <2> QED
    BY <1>3, <2>1
<1>7. Run(g.buffer, g.file.owner, g.position)
        => Run(b, g.file.owner, g.position + g.size)
  <2> SUFFICES ASSUME Run(g.buffer, g.file.owner, g.position)
               PROVE  Run(b, g.file.owner, g.position + g.size)
    OBVIOUS
  <2>1. Run(b, g.file.owner, g.position + (g.size + 1) - 1)
    BY <1>3, <1>5, RunGoesOn
  <2>2. g.position + (g.size + 1) - 1 = g.position + g.size
    BY <1>3
  <2> QED
    BY <2>1, <2>2
<1> HIDE DEF b
<1>8. /\ h \in GridOut /\ h.pc = "open" /\ h.file = g.file
      /\ h.buffer = b /\ h.position = g.position + g.size
  <2>1. 0 \in ChunkNumbers /\ 0 \in 0..MaxBytes /\ 0 \in Nat
    BY <1>3 DEF ChunkNumbers
  <2>2. done \in GridOut /\ done.pc = "open" /\ done.file = g.file
    BY <1>1, <2>1 DEF GridOut
  <2>3. b \in Seq(Bytes) /\ g.position + g.size \in Nat
    BY <1>3, <1>6 DEF Data
  <2> HIDE DEF done
  <2> QED
    BY <2>2, <2>3 DEF GridOut
<1> HIDE DEF h
<1>9. /\ Len(h.buffer) < chunkSize
      /\ h.position <= h.file.length
      /\ h.position + Len(h.buffer) = g.position + Len(g.buffer)
      /\ h.buffer # <<>> => g.buffer # <<>>
  <2>1. h.buffer # <<>> => Len(h.buffer) >= 1
    BY <1>6, <1>8, DataLength
  <2> QED
    BY <1>3, <1>4, <1>6, <1>8, <2>1
<1>10. gridIn[g.file.owner].intact =>
         /\ Run(h.buffer, g.file.owner, h.position)
         /\ h.buffer # <<>> => \/ g.file.length <= h.position + Len(h.buffer)
                               \/ \E i \in Nat : h.position + Len(h.buffer) = Start(i)
  BY <1>1, <1>2, <1>7, <1>8, <1>9 DEF OutRecord
<1>11. OutRecord(h, gridIn)
  BY <1>4, <1>8, <1>9, <1>10 DEF OutRecord
<1> QED
  BY <1>2, <1>8, <1>11, ReaderMoves

\* The chunk that is asked for exists, and it goes on past the buffer.
LEMMA ChunkOfRead ==
  ASSUME GridInv, NEW r \in Readers, NEW g, g = gridOut[r],
         g.pc = "reading", Len(g.buffer) < g.size,
         gridIn[g.file.owner].intact
  PROVE  LET w == g.file.owner
             x == g.position + Len(g.buffer)
         IN  /\ ChunkOK(w, gridIn[w].position, chunk[g.n], g.n)
             /\ x < g.file.length /\ g.file.length <= gridIn[w].position
             /\ Start(g.n) <= x /\ x < Start(g.n) + chunkSize
             /\ g.buffer # <<>> => x = Start(g.n)
             /\ Run(g.buffer, w, g.position)
             /\ w \in Writers
<1> DEFINE w == g.file.owner
           x == g.position + Len(g.buffer)
           c == gridIn[w].chunk_number
<1>1. g \in GridOut /\ OutRecord(g, gridIn)
  BY DEF GridInv, GridTypeOK
<1>2. /\ g.position \in Nat /\ g.size \in Nat /\ g.file.length \in Nat
      /\ Len(g.buffer) \in Nat /\ g.n \in Nat /\ chunkSize \in Nat
  BY <1>1, FieldsOfOut
<1>3. /\ w \in Writers
      /\ g.file.length <= gridIn[w].position
      /\ g.position + g.size <= g.file.length
      /\ Run(g.buffer, w, g.position)
      /\ Start(g.n) <= x /\ x < Start(g.n) + chunkSize
      /\ g.buffer # <<>> => x = Start(g.n)
  BY <1>1 DEF OutRecord
<1>4. gridIn[w] \in GridIn /\ WrittenKept(w, gridIn[w], chunk)
  BY <1>3 DEF GridInv, GridTypeOK
<1>5. x \in Nat /\ x < g.file.length
  BY <1>2, <1>3
<1>6. gridIn[w].position \in Nat /\ c \in Nat /\ gridIn[w].position <= Start(c)
  BY <1>4, FieldsOfIn DEF WrittenKept
<1>7. g.n < c
  <2> SUFFICES ASSUME ~(g.n < c) PROVE FALSE
    OBVIOUS
  <2>1. Start(c) <= Start(g.n)
    <3>1. CASE c = g.n
      <4>1. Start(c) \in Nat
        BY <1>6, StartsOfChunks
      <4> QED
        BY <3>1, <4>1
    <3>2. CASE c < g.n
      <4>1. Start(c) + chunkSize <= Start(g.n) /\ Start(c) \in Nat /\ Start(g.n) \in Nat
        BY <1>2, <1>6, <3>2, StartsOfChunks
      <4> QED
        BY <1>2, <4>1
    <3> QED
      BY <1>2, <1>6, <3>1, <3>2
  <2>2. Start(c) \in Nat /\ Start(g.n) \in Nat
    BY <1>2, <1>6, StartsOfChunks
  <2> HIDE DEF x, c
  <2> QED
    BY <1>2, <1>3, <1>5, <1>6, <2>1, <2>2
<1>8. ChunkOK(w, gridIn[w].position, chunk[g.n], g.n)
  <2>1. g.n \in 0..(c - 1)
    BY <1>2, <1>6, <1>7
  <2> QED
    BY <1>4, <2>1 DEF WrittenKept
<1> QED
  BY <1>3, <1>5, <1>8

\* The bytes from m on, if there are any.
LEMMA SomeOfData ==
  ASSUME NEW s \in Data, NEW m \in Nat, m >= 1
  PROVE  /\ SubSeq(s, m, Len(s)) \in Data
         /\ Len(SubSeq(s, m, Len(s))) \in Nat
         /\ Len(SubSeq(s, m, Len(s))) <= Len(s)
<1>1. Len(s) \in Nat
  BY DataLength
<1>2. CASE m <= Len(s) + 1
  <2>1. m \in 1..(Len(s) + 1)
    BY <1>1, <1>2
  <2>2. /\ SubSeq(s, m, Len(s)) \in Data
        /\ Len(SubSeq(s, m, Len(s))) = Len(s) - m + 1
    BY <2>1, RestOfData
  <2> DEFINE l == Len(SubSeq(s, m, Len(s)))
  <2>3. l \in Nat
    BY <2>2, DataLength
  <2>4. l = Len(s) - m + 1
    BY <2>2
  <2> HIDE DEF l
  <2>5. l <= Len(s)
    BY <1>1, <2>3, <2>4
  <2> QED
    BY <2>2, <2>3, <2>5 DEF l
<1>3. CASE ~(m <= Len(s) + 1)
  <2> DEFINE n == Len(s)
             d == SubSeq(s, m, n)
  <2>1. n \in Int /\ m \in Int /\ n < m
    BY <1>1, <1>3
  <2>2. \A i \in m..n : s[i] \in Bytes
    BY <2>1
  <2> HIDE DEF n
  <2>3. d \in Seq(Bytes) /\ Len(d) = IF m <= n THEN n - m + 1 ELSE 0
    BY <2>1, <2>2, SubSeqProperties
  <2>4. Len(d) = 0
    BY <2>1, <2>3
  <2> QED
    BY <1>1, <2>3, <2>4 DEF Data, n
<1> QED
  BY <1>2, <1>3

\* What a chunk adds to a buffer: the first one counts from the position on.
Added(b, data, position) ==
  IF b # <<>> THEN data
  ELSE SubSeq(data, (position % chunkSize) + 1, Len(data))

\* An intact file fills the buffer up to the start of the next chunk or to its
\* end.
LEMMA NextChunk ==
  ASSUME NEW w, NEW b \in Data, NEW position \in Nat, NEW n \in Nat,
         NEW end \in Nat, NEW c, c.data \in Data, ChunkOK(w, end, c, n),
         Run(b, w, position), position + Len(b) < end,
         Start(n) <= position + Len(b), position + Len(b) < Start(n) + chunkSize,
         b # <<>> => position + Len(b) = Start(n)
  PROVE  /\ Run(b \o Added(b, c.data, position), w, position)
         /\ \/ position + Len(b) + Len(Added(b, c.data, position))
                 = Start(n) + chunkSize
            \/ position + Len(b) + Len(Added(b, c.data, position)) = end
<1> DEFINE data == c.data
           d == Added(b, data, position)
           l == Len(data)
           lb == Len(b)
<1>1. /\ l \in Nat /\ lb \in Nat /\ Start(n) \in Nat
      /\ chunkSize \in Nat /\ chunkSize >= 1 /\ data \in Data
  <2>1. data \in Data
    OBVIOUS
  <2>2. l \in Nat
    BY <2>1, DataLength
  <2>3. lb \in Nat
    BY DataLength
  <2>4. Start(n) \in Nat
    BY StartsOfChunks
  <2>5. chunkSize \in Nat /\ chunkSize >= 1
    BY GridAssumption
  <2> QED
    BY <2>1, <2>2, <2>3, <2>4, <2>5
<1>2. /\ Run(data, w, Start(n))
      /\ \/ l = chunkSize
         \/ Start(n) + l = end
  BY DEF ChunkOK
<1> HIDE DEF data
<1>3. CASE b # <<>>
  <2>1. d = data /\ position + lb = Start(n)
    BY <1>3 DEF Added
  <2>2. Run(b \o data, w, position)
    BY <1>1, <1>2, <2>1, RunsJoin
  <2> QED
    BY <1>2, <2>1, <2>2 DEF data
<1>4. CASE b = <<>>
  <2> DEFINE m == (position % chunkSize) + 1
             k == position \div chunkSize
  <2>1. lb = 0
    BY <1>4, NothingIsRun
  <2>2. /\ k \in Nat /\ Start(k) <= position /\ position < Start(k) + chunkSize
        /\ position % chunkSize = position - Start(k)
    BY ChunkOfPosition
  <2> HIDE DEF k
  <2>3. Start(n) <= position /\ position < Start(n) + chunkSize
    BY <1>1, <2>1
  <2>4. k = n
    BY <2>2, <2>3, OneStart
  <2>5. m = position - Start(n) + 1 /\ position < end
    BY <1>1, <2>1, <2>2, <2>4
  <2>6. d = SubSeq(data, m, Len(data))
    BY <1>4 DEF Added
  <2> HIDE DEF m, l, d
  <2>7. m \in 1..(l + 1) /\ m \in Nat
    <3>1. CASE l = chunkSize
      BY <1>1, <2>3, <2>5, <3>1
    <3>2. CASE Start(n) + l = end
      BY <1>1, <2>3, <2>5, <3>2
    <3> QED
      BY <1>2, <3>1, <3>2
  <2>8. d \in Data /\ Len(d) = l - m + 1
    BY <1>1, <2>6, <2>7, RestOfData DEF l
  <2>9. Run(d, w, Start(n) + m - 1)
    BY <1>1, <1>2, <2>6, <2>7, RunGoesOn DEF l
  <2>10. Start(n) + m - 1 = position + Len(b)
    BY <1>1, <2>1, <2>5
  <2>11. Run(b \o d, w, position)
    BY <2>8, <2>9, <2>10, RunsJoin
  <2> DEFINE ld == Len(d)
  <2>12. position + lb + ld = Start(n) + l
    <3>1. ld = l - m + 1
      BY <2>8
    <3> HIDE DEF ld, lb
    <3> QED
      BY <1>1, <2>1, <2>5, <3>1
  <2>13. position + lb + ld = Start(n) + chunkSize \/ position + lb + ld = end
    BY <1>2, <2>12
  <2> QED
    BY <2>11, <2>13 DEF d, data
<1> QED
  BY <1>3, <1>4

LEMMA FetchChunkOK ==
  ASSUME GridInv, NEW r \in Readers, FetchChunk(r)
  PROVE  GridInv'
<1> DEFINE g == gridOut[r]
           c == chunk[g.n]
           data == c.data
           done == [g EXCEPT !.pc = "open", !.size = 0, !.n = 0, !.had = 0]
           first == SubSeq(g.buffer, 1, g.had)
           corrupt == [done EXCEPT !.buffer = first]
           d == IF g.buffer # <<>> THEN data
                ELSE SubSeq(data, (g.position % chunkSize) + 1, Len(data))
           b == g.buffer \o d
           h == [g EXCEPT !.n = g.n + 1, !.buffer = b]
           w == g.file.owner
<1>1. g \in GridOut /\ OutRecord(g, gridIn)
  BY DEF GridInv, GridTypeOK
<1>a. done.buffer = g.buffer
  BY <1>1 DEF GridOut
<1>2. /\ g.pc = "reading" /\ Len(g.buffer) < g.size
      /\ c = NoChunk => gridOut' = [gridOut EXCEPT ![r] = corrupt]
      /\ c # NoChunk => gridOut' = [gridOut EXCEPT ![r] = h]
      /\ UNCHANGED <<file, chunk, gridIn, deletion>>
  BY <1>a DEF FetchChunk, ReadDone, SetOut
<1>3. /\ g.position \in Nat /\ g.size \in Nat /\ g.had \in Nat
      /\ g.file.length \in Nat /\ g.n \in Nat /\ g.n \in ChunkNumbers
      /\ g.buffer \in Data /\ Len(g.buffer) \in Nat
      /\ (g.buffer = <<>> => Len(g.buffer) = 0)
      /\ chunkSize \in Nat /\ chunkSize >= 1 /\ MaxBytes \in Nat
  BY <1>1, FieldsOfOut
<1>4. /\ w \in Writers
      /\ g.file.length <= gridIn[w].position
      /\ g.position + g.size <= g.file.length
      /\ Len(g.buffer) < chunkSize + g.size
      /\ g.had <= Len(g.buffer) /\ g.had < chunkSize
  BY <1>1, <1>2 DEF OutRecord
<1>5. /\ data \in Data /\ Len(data) \in Nat /\ Len(data) <= chunkSize
      /\ ChunkRecord(g.n, c, gridIn)
      /\ gridIn \in [Writers -> GridIn]
  <2>1. /\ chunk \in [ChunkNumbers -> [owner : Writers \union {NoWriter}, data : Data]]
        /\ \A n \in ChunkNumbers : Len(chunk[n].data) <= chunkSize
        /\ \A n \in ChunkNumbers : ChunkRecord(n, chunk[n], gridIn)
        /\ gridIn \in [Writers -> GridIn]
    BY DEF GridInv, GridTypeOK
  <2>2. data \in Data
    BY <1>3, <2>1
  <2> QED
    BY <1>3, <2>1, <2>2, DataLength
<1>6. gridIn[w].intact =>
        /\ ChunkOK(w, gridIn[w].position, c, g.n)
        /\ g.position + Len(g.buffer) < g.file.length
        /\ Start(g.n) <= g.position + Len(g.buffer)
        /\ g.position + Len(g.buffer) < Start(g.n) + chunkSize
        /\ g.buffer # <<>> => g.position + Len(g.buffer) = Start(g.n)
        /\ Run(g.buffer, w, g.position)
  BY <1>2, ChunkOfRead
<1> HIDE DEF g, c
<1>7. CASE c = NoChunk
  <2>1. ~gridIn[w].intact
    <3> SUFFICES ASSUME gridIn[w].intact PROVE FALSE
      OBVIOUS
    <3>1. c.owner = w
      BY <1>6 DEF ChunkOK
    <3> QED
      BY <1>4, <1>7, <3>1, GridAssumption DEF NoChunk
  <2>2. first \in Data /\ Len(first) = g.had
    <3>1. g.had \in 0..Len(g.buffer)
      BY <1>3, <1>4
    <3> QED
      BY <1>3, <3>1, StartOfData
  <2> HIDE DEF first
  <2>3. /\ corrupt \in GridOut /\ corrupt.pc = "open" /\ corrupt.file = g.file
        /\ corrupt.buffer = first /\ corrupt.position = g.position
    <3>1. 0 \in ChunkNumbers /\ 0 \in 0..MaxBytes /\ 0 \in Nat
      BY <1>3 DEF ChunkNumbers
    <3>2. done \in GridOut /\ done.pc = "open" /\ done.file = g.file
          /\ done.position = g.position
      BY <1>1, <3>1 DEF GridOut
    <3> HIDE DEF done
    <3> QED
      BY <2>2, <3>2 DEF GridOut, Data
  <2> HIDE DEF corrupt
  <2>4. g.position <= g.file.length
    BY <1>3, <1>4
  <2>5. OutRecord(corrupt, gridIn)
    BY <1>4, <2>1, <2>2, <2>3, <2>4 DEF OutRecord
  <2> QED
    BY <1>2, <1>7, <2>3, <2>5, ReaderMoves
<1>8. CASE c # NoChunk
  <2>1. g.n + 1 \in ChunkNumbers
    <3>1. c.owner \in Writers /\ g.n < gridIn[c.owner].chunk_number
      BY <1>5, <1>8 DEF ChunkRecord
    <3>2. gridIn[c.owner].chunk_number \in 0..MaxBytes
      BY <1>5, <3>1, FieldsOfIn
    <3> QED
      BY <1>3, <3>1, <3>2 DEF ChunkNumbers
  <2>2. d \in Data /\ Len(d) \in Nat /\ Len(d) <= Len(data)
    <3>1. CASE g.buffer # <<>>
      BY <1>5, <3>1
    <3>2. CASE g.buffer = <<>>
      <4>1. (g.position % chunkSize) + 1 \in Nat /\ (g.position % chunkSize) + 1 >= 1
        BY <1>3
      <4> DEFINE m == (g.position % chunkSize) + 1
      <4>2. d = SubSeq(data, m, Len(data))
        BY <3>2
      <4>3. m \in Nat /\ m >= 1
        BY <4>1
      <4> HIDE DEF m, d, data
      <4> QED
        BY <1>5, <4>2, <4>3, SomeOfData
    <3> QED
      BY <3>1, <3>2
  <2> DEFINE x == g.position + Len(g.buffer)
             y == g.position + Len(b)
  <2>3. gridIn[w].intact =>
          /\ Run(b, w, g.position)
          /\ \/ x + Len(d) = Start(g.n) + chunkSize
             \/ x + Len(d) = gridIn[w].position
    <3> SUFFICES ASSUME gridIn[w].intact
                 PROVE  /\ Run(b, w, g.position)
                        /\ \/ x + Len(d) = Start(g.n) + chunkSize
                           \/ x + Len(d) = gridIn[w].position
      OBVIOUS
    <3> DEFINE end == gridIn[w].position
               bb == g.buffer
               p == g.position
    <3>1. /\ end \in Nat /\ g.position + Len(g.buffer) < end
      <4>1. end \in Nat
        BY <1>4, <1>5, FieldsOfIn
      <4> QED
        BY <1>3, <1>4, <1>6, <4>1
    <3>2. d = Added(bb, c.data, p)
      BY DEF Added
    <3>3. /\ bb \in Data /\ p \in Nat /\ g.n \in Nat /\ c.data \in Data
      BY <1>3, <1>5
    <3>4. /\ ChunkOK(w, end, c, g.n)
          /\ Run(bb, w, p) /\ p + Len(bb) < end
          /\ Start(g.n) <= p + Len(bb)
          /\ p + Len(bb) < Start(g.n) + chunkSize
          /\ bb # <<>> => p + Len(bb) = Start(g.n)
      BY <1>6, <3>1
    <3> HIDE DEF end, bb, p, w
    <3>5. /\ Run(bb \o Added(bb, c.data, p), w, p)
          /\ \/ p + Len(bb) + Len(Added(bb, c.data, p)) = Start(g.n) + chunkSize
             \/ p + Len(bb) + Len(Added(bb, c.data, p)) = end
      BY <3>1, <3>3, <3>4, NextChunk
    <3> HIDE DEF d
    <3>6. b = bb \o d /\ x = p + Len(bb)
      BY DEF bb, p
    <3> QED
      BY <3>2, <3>5, <3>6 DEF p, end, w
  <2> HIDE DEF d
  <2>4. b \in Data /\ Len(b) = Len(g.buffer) + Len(d)
    BY <1>3, <2>2, DataJoin
  <2> HIDE DEF b
  <2>5. /\ h \in GridOut /\ h.pc = "reading" /\ h.file = g.file
        /\ h.buffer = b /\ h.position = g.position
        /\ h.size = g.size /\ h.had = g.had /\ h.n = g.n + 1
    BY <1>1, <1>2, <2>1, <2>4 DEF GridOut, Data
  <2> HIDE DEF h
  <2>6. /\ Len(b) < chunkSize + g.size /\ g.had <= Len(b)
        /\ g.position <= g.file.length /\ y = x + Len(d)
        /\ x \in Nat /\ y \in Nat
        /\ Len(b) < g.size => y < g.file.length
    <3> DEFINE lb == Len(b)
               ld == Len(d)
               lg == Len(g.buffer)
               l == Len(data)
    <3>1. /\ lb = lg + ld /\ lg \in Nat /\ ld \in Nat /\ l \in Nat
          /\ ld <= l /\ l <= chunkSize
      BY <1>3, <1>5, <2>2, <2>4
    <3>2. lg < g.size /\ g.had <= lg
      BY <1>2, <1>4
    <3> DEFINE p == g.position
               size == g.size
               length == g.file.length
               had == g.had
    <3>3. /\ p \in Nat /\ size \in Nat /\ length \in Nat /\ had \in Nat
          /\ chunkSize \in Nat /\ p + size <= length
          /\ lg < size /\ had <= lg
      BY <1>3, <1>4, <3>2
    <3> HIDE DEF lb, ld, lg, l, p, size, length, had
    <3>4. /\ lb < chunkSize + size /\ had <= lb /\ p <= length
          /\ p + lb = (p + lg) + ld
          /\ p + lg \in Nat /\ p + lb \in Nat
      BY <3>1, <3>3
    <3>5. lb < size => p + lb < length
      BY <3>1, <3>3
    <3> QED
      BY <3>4, <3>5 DEF lb, ld, lg, p, size, length, had
  <2>7. gridIn[w].intact =>
          /\ Run(b, w, g.position)
          /\ g.file.length <= y \/ y = Start(g.n + 1)
    <3>1. Start(g.n + 1) = Start(g.n) + chunkSize
      BY <1>3, StartsOfChunks
    <3> QED
      BY <1>4, <2>3, <2>6, <3>1
  <2>8. /\ g.n + 1 \in Nat /\ Start(g.n + 1) \in Nat
        /\ Start(g.n + 1) < Start(g.n + 1) + chunkSize
    <3>1. g.n + 1 \in Nat
      BY <1>3
    <3>2. Start(g.n + 1) \in Nat
      BY <3>1, StartsOfChunks
    <3> QED
      BY <1>3, <3>1, <3>2
  <2>9. gridIn[w].intact /\ Len(b) < g.size =>
          /\ Start(g.n + 1) <= y /\ y < Start(g.n + 1) + chunkSize
          /\ y = Start(g.n + 1)
    <3> SUFFICES ASSUME gridIn[w].intact, Len(b) < g.size
                 PROVE  /\ Start(g.n + 1) <= y /\ y < Start(g.n + 1) + chunkSize
                        /\ y = Start(g.n + 1)
      OBVIOUS
    <3>1. ~(g.file.length <= y)
      BY <1>3, <2>6
    <3>2. y = Start(g.n + 1)
      BY <2>7, <3>1
    <3> HIDE DEF y
    <3> QED
      BY <2>8, <3>2
  <2>10. y = h.position + Len(h.buffer)
    BY <2>5
  <2> HIDE DEF y, x
  <2>11. OutRecord(h, gridIn)
    BY <1>4, <2>5, <2>6, <2>7, <2>8, <2>9, <2>10 DEF OutRecord
  <2> QED
    BY <1>2, <1>8, <2>5, <2>11, ReaderMoves
<1> QED
  BY <1>7, <1>8

LEMMA GridInvNext ==
  ASSUME GridInv, [GridNext]_gridVars
  PROVE  GridInv'
<1>1. ASSUME NEW w \in Writers, NEW n \in WriteSizes, GridWrite(w, n)
      PROVE  GridInv'
  BY <1>1, GridWriteOK
<1>2. ASSUME NEW w \in Writers,
             FlushBuffer(w) \/ FlushChunk(w) \/ WriteFails(w) \/ CloseFile(w)
               \/ InsertFile(w) \/ CloseFileFails(w)
      PROVE  GridInv'
  BY <1>2, FlushBufferOK, FlushChunkOK, WriteFailsOK, CloseFileOK, EndOfCloseOK
<1>3. CASE RemoveFile
  BY <1>3, RemoveFileOK
<1>4. CASE RemoveChunks
  BY <1>4, RemoveChunksOK
<1>5. ASSUME NEW r \in Readers, Open(r) \/ FetchChunk(r) \/ ReadReturns(r)
      PROVE  GridInv'
  BY <1>5, OpenOK, FetchChunkOK, ReadReturnsOK
<1>6. ASSUME NEW r \in Readers, NEW n \in Positions, Seek(r, n)
      PROVE  GridInv'
  BY <1>6, SeekOK
<1>7. ASSUME NEW r \in Readers, NEW n \in ReadSizes, GridRead(r, n)
      PROVE  GridInv'
  BY <1>7, GridReadOK
<1>8. CASE UNCHANGED gridVars
  BY <1>8 DEF gridVars, GridInv, GridTypeOK
<1> QED
  BY <1>1, <1>2, <1>3, <1>4, <1>5, <1>6, <1>7, <1>8 DEF GridNext

\* What writers have put into the chunks, and what readers have in their
\* buffers, agree with what was given to write.
THEOREM GridInvariant == GridSpec => []GridInv
<1>1. GridInit => GridInv
  BY GridInvInit
<1>2. GridInv /\ [GridNext]_gridVars => GridInv'
  BY GridInvNext
<1> QED
  BY <1>1, <1>2, PTL DEF GridSpec

\* The documents of a file, and the objects that write and read it, keep their
\* types; no chunk is longer than chunkSize.
THEOREM GridTypeCorrect == GridSpec => []GridTypeOK
<1>1. GridInv => GridTypeOK
  BY DEF GridInv
<1> QED
  BY <1>1, GridInvariant, PTL

LEMMA ReadGivesWritten ==
  ASSUME GridInv, NEW r \in Readers
  PROVE  ReadIsWritten(r)
<1> DEFINE g == gridOut[r]
           w == file.owner
<1> SUFFICES ASSUME ReadReturns(r), file = g.file, Intact(w)
             PROVE  /\ Returned(g) = [i \in 1..g.size |-> <<w, g.position + i>>]
                    /\ gridIn[w].pc = "closed" => file.length = gridIn[w].given
  BY DEF ReadIsWritten
<1>1. g \in GridOut /\ OutRecord(g, gridIn) /\ FileRecord(file, gridIn)
  BY DEF GridInv, GridTypeOK
<1>2. g.pc = "reading" /\ Len(g.buffer) >= g.size /\ gridIn[w].intact
  BY DEF ReadReturns, Intact
<1>3. w \in Writers /\ Run(g.buffer, w, g.position)
  BY <1>1, <1>2 DEF OutRecord
<1>4. file # NoFile
  BY <1>3, GridAssumption DEF NoFile
<1>5. gridIn[w].pc = "closed" => file.length = gridIn[w].given
  BY <1>1, <1>2, <1>4 DEF FileRecord
<1> HIDE DEF g
<1>6. g.buffer \in Data /\ Len(g.buffer) \in Nat /\ g.size \in Nat
  BY <1>1, FieldsOfOut
<1>7. g.size \in 0..Len(g.buffer)
  BY <1>2, <1>6
<1> DEFINE s == SubSeq(g.buffer, 1, g.size)
<1>8. /\ s \in Data /\ Len(s) = g.size
      /\ \A i \in 1..g.size : s[i] = g.buffer[i]
  BY <1>6, <1>7, StartOfData
<1>9. s \in [1..g.size -> Bytes]
  BY <1>8, LenProperties DEF Data
<1>10. \A i \in 1..g.size : s[i] = <<w, g.position + i>>
  <2> SUFFICES ASSUME NEW i \in 1..g.size PROVE s[i] = <<w, g.position + i>>
    OBVIOUS
  <2>1. i \in 1..Len(g.buffer)
    BY <1>6, <1>7
  <2> QED
    BY <1>3, <1>8, <2>1 DEF Run
<1>11. s = [i \in 1..g.size |-> <<w, g.position + i>>]
  BY <1>9, <1>10
<1> QED
  BY <1>5, <1>11 DEF Returned, g

\* While the file stays listed and its writer has met no failure, a read
\* returns the bytes that were written from its position on, however reads,
\* seeks and the calls of write divide the file.
THEOREM ReadsWrittenCorrect == GridSpec => ReadsWritten
<1>1. GridInv => \A r \in Readers : ReadIsWritten(r)
  BY ReadGivesWritten
<1>2. GridInv => [\A r \in Readers : ReadIsWritten(r)]_gridVars
  BY <1>1
<1> QED
  BY <1>2, GridInvariant, PTL DEF ReadsWritten

----------------------------------------------------------------------------
(* All parts of the driver. *)

\* The parts of the driver that have models keep their types, whatever the
\* values of the constants (pymongo 2.3).
THEOREM DriverTypeCorrect == DriverSpec => []DriverTypeOK
<1>1. (/\ PoolTypeOK /\ DiscoveryTypeOK /\ AuthTypeOK /\ RsTypeOK
       /\ CollectionTypeOK /\ CursorTypeOK /\ GridTypeOK /\ RoutingTypeOK
       /\ OidTypeOK) => DriverTypeOK
  BY DEF DriverTypeOK
<1> QED
  BY <1>1, PoolTypeCorrect, DiscoveryTypeCorrect, AuthTypeCorrect, RsTypeCorrect,
     CollectionTypeCorrect, CursorTypeCorrect, GridTypeCorrect,
     RoutingTypeCorrect, OidTypeCorrect, PTL DEF DriverSpec
=============================================================================
