--------------------------- MODULE NodeDiscovery ---------------------------
(***************************************************************************)
(* pymongo/connection.py: how the threads that share one Connection to a   *)
(* replica set find its primary, send their messages to it and give it up. *)
(* The threads share the host; every thread has a request, with a socket   *)
(* of its own (auto_start_request).  The pool is what its threads see of   *)
(* it between resets: ConnectionPool has its own races.                    *)
(*                                                                         *)
(* A step ends where a thread reads or writes the shared host or waits for *)
(* the network.  conn.checked and unread record what happened, for the     *)
(* properties.                                                             *)
(***************************************************************************)
EXTENDS DriverTypes, Naturals, Sequences, FiniteSets

CONSTANTS MaxFaults,     \* bound on elections and failures
          MaxNested      \* bound on a __find_node within a __find_node

ASSUME DiscoveryAssumption == MaxFaults \in Nat /\ MaxNested \in Nat

VARIABLES conn,          \* __host and __nodes of the Connection
          sock,          \* the request socket of every thread
          task,          \* what every thread is doing
          replset        \* which members are up, and the primary

discoveryVars == <<conn, sock, task, replset>>

\* The node is NoMember once the socket is closed here, or of an old pool_id.
Socket == [node : Members \union {NoMember}, alive : BOOLEAN,
           unread : BOOLEAN]

Closed == [node |-> NoMember, alive |-> FALSE, unread |-> FALSE]

\* A run of __find_node: the candidates it began with, those it has not tried,
\* whether it is in its second loop, and the node __try_node is at.
Frame == [first : SUBSET Members, todo : SUBSET Members, second : BOOLEAN,
          node : Members \union {NoMember}]

Task == [pc : {"idle", "socket", "get", "next", "drop", "point", "ismaster",
               "send", "receive"},
         op : {"none", "unsafe", "reply"},
         pair : Members \union {NoMember}, find : Seq(Frame)]

DiscoveryTypeOK ==
  /\ conn \in [host : Members \union {NoMember}, nodes : SUBSET Members,
               checked : BOOLEAN]
  /\ sock \in [Threads -> Socket]
  /\ task \in [Threads -> Task]
  /\ replset \in [up : SUBSET Members, primary : Members \union {NoMember},
                  faults : 0..MaxFaults]

DoingTask(pc, op) == [pc |-> pc, op |-> op, pair |-> NoMember, find |-> <<>>]

\* The constructor has found the primary.
DiscoveryInit ==
  \E p \in Members :
    /\ conn = [host |-> p, nodes |-> Members, checked |-> TRUE]
    /\ sock = [t \in Threads |-> Closed]
    /\ task = [t \in Threads |-> DoingTask("idle", "none")]
    /\ replset = [up |-> Members, primary |-> p, faults |-> 0]

GoTask(t, c) == task' = [task EXCEPT ![t] = c]

GotoTask(t, pc) == GoTask(t, [task[t] EXCEPT !.pc = pc])

TriedNode(find) == Head(find).node

\* disconnect: every socket of the pool becomes stale, the host is unknown.
DropConnection ==
  /\ conn' = [conn EXCEPT !.host = NoMember]
  /\ sock' = [t \in Threads |-> Closed]

\* An exception ends the operation, or is caught by the innermost __find_node,
\* which goes on with its next candidate.
Raise(t, find) ==
  IF find = <<>> THEN GoTask(t, DoingTask("idle", "none"))
  ELSE GoTask(t, [task[t] EXCEPT !.pc = "next", !.pair = NoMember, !.find = find])

----------------------------------------------------------------------------
(* __socket *)

\* Without a host the thread looks for one.
ReadHost(t, c) ==
  \/ /\ conn.host # NoMember
     /\ GoTask(t, [c EXCEPT !.pc = "get", !.pair = conn.host])
  \/ /\ conn.host = NoMember
     /\ Len(c.find) <= MaxNested
     /\ GoTask(t, [c EXCEPT !.pc = "next",
                       !.find = <<[first |-> conn.nodes, todo |-> conn.nodes,
                                   second |-> FALSE, node |-> NoMember]>> \o @])

\* An operation that waits for a reply, a query or a safe write, or one that
\* does not.
BeginOperation(t, op) ==
  /\ task[t].pc = "idle"
  /\ ReadHost(t, DoingTask("socket", op))
  /\ UNCHANGED <<conn, sock, replset>>

\* __try_node asks the node it points to.
SocketToTry(t) ==
  /\ task[t].pc = "socket"
  /\ ReadHost(t, task[t])
  /\ UNCHANGED <<conn, sock, replset>>

UseSocket(t) ==
  GoTask(t, [task[t] EXCEPT !.pc = IF task[t].find = <<>> THEN "send"
                               ELSE "ismaster",
                        !.pair = NoMember])

\* get_socket((host, port)): the socket of the request if it is any good, to
\* whatever node it goes, or else a new one to the host that was read.  One
\* that its peer has closed may pass for good.
SocketToHost(t) ==
  /\ task[t].pc = "get"
  /\ \/ /\ sock[t] # Closed
        /\ UNCHANGED sock
     \/ /\ ~sock[t].alive
        /\ task[t].pair \in replset.up
        /\ sock' = [sock EXCEPT ![t] =
             [node |-> task[t].pair, alive |-> TRUE, unread |-> FALSE]]
  /\ UseSocket(t)
  /\ UNCHANGED <<conn, replset>>

NodeUnreachable(t) ==
  /\ task[t].pc = "get"
  /\ ~sock[t].alive
  /\ task[t].pair \notin replset.up
  /\ DropConnection
  /\ Raise(t, task[t].find)
  /\ UNCHANGED replset

----------------------------------------------------------------------------
(* __find_node and __try_node *)

\* Mutant: a search that has found nothing keeps the host it tried last.
NextCandidate_KeepsHost(t) ==
  LET find == task[t].find
      frame == Head(find)
  IN  /\ task[t].pc = "next"
      /\ \/ \E c \in frame.todo :
              GoTask(t, [task[t] EXCEPT
                          !.pc = "drop",
                          !.find[1] = [frame EXCEPT !.todo = @ \ {c},
                                                    !.node = c]])
         \/ /\ frame.todo = {} /\ ~frame.second
            /\ GoTask(t, [task[t] EXCEPT
                        !.find[1] = [frame EXCEPT
                                       !.second = TRUE,
                                       !.todo = conn.nodes \ frame.first]])
         \/ /\ frame.todo = {} /\ frame.second
            /\ Raise(t, Tail(find))
      /\ UNCHANGED <<conn, sock, replset>>

NextCandidate(t) ==
  LET find == task[t].find
      frame == Head(find)
  IN  /\ task[t].pc = "next"
      /\ \/ \E c \in frame.todo :
              /\ GoTask(t, [task[t] EXCEPT
                          !.pc = "drop",
                          !.find[1] = [frame EXCEPT !.todo = @ \ {c},
                                                    !.node = c]])
              /\ UNCHANGED <<conn, sock>>
         \/ /\ frame.todo = {} /\ ~frame.second
            /\ GoTask(t, [task[t] EXCEPT
                        !.find[1] = [frame EXCEPT
                                       !.second = TRUE,
                                       !.todo = conn.nodes \ frame.first]])
            /\ UNCHANGED <<conn, sock>>
         \/ /\ frame.todo = {} /\ frame.second
            /\ DropConnection
            /\ Raise(t, Tail(find))
      /\ UNCHANGED replset

\* __try_node disconnects before it points the Connection to the node.
DropHost(t) ==
  /\ task[t].pc = "drop"
  /\ DropConnection
  /\ GotoTask(t, "point")
  /\ UNCHANGED replset

PointToNode(t) ==
  /\ task[t].pc = "point"
  /\ conn' = [conn EXCEPT !.host = TriedNode(task[t].find), !.checked = FALSE]
  /\ GotoTask(t, "socket")
  /\ UNCHANGED <<sock, replset>>

\* The node at the other end of the socket answers, which need not be the one
\* that is tried: a primary ends the search with the node that is tried, any
\* other member names the primary it knows.
IsMaster(t) ==
  LET find == task[t].find
      peer == sock[t].node
  IN  /\ task[t].pc = "ismaster"
      /\ sock[t].alive
      /\ \/ /\ peer = replset.primary
            /\ conn' = [conn EXCEPT !.nodes = Members,
                                    !.checked = @ \/ conn.host = peer]
            /\ GoTask(t, [task[t] EXCEPT !.pc = "get", !.pair = TriedNode(find),
                                     !.find = Tail(find)])
         \/ /\ peer # replset.primary /\ replset.primary # NoMember
            /\ conn' = [conn EXCEPT !.nodes = Members]
            /\ GoTask(t, [task[t] EXCEPT !.pc = "drop",
                                     !.find[1].node = replset.primary])
         \/ /\ replset.primary = NoMember
            /\ conn' = [conn EXCEPT !.nodes = Members]
            /\ Raise(t, find)
      /\ UNCHANGED <<sock, replset>>

\* The node has closed the socket, or recv times out, which discards it.
IsMasterFails(t) ==
  /\ task[t].pc = "ismaster"
  /\ IF sock[t].alive THEN sock' = [sock EXCEPT ![t] = Closed]
                      ELSE UNCHANGED sock
  /\ Raise(t, task[t].find)
  /\ UNCHANGED <<conn, replset>>

----------------------------------------------------------------------------
(* _send_message and _send_message_with_response *)

\* A message without getLastError is gone when the socket has taken it.
SendMessage(t) ==
  /\ task[t].pc = "send"
  /\ IF task[t].op = "unsafe"
     THEN /\ GoTask(t, DoingTask("idle", "none"))
          /\ UNCHANGED sock
     ELSE /\ GotoTask(t, "receive")
          /\ sock' = [sock EXCEPT ![t].unread = TRUE]
  /\ UNCHANGED <<conn, replset>>

SendFails(t) ==
  /\ task[t].pc = "send"
  /\ ~sock[t].alive
  /\ DropConnection
  /\ Raise(t, <<>>)
  /\ UNCHANGED replset

\* The reply; "not master" makes the Connection look for the primary again.
Receive(t) ==
  /\ task[t].pc = "receive"
  /\ sock[t].alive
  /\ IF sock[t].node = replset.primary
     THEN /\ sock' = [sock EXCEPT ![t].unread = FALSE]
          /\ UNCHANGED conn
     ELSE DropConnection
  /\ Raise(t, <<>>)
  /\ UNCHANGED replset

\* Mutant: the socket is kept when recv times out.
ReceiveFails_KeepsSocket(t) ==
  /\ task[t].pc = "receive"
  /\ Raise(t, <<>>)
  /\ UNCHANGED <<conn, sock, replset>>

\* recv raises, also on a timeout with the reply still to come: the socket is
\* discarded; or the peer has closed it.
ReceiveFails(t) ==
  /\ task[t].pc = "receive"
  /\ DropConnection
  /\ Raise(t, <<>>)
  /\ UNCHANGED replset

----------------------------------------------------------------------------
(* The replica set: a primary that steps down or fails closes its sockets. *)

PeersOf(n) ==
  sock' = [t \in Threads |-> IF sock[t].node = n
                             THEN [sock[t] EXCEPT !.alive = FALSE]
                             ELSE sock[t]]

Fault(n) ==
  /\ replset.faults < MaxFaults
  /\ n \in replset.up
  /\ \E up \in {replset.up, replset.up \ {n}} :
       replset' = [up |-> up, faults |-> replset.faults + 1,
                   primary |-> IF n = replset.primary THEN NoMember
                               ELSE replset.primary]
  /\ PeersOf(n)
  /\ UNCHANGED <<conn, task>>

ElectPrimary(n) ==
  /\ replset.primary = NoMember
  /\ n \in replset.up
  /\ replset' = [replset EXCEPT !.primary = n]
  /\ UNCHANGED <<conn, sock, task>>

Recover(n) ==
  /\ n \notin replset.up
  /\ replset' = [replset EXCEPT !.up = @ \union {n}]
  /\ UNCHANGED <<conn, sock, task>>

DiscoveryStep(t) ==
  \/ SocketToTry(t) \/ SocketToHost(t) \/ NodeUnreachable(t)
  \/ NextCandidate(t) \/ DropHost(t) \/ PointToNode(t)
  \/ IsMaster(t) \/ IsMasterFails(t)
  \/ SendMessage(t) \/ SendFails(t) \/ Receive(t) \/ ReceiveFails(t)

DiscoveryNext ==
  \/ \E t \in Threads :
       \/ \E op \in {"unsafe", "reply"} : BeginOperation(t, op)
       \/ DiscoveryStep(t)
  \/ \E n \in Members : Fault(n) \/ ElectPrimary(n) \/ Recover(n)

DiscoverySpec == DiscoveryInit /\ [][DiscoveryNext]_discoveryVars

----------------------------------------------------------------------------
(* What the Connection guarantees. *)

Searches(t) == task[t].find # <<>>

\* Threads that search for the primary at the same time point the Connection
\* to nodes they have not asked yet, drop it under each other and take each
\* other's answers; when the last of them has ended, the host is unknown or
\* has answered that it is the primary since the Connection was pointed to it.
HostIsChecked ==
  (\A t \in Threads : ~Searches(t)) => conn.host = NoMember \/ conn.checked

\* No message is sent over a socket on which the reply to an earlier one is
\* still to come.
NoStaleReply ==
  \A t \in Threads : task[t].pc \in {"send", "ismaster"} => ~sock[t].unread
=============================================================================
