--------------------------- MODULE ConnectionPool ---------------------------
(***************************************************************************)
(* pymongo/pool.py: the pool of sockets that the threads of a process      *)
(* share.  A thread in a request has a socket of its own until it ends the *)
(* request or dies; all others are taken from the idle ones and given back.*)
(*                                                                         *)
(* The idle set is only touched under the pool's lock, so every critical   *)
(* section is one step; what is read or written outside of the lock, the   *)
(* pool_id and the pid, and every call of the network is a step of its     *)
(* own.  resets and the fields from, raced and pid of a socket only record *)
(* what happened, for the properties.                                      *)
(***************************************************************************)
EXTENDS DriverTypes, Naturals, FiniteSets

CONSTANTS MaxSize,       \* max_size, of idle sockets
          MaxResets,     \* bound on the resets of a run
          MaxForks       \* bound on the forks of a run

VARIABLES pool,          \* the fields pool_id, pid and sockets of the pool
          sockInfo,      \* the SocketInfo of every socket
          tidToSock,     \* _tid_to_sock: the request state of every thread
          call,          \* what every thread is doing in the pool
          ospid,         \* os.getpid()
          resets         \* how many calls of reset have begun and ended

poolVars == <<pool, sockInfo, tidToSock, call, ospid, resets>>

\* Of a socket that is closed nothing else is ever looked at.
SocketInfo == [state : {"unopened", "open", "closed"},
               pool_id : Nat, from : Nat, raced : BOOLEAN, pid : Nat]

NoInfo(state) ==
  [state |-> state, pool_id |-> 0, from |-> 0, raced |-> FALSE, pid |-> 0]

InReset == {"bump", "setId", "setPid", "swap", "close"}

\* sock is the socket in hand, id what reset read, old what it swapped out,
\* ret where the thread goes on after reset, or where its connect comes from.
Call == [pc : {"idle", "lookup", "check", "connect", "stamp", "using", "give"}
                \union InReset,
         sock : Sockets \union {NoSocket}, id : Nat, old : SUBSET Sockets,
         ret : {"idle", "lookup", "pop", "check"}]

Rest == [pc |-> "idle", sock |-> NoSocket, id |-> 0, old |-> {}, ret |-> "idle"]

At(pc, s, ret) == [Rest EXCEPT !.pc = pc, !.sock = s, !.ret = ret]

PoolTypeOK ==
  /\ pool \in [pool_id : Nat, pid : Nat, sockets : SUBSET Sockets]
  /\ sockInfo \in [Sockets -> SocketInfo]
  /\ tidToSock \in [Threads -> Sockets \union {NO_REQUEST, NO_SOCKET_YET}]
  /\ call \in [Threads -> Call]
  /\ ospid \in Nat
  /\ resets \in [begun : Nat, ended : Nat]

PoolInit ==
  /\ pool = [pool_id |-> 0, pid |-> 0, sockets |-> {}]
  /\ sockInfo = [s \in Sockets |-> NoInfo("unopened")]
  /\ tidToSock = [t \in Threads |-> NO_REQUEST]
  /\ call = [t \in Threads |-> Rest]
  /\ ospid = 0
  /\ resets = [begun |-> 0, ended |-> 0]

Go(t, c) == call' = [call EXCEPT ![t] = c]

SetRequestState(t, s) == tidToSock' = [tidToSock EXCEPT ![t] = s]

\* SocketInfo.close, and what becomes of a socket nobody refers to.
Closing(ss) ==
  [s \in Sockets |-> IF s \in ss THEN NoInfo("closed") ELSE sockInfo[s]]

\* The sockets a thread has: the one in its hand, that of its request, and
\* those it is about to close.
Held(t) ==
  ({call[t].sock, tidToSock[t]} \union call[t].old) \intersect Sockets

\* The socket in hand, unless it is the request's: an exception drops it.
Dropped(t) == {call[t].sock} \ {tidToSock[t]}

----------------------------------------------------------------------------
(* Requests. *)

StartRequest(t) ==
  /\ call[t].pc = "idle"
  /\ tidToSock[t] = NO_REQUEST
  /\ SetRequestState(t, NO_SOCKET_YET)
  /\ UNCHANGED <<pool, sockInfo, call, ospid, resets>>

\* end_request, and on_thread_died when the thread ends without it: another
\* thread takes its place.
LeaveRequest(t) ==
  /\ call[t].pc = "idle"
  /\ tidToSock[t] # NO_REQUEST
  /\ SetRequestState(t, NO_REQUEST)
  /\ IF tidToSock[t] \in Sockets THEN Go(t, At("give", tidToSock[t], "idle"))
                                 ELSE UNCHANGED call
  /\ UNCHANGED <<pool, sockInfo, ospid, resets>>

\* _return_socket
GiveBack(t) ==
  LET s == call[t].sock
  IN  /\ call[t].pc = "give"
      /\ \/ /\ Cardinality(pool.sockets) < MaxSize
            /\ pool' = [pool EXCEPT !.sockets = @ \union {s}]
            /\ UNCHANGED sockInfo
         \/ /\ Cardinality(pool.sockets) >= MaxSize
            /\ sockInfo' = Closing({s})
            /\ UNCHANGED pool
      /\ Go(t, Rest)
      /\ UNCHANGED <<tidToSock, ospid, resets>>

----------------------------------------------------------------------------
(* get_socket *)

\* The process has forked since the pool was last reset.
GetAfterFork(t) ==
  /\ call[t].pc = "idle"
  /\ pool.pid # ospid
  /\ resets.begun < MaxResets
  /\ Go(t, At("bump", NoSocket, "lookup"))
  /\ UNCHANGED <<pool, sockInfo, tidToSock, ospid, resets>>

\* The socket of the request, an idle one, or else a new one.
GetSocket(t) ==
  /\ \/ call[t].pc = "lookup"
     \/ call[t].pc = "idle" /\ pool.pid = ospid
  /\ \/ /\ tidToSock[t] \in Sockets
        /\ Go(t, At("check", tidToSock[t], "check"))
        /\ UNCHANGED pool
     \/ /\ tidToSock[t] \notin Sockets
        /\ \E s \in pool.sockets :
             /\ pool' = [pool EXCEPT !.sockets = @ \ {s}]
             /\ Go(t, At("check", s, "check"))
     \/ /\ tidToSock[t] \notin Sockets
        /\ pool.sockets = {}
        /\ Go(t, At("connect", NoSocket, "pop"))
        /\ UNCHANGED pool
  /\ UNCHANGED <<sockInfo, tidToSock, ospid, resets>>

\* The end of get_socket: a thread in a request keeps the socket.
Hand(t, s) ==
  /\ IF tidToSock[t] = NO_REQUEST THEN UNCHANGED tidToSock
                                  ELSE SetRequestState(t, s)
  /\ Go(t, At("using", s, "idle"))

\* Mutant: the pool_id is not compared.
CheckPasses_AnyPoolId(t) ==
  LET s == call[t].sock
  IN  /\ call[t].pc = "check"
      /\ sockInfo[s].state # "closed"
      /\ Hand(t, s)
      /\ UNCHANGED <<pool, sockInfo, ospid, resets>>

\* _check passes.
CheckPasses(t) ==
  LET s == call[t].sock
  IN  /\ call[t].pc = "check"
      /\ sockInfo[s].state # "closed"
      /\ sockInfo[s].pool_id = pool.pool_id
      /\ Hand(t, s)
      /\ UNCHANGED <<pool, sockInfo, ospid, resets>>

\* The socket is closed, of an old pool_id, or else its peer has closed it.
CheckFails(t) ==
  LET s == call[t].sock
  IN  /\ call[t].pc = "check"
      /\ sockInfo' = Closing({s})
      /\ Go(t, At("connect", NoSocket, "check"))
      /\ UNCHANGED <<pool, tidToSock, ospid, resets>>

\* create_connection returns; the socket has no pool_id yet.
Connect(t) ==
  /\ call[t].pc = "connect"
  /\ \E s \in Sockets :
       /\ sockInfo[s].state = "unopened"
       /\ sockInfo' = [sockInfo EXCEPT ![s] =
            [state |-> "open", pool_id |-> 0, from |-> resets.begun,
             raced |-> resets.begun # resets.ended, pid |-> ospid]]
       /\ Go(t, At("stamp", s, "idle"))
  /\ UNCHANGED <<pool, tidToSock, ospid, resets>>

\* SocketInfo(sock, self.pool_id): the pool_id of now, not of the connect.
Stamp(t) ==
  LET s == call[t].sock
  IN  /\ call[t].pc = "stamp"
      /\ sockInfo' = [sockInfo EXCEPT
                        ![s].pool_id = pool.pool_id,
                        ![s].raced = @ \/ resets.begun # sockInfo[s].from]
      /\ Hand(t, s)
      /\ UNCHANGED <<pool, ospid, resets>>

\* The server cannot be reached: _check resets the pool, get_socket alone
\* only raises.
ConnectFails(t) ==
  /\ call[t].pc = "connect"
  /\ \/ call[t].ret = "pop" /\ Go(t, Rest)
     \/ /\ call[t].ret = "check"
        /\ resets.begun < MaxResets
        /\ Go(t, At("bump", NoSocket, "idle"))
  /\ UNCHANGED <<pool, sockInfo, tidToSock, ospid, resets>>

----------------------------------------------------------------------------
(* What a thread does with the socket it got. *)

\* Mutant: the socket of the request goes back to the pool, too.
MaybeReturnSocket_RequestToo(t) ==
  LET s == call[t].sock
  IN  /\ call[t].pc = "using"
      /\ pool.pid = ospid
      /\ Go(t, IF sockInfo[s].state = "closed" THEN Rest ELSE At("give", s, "idle"))
      /\ UNCHANGED <<pool, sockInfo, tidToSock, ospid, resets>>

MaybeReturnSocket(t) ==
  LET s == call[t].sock
  IN  /\ call[t].pc = "using"
      /\ \/ /\ pool.pid # ospid
            /\ resets.begun < MaxResets
            /\ Go(t, At("bump", NoSocket, "idle"))
            /\ sockInfo' = Closing(Dropped(t))
         \/ /\ pool.pid = ospid
            /\ Go(t, IF sockInfo[s].state = "closed" \/ tidToSock[t] = s
                     THEN Rest ELSE At("give", s, "idle"))
            /\ UNCHANGED sockInfo
      /\ UNCHANGED <<pool, tidToSock, ospid, resets>>

DiscardSocket(t) ==
  LET s == call[t].sock
  IN  /\ call[t].pc = "using"
      /\ sockInfo' = Closing({s})
      /\ IF tidToSock[t] = s THEN SetRequestState(t, NO_SOCKET_YET)
                             ELSE UNCHANGED tidToSock
      /\ Go(t, Rest)
      /\ UNCHANGED <<pool, ospid, resets>>

\* Connection.disconnect, by a thread whose socket failed or by any other; a
\* socket in its hand is dropped.
Disconnect(t) ==
  /\ call[t].pc \in {"idle", "using"}
  /\ resets.begun < MaxResets
  /\ Go(t, At("bump", NoSocket, "idle"))
  /\ sockInfo' = Closing(Dropped(t))
  /\ UNCHANGED <<pool, tidToSock, ospid, resets>>

----------------------------------------------------------------------------
(* reset: pool_id += 1 is a read and a write. *)

ResetRead(t) ==
  /\ call[t].pc = "bump"
  /\ Go(t, [call[t] EXCEPT !.pc = "setId", !.id = pool.pool_id])
  /\ resets' = [resets EXCEPT !.begun = @ + 1]
  /\ UNCHANGED <<pool, sockInfo, tidToSock, ospid>>

ResetId(t) ==
  /\ call[t].pc = "setId"
  /\ pool' = [pool EXCEPT !.pool_id = call[t].id + 1]
  /\ Go(t, [call[t] EXCEPT !.pc = "setPid", !.id = 0])
  /\ UNCHANGED <<sockInfo, tidToSock, ospid, resets>>

ResetPid(t) ==
  /\ call[t].pc = "setPid"
  /\ pool' = [pool EXCEPT !.pid = ospid]
  /\ Go(t, [call[t] EXCEPT !.pc = "swap"])
  /\ UNCHANGED <<sockInfo, tidToSock, ospid, resets>>

ResetSwap(t) ==
  /\ call[t].pc = "swap"
  /\ pool' = [pool EXCEPT !.sockets = {}]
  /\ Go(t, [call[t] EXCEPT !.pc = "close", !.old = pool.sockets])
  /\ UNCHANGED <<sockInfo, tidToSock, ospid, resets>>

ResetClose(t) ==
  /\ call[t].pc = "close"
  /\ sockInfo' = Closing(call[t].old)
  /\ resets' = [resets EXCEPT !.ended = @ + 1]
  /\ Go(t, At(call[t].ret, NoSocket, "idle"))
  /\ UNCHANGED <<pool, tidToSock, ospid>>

----------------------------------------------------------------------------
(* The environment. *)

\* The child has the thread that forked and a copy of everything else; the
\* threads that start in it are not those of the parent.
Fork(t) ==
  /\ ospid < MaxForks
  /\ call[t].pc \in {"idle", "using"}
  /\ ospid' = ospid + 1
  /\ call' = [u \in Threads |-> IF u = t THEN call[u] ELSE Rest]
  /\ tidToSock' = [u \in Threads |-> IF u = t THEN tidToSock[u]
                                              ELSE NO_REQUEST]
  /\ resets' = [resets EXCEPT !.begun = resets.ended]
  /\ sockInfo' = Closing(UNION {Held(u) : u \in Threads \ {t}})
  /\ UNCHANGED pool

ThreadStep(t) ==
  \/ StartRequest(t) \/ LeaveRequest(t) \/ GiveBack(t)
  \/ GetAfterFork(t) \/ GetSocket(t) \/ CheckPasses(t) \/ CheckFails(t)
  \/ Connect(t) \/ Stamp(t) \/ ConnectFails(t)
  \/ MaybeReturnSocket(t) \/ DiscardSocket(t) \/ Disconnect(t)
  \/ ResetRead(t) \/ ResetId(t) \/ ResetPid(t) \/ ResetSwap(t) \/ ResetClose(t)

PoolNext == \E t \in Threads : ThreadStep(t) \/ Fork(t)

PoolSpec == PoolInit /\ [][PoolNext]_poolVars

----------------------------------------------------------------------------
(* What the pool guarantees. *)

\* No socket is ever with two threads, nor with a thread and idle: a reply
\* cannot be read by a thread that has not asked for it, whatever the order of
\* requests that end, threads that die, and resets.
SocketExclusive ==
  \A t \in Threads :
    /\ Held(t) \intersect pool.sockets = {}
    /\ \A u \in Threads \ {t} : Held(t) \intersect Held(u) = {}

\* "Keep track of resets, so we notice sockets created before the most recent
\* reset": a socket whose connect overlapped no reset is never handed out once
\* a reset has ended since, nor to a child of the process that opened it,
\* although pool_id += 1 is not atomic and may lose updates or go backwards.
\* (Of a socket that was being connected while a reset was under way this is
\* not so: it gets the new pool_id.)
StaleNoticed ==
  [][\A t \in Threads :
       LET s == sockInfo[call[t].sock]
       IN  CheckPasses(t) /\ ~s.raced
             => resets.ended = s.from /\ s.pid = ospid]_poolVars
=============================================================================
