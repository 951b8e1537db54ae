------------------------ MODULE ConnectionPoolProofs ------------------------
(***************************************************************************)
(* A socket of the pool is never in two places, and one of before a reset  *)
(* is noticed, for any number of threads, sockets, resets and forks and    *)
(* any size of the pool.                                                   *)
(***************************************************************************)
EXTENDS ConnectionPool, FiniteSetTheorems, TLAPS

\* What a thread has in its hand depends on where it is; a socket on its way
\* back to the pool is no longer that of the request.
Fits(c, r) ==
  /\ c.pc \in {"check", "stamp", "using", "give"} => c.sock \in Sockets
  /\ c.pc \in InReset => c.ret \in {"idle", "lookup"}
  /\ c.pc = "give" => r # c.sock

CallOK(t) == Fits(call[t], tidToSock[t])

\* A new socket is in nobody's hand.
Opened ==
  /\ \A s \in pool.sockets : sockInfo[s].state # "unopened"
  /\ \A t \in Threads : \A s \in Held(t) : sockInfo[s].state # "unopened"

PoolInv ==
  /\ PoolTypeOK
  /\ \A t \in Threads : CallOK(t)
  /\ Opened
  /\ SocketExclusive

RequestState == Sockets \union {NO_REQUEST, NO_SOCKET_YET}

----------------------------------------------------------------------------
(* What the helpers return. *)

LEMMA RestType == Rest \in Call
BY DEF Rest, Call, InReset

LEMMA AtType ==
  ASSUME NEW pc \in {"idle", "lookup", "check", "connect", "stamp", "using",
                     "give"} \union InReset,
         NEW s \in Sockets \union {NoSocket},
         NEW ret \in {"idle", "lookup", "pop", "check"}
  PROVE  /\ At(pc, s, ret) \in Call
         /\ At(pc, s, ret).pc = pc /\ At(pc, s, ret).sock = s
         /\ At(pc, s, ret).ret = ret /\ At(pc, s, ret).old = {}
BY DEF At, Rest, Call, InReset

\* No socket becomes new again by closing others.
LEMMA ClosingType ==
  ASSUME PoolTypeOK, NEW ss
  PROVE  /\ Closing(ss) \in [Sockets -> SocketInfo]
         /\ \A s \in Sockets : sockInfo[s].state # "unopened" =>
                                 Closing(ss)[s].state # "unopened"
<1>1. NoInfo("closed") \in SocketInfo /\ NoInfo("closed").state = "closed"
  BY DEF NoInfo, SocketInfo
<1>2. sockInfo \in [Sockets -> SocketInfo]
  BY DEF PoolTypeOK
<1> QED
  BY <1>1, <1>2 DEF Closing

----------------------------------------------------------------------------
(* Steps of one thread. *)

\* Thread t goes on with c and has the request state r: the types and the
\* other threads are as they were.
LEMMA ThreadMoves ==
  ASSUME PoolInv, NEW t \in Threads, NEW c \in Call, NEW r \in RequestState,
         Go(t, c), SetRequestState(t, r)
  PROVE  /\ call' \in [Threads -> Call]
         /\ tidToSock' \in [Threads -> RequestState]
         /\ call'[t] = c /\ tidToSock'[t] = r
         /\ Held(t)' = ({c.sock, r} \union c.old) \intersect Sockets
         /\ \A u \in Threads \ {t} :
              /\ call'[u] = call[u] /\ tidToSock'[u] = tidToSock[u]
              /\ Held(u)' = Held(u) /\ CallOK(u)'
<1>1. call \in [Threads -> Call] /\ tidToSock \in [Threads -> RequestState]
  BY DEF PoolInv, PoolTypeOK, RequestState
<1>2. /\ call' \in [Threads -> Call] /\ tidToSock' \in [Threads -> RequestState]
      /\ call'[t] = c /\ tidToSock'[t] = r
      /\ \A u \in Threads \ {t} : call'[u] = call[u] /\ tidToSock'[u] = tidToSock[u]
  BY <1>1 DEF Go, SetRequestState
<1>3. Held(t)' = ({c.sock, r} \union c.old) \intersect Sockets
  BY <1>2 DEF Held
<1>4. ASSUME NEW u \in Threads \ {t} PROVE Held(u)' = Held(u) /\ CallOK(u)'
  BY <1>2, <1>4 DEF Held, CallOK, PoolInv
<1> QED
  BY <1>2, <1>3, <1>4

LEMMA SameRequestState ==
  ASSUME PoolInv, NEW t \in Threads, UNCHANGED tidToSock
  PROVE  tidToSock[t] \in RequestState /\ SetRequestState(t, tidToSock[t])
<1>1. tidToSock \in [Threads -> RequestState]
  BY DEF PoolInv, PoolTypeOK, RequestState
<1> QED
  BY <1>1 DEF SetRequestState

\* Nobody gets a socket, and the pool gets none.
LEMMA NobodyGains ==
  ASSUME PoolInv,
         \A u \in Threads : Held(u)' \subseteq Held(u),
         pool'.sockets \subseteq pool.sockets,
         \A s \in Sockets : sockInfo[s].state # "unopened" =>
                              sockInfo'[s].state # "unopened"
  PROVE  Opened' /\ SocketExclusive'
<1>1. pool.sockets \subseteq Sockets
  BY DEF PoolInv, PoolTypeOK
<1>2. Opened'
  <2>1. \A s \in pool'.sockets : sockInfo'[s].state # "unopened"
    BY <1>1 DEF PoolInv, Opened
  <2>2. ASSUME NEW u \in Threads, NEW s \in Held(u)'
        PROVE  sockInfo'[s].state # "unopened"
    <3>1. s \in Held(u)
      BY <2>2
    <3>2. s \in Sockets
      BY <3>1 DEF Held
    <3> QED
      BY <3>1, <3>2 DEF PoolInv, Opened
  <2> QED
    BY <2>1, <2>2 DEF Opened
<1>3. SocketExclusive'
  <2>1. ASSUME NEW u \in Threads PROVE Held(u)' \intersect pool'.sockets = {}
    <3>1. Held(u) \intersect pool.sockets = {} /\ Held(u)' \subseteq Held(u)
      BY DEF PoolInv, SocketExclusive
    <3> QED
      BY <3>1
  <2>2. ASSUME NEW u \in Threads, NEW v \in Threads \ {u}
        PROVE  Held(u)' \intersect Held(v)' = {}
    <3>1. Held(u) \intersect Held(v) = {}
      BY DEF PoolInv, SocketExclusive
    <3> QED
      BY <3>1
  <2> QED
    BY <2>1, <2>2 DEF SocketExclusive
<1> QED
  BY <1>2, <1>3

Pools == [pool_id : Nat, pid : Nat, sockets : SUBSET Sockets]
Resets == [begun : Nat, ended : Nat]

\* The invariant after a step of thread t that brings it nothing it did not have.
LEMMA KeepsInv ==
  ASSUME PoolInv, NEW t \in Threads, NEW c \in Call, NEW r \in RequestState,
         Go(t, c), SetRequestState(t, r), Fits(c, r),
         ({c.sock, r} \union c.old) \intersect Sockets \subseteq Held(t),
         pool' \in Pools, pool'.sockets \subseteq pool.sockets,
         sockInfo' \in [Sockets -> SocketInfo],
         \A s \in Sockets : sockInfo[s].state # "unopened" =>
                              sockInfo'[s].state # "unopened",
         resets' \in Resets, UNCHANGED ospid
  PROVE  PoolInv'
<1>1. /\ call' \in [Threads -> Call]
      /\ tidToSock' \in [Threads -> RequestState]
      /\ call'[t] = c /\ tidToSock'[t] = r
      /\ Held(t)' \subseteq Held(t)
      /\ \A u \in Threads \ {t} : Held(u)' = Held(u) /\ CallOK(u)'
  BY ThreadMoves
<1>2. PoolTypeOK'
  BY <1>1 DEF PoolInv, PoolTypeOK, Pools, Resets, RequestState
<1>3. \A u \in Threads : CallOK(u)'
  BY <1>1 DEF CallOK
<1>4. \A u \in Threads : Held(u)' \subseteq Held(u)
  BY <1>1
<1>5. Opened' /\ SocketExclusive'
  BY <1>4, NobodyGains
<1> QED
  BY <1>2, <1>3, <1>5 DEF PoolInv

\* What PoolInv says of one thread.
LEMMA OfThread ==
  ASSUME PoolInv, NEW t \in Threads
  PROVE  /\ call[t] \in Call /\ tidToSock[t] \in RequestState
         /\ Fits(call[t], tidToSock[t])
         /\ pool \in Pools /\ sockInfo \in [Sockets -> SocketInfo]
         /\ resets \in Resets /\ ospid \in Nat
         /\ call[t].sock \in Sockets \union {NoSocket}
         /\ call[t].old \subseteq Sockets
BY DEF PoolInv, PoolTypeOK, Pools, Resets, RequestState, CallOK, Call

----------------------------------------------------------------------------
(* The actions that bring a thread no socket. *)

LEMMA RequestSteps ==
  ASSUME PoolInv, NEW t \in Threads, StartRequest(t) \/ LeaveRequest(t)
  PROVE  PoolInv'
<1> USE OfThread, DriverAssumption
<1>1. CASE StartRequest(t)
  <2>1. /\ Go(t, call[t]) /\ SetRequestState(t, NO_SOCKET_YET)
        /\ UNCHANGED <<pool, sockInfo, ospid, resets>>
    BY <1>1 DEF StartRequest, Go, PoolInv, PoolTypeOK
  <2>2. Fits(call[t], NO_SOCKET_YET)
    BY <1>1 DEF StartRequest, Fits, InReset
  <2>3. ({call[t].sock, NO_SOCKET_YET} \union call[t].old) \intersect Sockets
          \subseteq Held(t)
    BY DEF Held
  <2> QED
    BY <2>1, <2>2, <2>3, KeepsInv, NO_SOCKET_YET \in RequestState DEF RequestState
<1>2. CASE LeaveRequest(t) /\ tidToSock[t] \in Sockets
  <2> DEFINE c == At("give", tidToSock[t], "idle")
  <2>1. c \in Call /\ c.sock = tidToSock[t] /\ c.old = {} /\ c.pc = "give"
    BY <1>2, AtType
  <2>2. /\ Go(t, c) /\ SetRequestState(t, NO_REQUEST)
        /\ UNCHANGED <<pool, sockInfo, ospid, resets>>
    BY <1>2 DEF LeaveRequest
  <2>3. Fits(c, NO_REQUEST)
    BY <1>2, <2>1 DEF Fits, InReset
  <2>4. ({c.sock, NO_REQUEST} \union c.old) \intersect Sockets \subseteq Held(t)
    BY <2>1 DEF Held
  <2>5. NO_REQUEST \in RequestState
    BY DEF RequestState
  <2> HIDE DEF c
  <2> QED
    BY <2>1, <2>2, <2>3, <2>4, <2>5, KeepsInv
<1>3. CASE LeaveRequest(t) /\ tidToSock[t] \notin Sockets
  <2>1. /\ Go(t, call[t]) /\ SetRequestState(t, NO_REQUEST)
        /\ UNCHANGED <<pool, sockInfo, ospid, resets>>
    BY <1>3 DEF LeaveRequest, Go, PoolInv, PoolTypeOK
  <2>2. Fits(call[t], NO_REQUEST)
    BY <1>3 DEF LeaveRequest, Fits, InReset
  <2>3. ({call[t].sock, NO_REQUEST} \union call[t].old) \intersect Sockets
          \subseteq Held(t)
    BY DEF Held
  <2> QED
    BY <2>1, <2>2, <2>3, KeepsInv, NO_REQUEST \in RequestState DEF RequestState
<1> QED
  BY <1>1, <1>2, <1>3

\* Thread t goes on with c in its request, or out of it; the sockets it drops
\* are closed.
LEMMA GoesOn ==
  ASSUME PoolInv, NEW t \in Threads, NEW c \in Call, Go(t, c),
         UNCHANGED <<tidToSock, ospid>>, Fits(c, tidToSock[t]),
         ({c.sock} \union c.old) \intersect Sockets \subseteq Held(t),
         pool' \in Pools, pool'.sockets \subseteq pool.sockets,
         resets' \in Resets,
         sockInfo' = sockInfo \/ \E ss : sockInfo' = Closing(ss)
  PROVE  PoolInv'
<1> DEFINE r == tidToSock[t]
<1>1. r \in RequestState /\ SetRequestState(t, r)
  BY SameRequestState
<1>2. ({c.sock, r} \union c.old) \intersect Sockets \subseteq Held(t)
  BY DEF Held
<1>3. /\ sockInfo' \in [Sockets -> SocketInfo]
      /\ \A s \in Sockets : sockInfo[s].state # "unopened" =>
                               sockInfo'[s].state # "unopened"
  <2>1. CASE sockInfo' = sockInfo
    BY <2>1, OfThread
  <2>2. CASE \E ss : sockInfo' = Closing(ss)
    <3>1. PICK ss : sockInfo' = Closing(ss)
      BY <2>2
    <3>2. PoolTypeOK
      BY DEF PoolInv
    <3> QED
      BY <3>1, <3>2, ClosingType
  <2> QED
    BY <2>1, <2>2
<1>4. Fits(c, r) /\ UNCHANGED ospid
  OBVIOUS
<1>5. /\ Go(t, c) /\ pool' \in Pools /\ pool'.sockets \subseteq pool.sockets
      /\ resets' \in Resets
  OBVIOUS
<1> HIDE DEF r
<1> QED
  BY ONLY PoolInv, t \in Threads, c \in Call, <1>1, <1>2, <1>3, <1>4, <1>5,
          KeepsInv

\* The states of a thread with no socket in its hand.
LEMMA EmptyHanded ==
  ASSUME NEW t \in Threads, NEW pc \in {"lookup", "connect", "bump"},
         NEW ret \in {"idle", "lookup", "pop", "check"},
         pc = "bump" => ret \in {"idle", "lookup"},
         NEW c, c = Rest \/ c = At(pc, NoSocket, ret)
  PROVE  /\ c \in Call /\ Fits(c, tidToSock[t])
         /\ ({c.sock} \union c.old) \intersect Sockets = {}
<1>1. CASE c = Rest
  BY <1>1, RestType, DriverAssumption DEF Rest, Fits, InReset
<1>2. CASE c = At(pc, NoSocket, ret)
  <2>1. /\ c \in Call /\ c.pc = pc /\ c.sock = NoSocket
        /\ c.ret = ret /\ c.old = {}
    BY <1>2, AtType DEF InReset
  <2> QED
    BY <2>1, DriverAssumption DEF Fits, InReset
<1> QED
  BY <1>1, <1>2

\* The actions after which the thread has no socket in its hand.
LEMMA DropSteps ==
  ASSUME PoolInv, NEW t \in Threads,
         \/ GetAfterFork(t) \/ CheckFails(t) \/ ConnectFails(t) \/ Disconnect(t)
  PROVE  PoolInv'
<1>1. /\ pool \in Pools /\ resets \in Resets
      /\ call \in [Threads -> Call]
  BY OfThread DEF PoolInv, PoolTypeOK
<1>2. /\ UNCHANGED <<pool, tidToSock, ospid, resets>>
      /\ sockInfo' = sockInfo \/ \E ss : sockInfo' = Closing(ss)
  BY DEF GetAfterFork, CheckFails, ConnectFails, Disconnect
<1>3. \E c, pc, ret :
        /\ Go(t, c) /\ (c = Rest \/ c = At(pc, NoSocket, ret))
        /\ pc \in {"lookup", "connect", "bump"}
        /\ ret \in {"idle", "lookup", "pop", "check"}
        /\ pc = "bump" => ret \in {"idle", "lookup"}
  <2>1. CASE GetAfterFork(t)
    <3>1. Go(t, At("bump", NoSocket, "lookup"))
      BY <2>1 DEF GetAfterFork
    <3> QED
      BY <3>1
  <2>2. CASE CheckFails(t)
    <3>1. Go(t, At("connect", NoSocket, "check"))
      BY <2>2 DEF CheckFails
    <3> QED
      BY <3>1
  <2>3. CASE ConnectFails(t)
    <3>1. Go(t, Rest) \/ Go(t, At("bump", NoSocket, "idle"))
      BY <2>3 DEF ConnectFails
    <3> QED
      BY <3>1
  <2>4. CASE Disconnect(t)
    <3>1. Go(t, At("bump", NoSocket, "idle"))
      BY <2>4 DEF Disconnect
    <3> QED
      BY <3>1
  <2> QED
    BY <2>1, <2>2, <2>3, <2>4
<1>4. PICK c, pc, ret :
        /\ Go(t, c) /\ (c = Rest \/ c = At(pc, NoSocket, ret))
        /\ pc \in {"lookup", "connect", "bump"}
        /\ ret \in {"idle", "lookup", "pop", "check"}
        /\ pc = "bump" => ret \in {"idle", "lookup"}
  BY <1>3
<1>5. /\ c \in Call /\ Fits(c, tidToSock[t])
      /\ ({c.sock} \union c.old) \intersect Sockets = {}
  BY <1>4, EmptyHanded
<1> QED
  BY <1>1, <1>2, <1>4, <1>5, GoesOn

\* The thread keeps the socket in its hand, or takes up that of its request.
LEMMA KeepSteps ==
  ASSUME PoolInv, NEW t \in Threads, NEW s \in Sockets,
         NEW pc \in {"check", "give"}, NEW ret \in {"idle", "check"},
         Go(t, At(pc, s, ret)), s \in Held(t), pc = "give" => tidToSock[t] # s,
         UNCHANGED <<pool, sockInfo, tidToSock, ospid, resets>>
  PROVE  PoolInv'
<1> DEFINE c == At(pc, s, ret)
<1>1. c \in Call /\ c.pc = pc /\ c.sock = s /\ c.old = {}
  BY AtType
<1>2. /\ Fits(c, tidToSock[t])
      /\ ({c.sock} \union c.old) \intersect Sockets \subseteq Held(t)
  BY <1>1 DEF Fits, InReset
<1>3. pool \in Pools /\ resets \in Resets /\ Go(t, c)
  BY OfThread
<1> HIDE DEF c
<1> QED
  BY <1>1, <1>2, <1>3, GoesOn

LEMMA RestStep ==
  ASSUME PoolInv, NEW t \in Threads, Go(t, Rest),
         UNCHANGED <<pool, tidToSock, ospid, resets>>,
         sockInfo' = sockInfo \/ \E ss : sockInfo' = Closing(ss)
  PROVE  PoolInv'
<1>1. /\ Rest \in Call /\ Fits(Rest, tidToSock[t])
      /\ ({Rest.sock} \union Rest.old) \intersect Sockets = {}
  BY EmptyHanded
<1>2. pool \in Pools /\ resets \in Resets
  BY OfThread
<1> QED
  BY <1>1, <1>2, GoesOn

LEMMA ReturnStep ==
  ASSUME PoolInv, NEW t \in Threads, MaybeReturnSocket(t)
  PROVE  PoolInv'
<1> DEFINE s == call[t].sock
<1>1. s \in Sockets /\ s \in Held(t)
  BY OfThread DEF MaybeReturnSocket, Fits, Held
<1>2. UNCHANGED <<pool, tidToSock, ospid, resets>>
  BY DEF MaybeReturnSocket
<1>3. \/ /\ Go(t, At("bump", NoSocket, "idle"))
         /\ sockInfo' = Closing(Dropped(t))
      \/ Go(t, Rest) /\ UNCHANGED sockInfo
      \/ /\ Go(t, At("give", s, "idle")) /\ tidToSock[t] # s
         /\ UNCHANGED sockInfo
  BY DEF MaybeReturnSocket
<1>4. CASE /\ Go(t, At("bump", NoSocket, "idle"))
           /\ sockInfo' = Closing(Dropped(t))
  <2> DEFINE c == At("bump", NoSocket, "idle")
  <2>1. /\ c \in Call /\ Fits(c, tidToSock[t])
        /\ ({c.sock} \union c.old) \intersect Sockets = {}
    BY EmptyHanded
  <2>2. pool \in Pools /\ resets \in Resets /\ Go(t, c)
    BY <1>4, OfThread
  <2>3. \E ss : sockInfo' = Closing(ss)
    BY <1>4
  <2> HIDE DEF c
  <2> QED
    BY <1>2, <2>1, <2>2, <2>3, GoesOn
<1>5. CASE Go(t, Rest) /\ UNCHANGED sockInfo
  BY <1>2, <1>5, RestStep
<1>6. CASE /\ Go(t, At("give", s, "idle")) /\ tidToSock[t] # s
           /\ UNCHANGED sockInfo
  <2> HIDE DEF s
  <2> QED
    BY <1>1, <1>2, <1>6, KeepSteps
<1> QED
  BY <1>3, <1>4, <1>5, <1>6

LEMMA DiscardStep ==
  ASSUME PoolInv, NEW t \in Threads, DiscardSocket(t)
  PROVE  PoolInv'
<1> DEFINE s == call[t].sock
<1>1. /\ Go(t, Rest) /\ sockInfo' = Closing({s})
      /\ UNCHANGED <<pool, ospid, resets>>
      /\ SetRequestState(t, NO_SOCKET_YET) \/ UNCHANGED tidToSock
  BY DEF DiscardSocket
<1>2. CASE UNCHANGED tidToSock
  <2> HIDE DEF s
  <2> QED
    BY <1>1, <1>2, RestStep
<1>3. CASE SetRequestState(t, NO_SOCKET_YET)
  <2>1. /\ Rest \in Call /\ Fits(Rest, NO_SOCKET_YET)
        /\ ({Rest.sock, NO_SOCKET_YET} \union Rest.old) \intersect Sockets = {}
    BY RestType, DriverAssumption DEF Rest, Fits, InReset
  <2>2. /\ sockInfo' \in [Sockets -> SocketInfo]
        /\ \A x \in Sockets : sockInfo[x].state # "unopened" =>
                                 sockInfo'[x].state # "unopened"
    <3> HIDE DEF s
    <3> QED
      BY <1>1, ClosingType DEF PoolInv
  <2>3. pool \in Pools /\ resets \in Resets /\ NO_SOCKET_YET \in RequestState
    BY OfThread DEF RequestState
  <2> HIDE DEF s
  <2> QED
    BY <1>1, <1>3, <2>1, <2>2, <2>3, KeepsInv
<1> QED
  BY <1>1, <1>2, <1>3

\* The socket in hand becomes that of the request, if there is one.
LEMMA HandStep ==
  ASSUME PoolInv, NEW t \in Threads, NEW s \in Sockets, s = call[t].sock,
         Hand(t, s), UNCHANGED <<pool, ospid, resets>>,
         sockInfo' \in [Sockets -> SocketInfo],
         \A x \in Sockets : sockInfo[x].state # "unopened" =>
                              sockInfo'[x].state # "unopened"
  PROVE  PoolInv'
<1> DEFINE c == At("using", s, "idle")
           r == IF tidToSock[t] = NO_REQUEST THEN NO_REQUEST ELSE s
<1>1. c \in Call /\ c.pc = "using" /\ c.sock = s /\ c.old = {}
  BY AtType
<1>2. Go(t, c) /\ SetRequestState(t, r)
  BY DEF Hand, SetRequestState, PoolInv, PoolTypeOK
<1>3. r \in RequestState /\ s \in Held(t)
  BY DEF RequestState, Held
<1>4. ({c.sock, r} \union c.old) \intersect Sockets \subseteq Held(t)
  BY <1>1, <1>3, DriverAssumption
<1>5. Fits(c, r) /\ pool \in Pools /\ resets \in Resets
  BY <1>1, OfThread DEF Fits, InReset
<1> HIDE DEF c, r
<1> QED
  BY <1>1, <1>2, <1>3, <1>4, <1>5, KeepsInv

LEMMA HandSteps ==
  ASSUME PoolInv, NEW t \in Threads, CheckPasses(t) \/ Stamp(t)
  PROVE  PoolInv'
<1> DEFINE s == call[t].sock
<1>1. s \in Sockets /\ Hand(t, s) /\ UNCHANGED <<pool, ospid, resets>>
  BY OfThread DEF CheckPasses, Stamp, Fits
<1>2. /\ sockInfo' \in [Sockets -> SocketInfo]
      /\ \A x \in Sockets : sockInfo[x].state # "unopened" =>
                               sockInfo'[x].state # "unopened"
  <2>1. CASE CheckPasses(t)
    BY <2>1, OfThread DEF CheckPasses
  <2>2. CASE Stamp(t)
    <3> DEFINE late == sockInfo[s].raced \/ resets.begun # sockInfo[s].from
    <3>1. late \in BOOLEAN
      OBVIOUS
    <3>2. sockInfo' = [sockInfo EXCEPT ![s].pool_id = pool.pool_id,
                                       ![s].raced = late]
      BY <2>2, <1>1, OfThread DEF Stamp, SocketInfo
    <3>3. pool.pool_id \in Nat /\ sockInfo \in [Sockets -> SocketInfo]
      BY OfThread DEF Pools
    <3> HIDE DEF late, s
    <3> QED
      BY <1>1, <3>1, <3>2, <3>3 DEF SocketInfo
  <2> QED
    BY <2>1, <2>2
<1> HIDE DEF s
<1>3. s = call[t].sock
  BY DEF s
<1> QED
  BY <1>1, <1>2, <1>3, HandStep

----------------------------------------------------------------------------
(* reset. *)

\* The steps that only count, and the last one, which lets go of the old idle
\* sockets.
LEMMA ResetSteps ==
  ASSUME PoolInv, NEW t \in Threads,
         \/ ResetRead(t) \/ ResetId(t) \/ ResetPid(t) \/ ResetClose(t)
  PROVE  PoolInv'
<1>1. call[t] \in Call /\ Fits(call[t], tidToSock[t]) /\ pool \in Pools
      /\ resets \in Resets /\ ospid \in Nat
  BY OfThread
<1>2. CASE ResetRead(t)
  <2> DEFINE c == [call[t] EXCEPT !.pc = "setId", !.id = pool.pool_id]
  <2>1. c \in Call /\ c.sock = call[t].sock /\ c.old = call[t].old
        /\ c.pc = "setId" /\ c.ret = call[t].ret
    BY <1>1 DEF Call, InReset, Pools
  <2>2. Fits(c, tidToSock[t])
    BY <1>1, <1>2, <2>1 DEF ResetRead, Fits, InReset
  <2>3. ({c.sock} \union c.old) \intersect Sockets \subseteq Held(t)
    BY <2>1 DEF Held
  <2>4. /\ Go(t, c) /\ UNCHANGED <<pool, sockInfo, tidToSock, ospid>>
        /\ resets' \in Resets
    BY <1>1, <1>2 DEF ResetRead, Resets
  <2> HIDE DEF c
  <2> QED
    BY <1>1, <2>1, <2>2, <2>3, <2>4, GoesOn
<1>3. CASE ResetId(t)
  <2> DEFINE c == [call[t] EXCEPT !.pc = "setPid", !.id = 0]
  <2>1. c \in Call /\ c.sock = call[t].sock /\ c.old = call[t].old
        /\ c.pc = "setPid" /\ c.ret = call[t].ret
    BY <1>1 DEF Call, InReset
  <2>2. Fits(c, tidToSock[t])
    BY <1>1, <1>3, <2>1 DEF ResetId, Fits, InReset
  <2>3. ({c.sock} \union c.old) \intersect Sockets \subseteq Held(t)
    BY <2>1 DEF Held
  <2>4. Go(t, c) /\ UNCHANGED <<sockInfo, tidToSock, ospid, resets>>
    BY <1>3 DEF ResetId
  <2>5. pool' \in Pools /\ pool'.sockets = pool.sockets
    BY <1>1, <1>3 DEF ResetId, Pools, Call
  <2> HIDE DEF c
  <2> QED
    BY <1>1, <2>1, <2>2, <2>3, <2>4, <2>5, GoesOn
<1>4. CASE ResetPid(t)
  <2> DEFINE c == [call[t] EXCEPT !.pc = "swap"]
  <2>1. c \in Call /\ c.sock = call[t].sock /\ c.old = call[t].old
        /\ c.pc = "swap" /\ c.ret = call[t].ret
    BY <1>1 DEF Call, InReset
  <2>2. Fits(c, tidToSock[t])
    BY <1>1, <1>4, <2>1 DEF ResetPid, Fits, InReset
  <2>3. ({c.sock} \union c.old) \intersect Sockets \subseteq Held(t)
    BY <2>1 DEF Held
  <2>4. Go(t, c) /\ UNCHANGED <<sockInfo, tidToSock, ospid, resets>>
    BY <1>4 DEF ResetPid
  <2>5. pool' \in Pools /\ pool'.sockets = pool.sockets
    BY <1>1, <1>4 DEF ResetPid, Pools
  <2> HIDE DEF c
  <2> QED
    BY <1>1, <2>1, <2>2, <2>3, <2>4, <2>5, GoesOn
<1>5. CASE ResetClose(t)
  <2> DEFINE c == At(call[t].ret, NoSocket, "idle")
  <2>1. call[t].ret \in {"idle", "lookup"}
    BY <1>1, <1>5 DEF ResetClose, Fits, InReset
  <2>2. /\ c \in Call /\ c.sock = NoSocket /\ c.old = {}
        /\ c.pc = call[t].ret
    BY <2>1, AtType
  <2>3. /\ Fits(c, tidToSock[t])
        /\ ({c.sock} \union c.old) \intersect Sockets = {}
    BY <2>1, <2>2, DriverAssumption DEF Fits, InReset
  <2>4. /\ Go(t, c) /\ UNCHANGED <<pool, tidToSock, ospid>>
        /\ resets' \in Resets /\ \E ss : sockInfo' = Closing(ss)
    BY <1>1, <1>5 DEF ResetClose, Resets
  <2> HIDE DEF c
  <2> QED
    BY <1>1, <2>2, <2>3, <2>4, GoesOn
<1> QED
  BY <1>2, <1>3, <1>4, <1>5

----------------------------------------------------------------------------
(* The actions that move a socket: out of the pool and into it. *)

\* The invariant from its parts, after a step of thread t.
LEMMA MovesInv ==
  ASSUME PoolInv, NEW t \in Threads, NEW c \in Call, Go(t, c),
         UNCHANGED <<tidToSock, ospid, resets>>, Fits(c, tidToSock[t]),
         pool' \in Pools, sockInfo' \in [Sockets -> SocketInfo],
         \A s \in Sockets : sockInfo[s].state # "unopened" =>
                              sockInfo'[s].state # "unopened",
         \A s \in pool'.sockets \union Held(t)' :
            sockInfo'[s].state # "unopened",
         \A s \in pool'.sockets \ pool.sockets :
            \A u \in Threads \ {t} : s \notin Held(u),
         Held(t)' \intersect pool'.sockets = {},
         \A u \in Threads \ {t} : Held(t)' \intersect Held(u) = {}
  PROVE  PoolInv'
<1> DEFINE r == tidToSock[t]
<1>1. r \in RequestState /\ SetRequestState(t, r) /\ Fits(c, r)
  BY SameRequestState
<1>2. /\ call' \in [Threads -> Call]
      /\ tidToSock' \in [Threads -> RequestState]
      /\ call'[t] = c /\ tidToSock'[t] = r
      /\ \A u \in Threads \ {t} : Held(u)' = Held(u) /\ CallOK(u)'
  <2> HIDE DEF r
  <2> QED
    BY <1>1, ThreadMoves
<1>3. PoolTypeOK'
  BY <1>2, OfThread DEF PoolInv, PoolTypeOK, Pools, Resets, RequestState
<1>4. \A u \in Threads : CallOK(u)'
  BY <1>1, <1>2 DEF CallOK
<1>5. Opened'
  <2>1. ASSUME NEW u \in Threads, NEW s \in Held(u)'
        PROVE  sockInfo'[s].state # "unopened"
    <3>1. CASE u = t
      BY <2>1, <3>1
    <3>2. CASE u # t
      <4>1. s \in Held(u) /\ s \in Sockets
        BY <1>2, <2>1, <3>2 DEF Held
      <4> QED
        BY <4>1 DEF PoolInv, Opened
    <3> QED
      BY <3>1, <3>2
  <2> QED
    BY <2>1 DEF Opened
<1>6. SocketExclusive'
  <2>1. ASSUME NEW u \in Threads \ {t}
        PROVE  Held(u)' \intersect pool'.sockets = {}
    <3>1. Held(u)' = Held(u) /\ Held(u) \intersect pool.sockets = {}
      BY <1>2 DEF PoolInv, SocketExclusive
    <3> QED
      BY <3>1
  <2>2. ASSUME NEW u \in Threads, NEW v \in Threads \ {u}
        PROVE  Held(u)' \intersect Held(v)' = {}
    <3>1. CASE u = t
      BY <1>2, <3>1
    <3>2. CASE v = t
      BY <1>2, <3>2
    <3>3. CASE u # t /\ v # t
      BY <1>2, <3>3 DEF PoolInv, SocketExclusive
    <3> QED
      BY <3>1, <3>2, <3>3
  <2> QED
    BY <2>1, <2>2 DEF SocketExclusive
<1> QED
  BY <1>3, <1>4, <1>5, <1>6 DEF PoolInv

\* What t has after such a step.
LEMMA HeldAfter ==
  ASSUME PoolInv, NEW t \in Threads, NEW c \in Call, Go(t, c),
         UNCHANGED tidToSock
  PROVE  Held(t)' = ({c.sock, tidToSock[t]} \union c.old) \intersect Sockets
<1> DEFINE r == tidToSock[t]
<1>1. r \in RequestState /\ SetRequestState(t, r)
  BY SameRequestState
<1>2. Held(t)' = ({c.sock, r} \union c.old) \intersect Sockets
  <2> HIDE DEF r
  <2> QED
    BY <1>1, ThreadMoves
<1> QED
  BY <1>2

\* What SocketExclusive and Opened say of one thread.
LEMMA Apart ==
  ASSUME PoolInv, NEW t \in Threads
  PROVE  /\ Held(t) \intersect pool.sockets = {}
         /\ \A u \in Threads \ {t} : Held(t) \intersect Held(u) = {}
         /\ \A s \in Held(t) \union pool.sockets :
              s \in Sockets /\ sockInfo[s].state # "unopened"
  BY DEF PoolInv, PoolTypeOK, Opened, SocketExclusive, Held

LEMMA GetStep ==
  ASSUME PoolInv, NEW t \in Threads, GetSocket(t)
  PROVE  PoolInv'
<1>1. UNCHANGED <<sockInfo, tidToSock, ospid, resets>>
  BY DEF GetSocket
<1>2. CASE /\ tidToSock[t] \in Sockets /\ UNCHANGED pool
           /\ Go(t, At("check", tidToSock[t], "check"))
  <2> DEFINE s == tidToSock[t]
  <2>1. s \in Sockets /\ s \in Held(t)
    BY <1>2 DEF Held
  <2>2. Go(t, At("check", s, "check")) /\ UNCHANGED <<pool, sockInfo, tidToSock, ospid, resets>>
    BY <1>1, <1>2
  <2> HIDE DEF s
  <2> QED
    BY <2>1, <2>2, KeepSteps
<1>3. CASE /\ tidToSock[t] \notin Sockets
           /\ \E s \in pool.sockets :
                /\ pool' = [pool EXCEPT !.sockets = @ \ {s}]
                /\ Go(t, At("check", s, "check"))
  <2>1. PICK s \in pool.sockets :
          /\ pool' = [pool EXCEPT !.sockets = @ \ {s}]
          /\ Go(t, At("check", s, "check"))
    BY <1>3
  <2>2. /\ pool \in Pools /\ s \in Sockets
        /\ sockInfo \in [Sockets -> SocketInfo]
    BY OfThread DEF Pools
  <2> DEFINE c == At("check", s, "check")
  <2>3. c \in Call /\ c.pc = "check" /\ c.sock = s /\ c.old = {}
    BY <2>2, AtType
  <2>4. Go(t, c) /\ Fits(c, tidToSock[t])
    BY <2>1, <2>2, <2>3 DEF Fits, InReset
  <2> HIDE DEF c
  <2>5. Held(t)' = {s}
    BY <1>1, <1>3, <2>2, <2>3, <2>4, HeldAfter
  <2>6. pool' \in Pools /\ pool'.sockets = pool.sockets \ {s}
    BY <2>1, <2>2 DEF Pools
  <2>7. \A u \in Threads : s \notin Held(u)
    BY Apart
  <2>8. \A x \in pool'.sockets \union Held(t)' :
          sockInfo'[x].state # "unopened"
    BY <1>1, <2>5, <2>6, Apart
  <2> QED
    BY <1>1, <2>2, <2>3, <2>4, <2>5, <2>6, <2>7, <2>8, MovesInv
<1>4. CASE Go(t, At("connect", NoSocket, "pop")) /\ UNCHANGED pool
  <2> DEFINE c == At("connect", NoSocket, "pop")
  <2>1. /\ c \in Call /\ Fits(c, tidToSock[t])
        /\ ({c.sock} \union c.old) \intersect Sockets = {}
    BY EmptyHanded
  <2>2. pool \in Pools /\ resets \in Resets /\ Go(t, c)
    BY <1>4, OfThread
  <2> HIDE DEF c
  <2> QED
    BY <1>1, <1>4, <2>1, <2>2, GoesOn
<1> QED
  BY <1>2, <1>3, <1>4 DEF GetSocket

LEMMA GiveStep ==
  ASSUME PoolInv, NEW t \in Threads, GiveBack(t)
  PROVE  PoolInv'
<1> DEFINE s == call[t].sock
<1>1. /\ s \in Sockets /\ s \in Held(t) /\ s # tidToSock[t]
      /\ pool \in Pools /\ sockInfo \in [Sockets -> SocketInfo]
  BY OfThread DEF GiveBack, Fits, Held
<1>2. Go(t, Rest) /\ UNCHANGED <<tidToSock, ospid, resets>>
  BY DEF GiveBack
<1>3. CASE pool' = [pool EXCEPT !.sockets = @ \union {s}] /\ UNCHANGED sockInfo
  <2> HIDE DEF s
  <2>1. /\ Rest \in Call /\ Fits(Rest, tidToSock[t])
        /\ Rest.sock = NoSocket /\ Rest.old = {}
    BY EmptyHanded DEF Rest
  <2>2. Held(t)' = {tidToSock[t]} \intersect Sockets
    BY <1>2, <2>1, HeldAfter, DriverAssumption
  <2>3. Held(t)' \subseteq Held(t) /\ s \notin Held(t)'
    BY <1>1, <2>2 DEF Held
  <2>4. pool' \in Pools /\ pool'.sockets = pool.sockets \union {s}
    BY <1>1, <1>3 DEF Pools
  <2>5. \A u \in Threads \ {t} : s \notin Held(u)
    BY <1>1, Apart
  <2>6. \A x \in pool'.sockets \union Held(t)' :
          sockInfo'[x].state # "unopened"
    BY <1>1, <1>3, <2>3, <2>4, Apart
  <2>7. /\ Held(t)' \intersect pool'.sockets = {}
        /\ \A u \in Threads \ {t} : Held(t)' \intersect Held(u) = {}
    BY <2>3, <2>4, Apart
  <2>8. /\ sockInfo' \in [Sockets -> SocketInfo]
        /\ \A x \in Sockets : sockInfo[x].state # "unopened" =>
                                 sockInfo'[x].state # "unopened"
    BY <1>1, <1>3
  <2>9. \A x \in pool'.sockets \ pool.sockets :
          \A u \in Threads \ {t} : x \notin Held(u)
    BY <2>4, <2>5
  <2> QED
    BY <1>2, <2>1, <2>4, <2>6, <2>7, <2>8, <2>9, MovesInv
<1>4. CASE UNCHANGED pool /\ sockInfo' = Closing({s})
  <2> HIDE DEF s
  <2> QED
    BY <1>2, <1>4, RestStep
<1> QED
  BY <1>3, <1>4 DEF GiveBack

\* A socket that was never opened is with nobody.
LEMMA ConnectStep ==
  ASSUME PoolInv, NEW t \in Threads, Connect(t)
  PROVE  PoolInv'
<1> DEFINE info == [state |-> "open", pool_id |-> 0, from |-> resets.begun,
                    raced |-> resets.begun # resets.ended, pid |-> ospid]
<1>1. PICK s \in Sockets :
        /\ sockInfo[s].state = "unopened"
        /\ sockInfo' = [sockInfo EXCEPT ![s] = info]
        /\ Go(t, At("stamp", s, "idle"))
  BY DEF Connect
<1>2. UNCHANGED <<pool, tidToSock, ospid, resets>> /\ pool \in Pools
  BY OfThread DEF Connect
<1>3. info \in SocketInfo /\ info.state = "open"
  BY OfThread DEF SocketInfo, Resets
<1> HIDE DEF info
<1>4. /\ sockInfo' \in [Sockets -> SocketInfo]
      /\ sockInfo'[s].state = "open"
      /\ \A x \in Sockets \ {s} : sockInfo'[x] = sockInfo[x]
  BY <1>1, <1>3, OfThread
<1> DEFINE c == At("stamp", s, "idle")
<1>5. c \in Call /\ c.pc = "stamp" /\ c.sock = s /\ c.old = {}
  BY AtType
<1>6. Go(t, c) /\ Fits(c, tidToSock[t])
  BY <1>1, <1>5 DEF Fits, InReset
<1> HIDE DEF c
<1>7. Held(t)' = {s} \union ({tidToSock[t]} \intersect Sockets)
  BY <1>2, <1>5, <1>6, HeldAfter
<1>8. {tidToSock[t]} \intersect Sockets \subseteq Held(t)
  BY DEF Held
<1>9. s \notin pool.sockets /\ \A u \in Threads : s \notin Held(u)
  BY <1>1, Apart DEF PoolInv, Opened
<1>10. \A x \in pool.sockets \union Held(t)' : sockInfo'[x].state # "unopened"
  BY <1>4, <1>7, <1>8, Apart
<1>11. /\ Held(t)' \intersect pool.sockets = {}
       /\ \A u \in Threads \ {t} : Held(t)' \intersect Held(u) = {}
  BY <1>7, <1>8, <1>9, Apart
<1>12. \A x \in Sockets : sockInfo[x].state # "unopened" =>
                             sockInfo'[x].state # "unopened"
  BY <1>4
<1> QED
  BY <1>2, <1>4, <1>5, <1>6, <1>10, <1>11, <1>12, MovesInv

\* The idle sockets pass to the thread that resets.
LEMMA SwapStep ==
  ASSUME PoolInv, NEW t \in Threads, ResetSwap(t)
  PROVE  PoolInv'
<1> DEFINE c == [call[t] EXCEPT !.pc = "close", !.old = pool.sockets]
<1>1. /\ call[t] \in Call /\ Fits(call[t], tidToSock[t]) /\ pool \in Pools
      /\ sockInfo \in [Sockets -> SocketInfo]
  BY OfThread
<1>2. /\ c \in Call /\ c.sock = call[t].sock /\ c.old = pool.sockets
      /\ c.pc = "close" /\ c.ret = call[t].ret
  BY <1>1 DEF Call, InReset, Pools
<1>3. Fits(c, tidToSock[t])
  BY <1>1, <1>2 DEF ResetSwap, Fits, InReset
<1>4. Go(t, c) /\ UNCHANGED <<sockInfo, tidToSock, ospid, resets>>
  BY DEF ResetSwap
<1>5. pool' \in Pools /\ pool'.sockets = {}
  BY <1>1 DEF ResetSwap, Pools
<1> HIDE DEF c
<1>6. Held(t)' \subseteq Held(t) \union pool.sockets
  BY <1>2, <1>4, HeldAfter DEF Held
<1>7. \A u \in Threads \ {t} : Held(t)' \intersect Held(u) = {}
  BY <1>6, Apart
<1>8. \A x \in Held(t)' : sockInfo'[x].state # "unopened"
  BY <1>4, <1>6, Apart
<1> QED
  BY <1>1, <1>2, <1>3, <1>4, <1>5, <1>7, <1>8, MovesInv

----------------------------------------------------------------------------
(* Fork, and the whole pool. *)

\* The child's only thread has what it had.
LEMMA ForkStep ==
  ASSUME PoolInv, NEW t \in Threads, Fork(t)
  PROVE  PoolInv'
<1>1. /\ call \in [Threads -> Call]
      /\ tidToSock \in [Threads -> RequestState]
      /\ resets \in Resets /\ ospid \in Nat /\ pool \in Pools
  BY OfThread DEF PoolInv, PoolTypeOK, RequestState
<1>2. /\ call' \in [Threads -> Call] /\ call'[t] = call[t]
      /\ \A u \in Threads \ {t} : call'[u] = Rest
  BY <1>1, RestType DEF Fork
<1>3. /\ tidToSock' \in [Threads -> RequestState]
      /\ tidToSock'[t] = tidToSock[t]
      /\ \A u \in Threads \ {t} : tidToSock'[u] = NO_REQUEST
  BY <1>1 DEF Fork, RequestState
<1>4. /\ sockInfo' \in [Sockets -> SocketInfo]
      /\ \A s \in Sockets : sockInfo[s].state # "unopened" =>
                               sockInfo'[s].state # "unopened"
  BY ClosingType DEF Fork, PoolInv
<1>5. UNCHANGED pool /\ resets' \in Resets /\ ospid' \in Nat
  BY <1>1 DEF Fork, Resets
<1>6. PoolTypeOK'
  BY <1>1, <1>2, <1>3, <1>4, <1>5 DEF PoolTypeOK, Pools, Resets, RequestState
<1>7. ASSUME NEW u \in Threads
      PROVE  CallOK(u)' /\ Held(u)' \subseteq Held(u)
  <2>1. CASE u = t
    <3>1. Held(u)' = Held(u)
      BY <1>2, <1>3, <2>1 DEF Held
    <3>2. CallOK(u)'
      BY <1>2, <1>3, <2>1 DEF CallOK, PoolInv
    <3> QED
      BY <3>1, <3>2
  <2>2. CASE u # t
    <3>1. Fits(Rest, NO_REQUEST)
      BY DriverAssumption DEF Fits, Rest, InReset
    <3>2. call'[u] = Rest /\ tidToSock'[u] = NO_REQUEST
      BY <1>2, <1>3, <2>2
    <3>3. Held(u)' = {}
      BY <3>2, DriverAssumption DEF Held, Rest
    <3> QED
      BY <3>1, <3>2, <3>3 DEF CallOK
  <2> QED
    BY <2>1, <2>2
<1>8. Opened' /\ SocketExclusive'
  BY <1>4, <1>5, <1>7, NobodyGains
<1> QED
  BY <1>6, <1>7, <1>8 DEF PoolInv

LEMMA PoolInitInv ==
  ASSUME PoolInit
  PROVE  PoolInv
<1>1. NoInfo("unopened") \in SocketInfo
  BY DEF NoInfo, SocketInfo
<1>2. PoolTypeOK
  BY <1>1, RestType DEF PoolInit, PoolTypeOK
<1>3. \A t \in Threads : Held(t) = {} /\ CallOK(t)
  BY DriverAssumption DEF PoolInit, Held, CallOK, Fits, Rest, InReset
<1>4. pool.sockets = {}
  BY DEF PoolInit
<1> QED
  BY <1>2, <1>3, <1>4 DEF PoolInv, Opened, SocketExclusive

LEMMA PoolNextInv ==
  ASSUME PoolInv, [PoolNext]_poolVars
  PROVE  PoolInv'
<1>1. ASSUME NEW t \in Threads, ThreadStep(t)
      PROVE  PoolInv'
  <2>1. CASE StartRequest(t) \/ LeaveRequest(t)
    BY <2>1, RequestSteps
  <2>2. CASE GiveBack(t)
    BY <2>2, GiveStep
  <2>3. CASE \/ GetAfterFork(t) \/ CheckFails(t) \/ ConnectFails(t)
             \/ Disconnect(t)
    BY <2>3, DropSteps
  <2>4. CASE GetSocket(t)
    BY <2>4, GetStep
  <2>5. CASE CheckPasses(t) \/ Stamp(t)
    BY <2>5, HandSteps
  <2>6. CASE Connect(t)
    BY <2>6, ConnectStep
  <2>7. CASE MaybeReturnSocket(t)
    BY <2>7, ReturnStep
  <2>8. CASE DiscardSocket(t)
    BY <2>8, DiscardStep
  <2>9. CASE ResetRead(t) \/ ResetId(t) \/ ResetPid(t) \/ ResetClose(t)
    BY <2>9, ResetSteps
  <2>10. CASE ResetSwap(t)
    BY <2>10, SwapStep
  <2> QED
    BY <1>1, <2>1, <2>2, <2>3, <2>4, <2>5, <2>6, <2>7, <2>8, <2>9, <2>10
       DEF ThreadStep
<1>2. ASSUME NEW t \in Threads, Fork(t)
      PROVE  PoolInv'
  BY <1>2, ForkStep
<1>3. CASE UNCHANGED poolVars
  BY <1>3 DEF poolVars, PoolInv, PoolTypeOK, CallOK, Opened, SocketExclusive,
              Held
<1> QED
  BY <1>1, <1>2, <1>3 DEF PoolNext

----------------------------------------------------------------------------

\* The inductive invariant of the pool.
THEOREM PoolInvariant == PoolSpec => []PoolInv
<1>1. PoolInit => PoolInv
  BY PoolInitInv
<1>2. PoolInv /\ [PoolNext]_poolVars => PoolInv'
  BY PoolNextInv
<1> QED
  BY <1>1, <1>2, PTL DEF PoolSpec

\* The pool's fields, the request states and the SocketInfo of pool.py keep
\* their types: no thread goes on with a socket that is none.
THEOREM PoolTypeCorrect == PoolSpec => []PoolTypeOK
<1>1. PoolInv => PoolTypeOK
  BY DEF PoolInv
<1> QED
  BY <1>1, PoolInvariant, PTL

\* No socket of the pool is ever with two threads, nor with a thread and idle,
\* whatever requests end, threads die, resets run and processes fork: a thread
\* reads only the replies to its own messages.
THEOREM SocketExclusiveCorrect == PoolSpec => []SocketExclusive
<1>1. PoolInv => SocketExclusive
  BY DEF PoolInv
<1> QED
  BY <1>1, PoolInvariant, PTL


----------------------------------------------------------------------------
(* Resets are noticed. *)

\* The threads between the beginning and the end of a reset.
UnderWay == {"setId", "setPid", "swap", "close"}
Resetting == {t \in Threads : call[t].pc \in UnderWay}

\* Where a thread may be in a child whose pool still has the parent's pid.
Unforked == {"idle", "using", "give", "bump", "setId", "setPid"}

\* What is so of a socket while it is open and its connect overlapped no reset.
\* A lost update may set the pool_id back, but not to that of such a socket:
\* the resets under way have read it, or a later one, and write a greater one.
Current(s) ==
  /\ sockInfo[s].from <= resets.ended
  /\ sockInfo[s].pool_id <= pool.pool_id
  /\ \A t \in Threads :
       call[t].pc = "setId" => sockInfo[s].pool_id <= call[t].id
  /\ sockInfo[s].pool_id = pool.pool_id =>
       /\ sockInfo[s].from = resets.ended
       /\ \A t \in Threads : call[t].pc \notin UnderWay \ {"setId"}
       /\ sockInfo[s].pid # ospid => pool.pid # ospid

ResetInv ==
  /\ IsFiniteSet(Resetting)
  /\ resets.begun = resets.ended + Cardinality(Resetting)
  /\ pool.pid <= ospid
  /\ pool.pid # ospid => \A t \in Threads : call[t].pc \in Unforked
  /\ \A t \in Threads :
       call[t].pc = "stamp" /\ sockInfo[call[t].sock].state = "open" =>
         sockInfo[call[t].sock].pid = ospid
  /\ \A s \in Sockets :
       sockInfo[s].state = "open" /\ ~sockInfo[s].raced => Current(s)

\* The fields of sockets and calls have the types that arithmetic needs.
LEMMA Numbers ==
  ASSUME PoolInv
  PROVE  /\ pool.pool_id \in Nat /\ pool.pid \in Nat /\ ospid \in Nat
         /\ resets.begun \in Nat /\ resets.ended \in Nat
         /\ \A s \in Sockets : /\ sockInfo[s].pool_id \in Nat
                               /\ sockInfo[s].from \in Nat
                               /\ sockInfo[s].raced \in BOOLEAN
         /\ \A t \in Threads : call[t].id \in Nat
BY DEF PoolInv, PoolTypeOK, SocketInfo, Call

LEMMA OthersStay ==
  ASSUME PoolInv, NEW t \in Threads, NEW c \in Call, Go(t, c)
  PROVE  call'[t] = c /\ \A u \in Threads \ {t} : call'[u] = call[u]
BY DEF Go, PoolInv, PoolTypeOK

\* Without a reset under way the two counts are equal.
LEMMA NoReset ==
  ASSUME PoolInv, ResetInv, resets.begun = resets.ended
  PROVE  \A t \in Threads : call[t].pc \notin UnderWay
<1>1. Cardinality(Resetting) \in Nat
  BY FS_CardinalityType DEF ResetInv
<1>2. Cardinality(Resetting) = 0
  BY <1>1, Numbers DEF ResetInv
<1>3. Resetting = {}
  BY <1>2, FS_EmptySet DEF ResetInv
<1> QED
  BY <1>3 DEF Resetting

\* What Closing leaves open is as it was.
LEMMA ClosingKeeps ==
  ASSUME PoolInv, NEW ss, NEW s \in Sockets, Closing(ss)[s].state = "open"
  PROVE  Closing(ss)[s] = sockInfo[s]
BY DEF Closing, NoInfo

\* A step that begins no reset, ends none and opens no socket.
LEMMA QuietStep ==
  ASSUME PoolInv, ResetInv, NEW t \in Threads, NEW c \in Call, Go(t, c),
         call[t].pc \notin UnderWay, c.pc \notin UnderWay \union {"stamp"},
         pool.pid # ospid => c.pc \in Unforked,
         pool'.pool_id = pool.pool_id, pool'.pid = pool.pid,
         UNCHANGED <<ospid, resets>>,
         \A s \in Sockets : sockInfo'[s].state = "open" =>
                              sockInfo'[s] = sockInfo[s],
         PoolInv'
  PROVE  ResetInv'
<1>1. call'[t] = c /\ \A u \in Threads \ {t} : call'[u] = call[u]
  BY OthersStay
<1>2. Resetting' = Resetting
  BY <1>1 DEF Resetting
<1>3. ASSUME NEW s \in Sockets, sockInfo'[s].state = "open", ~sockInfo'[s].raced
      PROVE  Current(s)'
  <2>1. sockInfo'[s] = sockInfo[s] /\ Current(s)
    BY <1>3 DEF ResetInv
  <2>2. ASSUME NEW u \in Threads
        PROVE  /\ call'[u].pc = "setId" => sockInfo[s].pool_id <= call'[u].id
               /\ call'[u].pc \in UnderWay \ {"setId"} =>
                    call[u].pc \in UnderWay \ {"setId"}
    <3>1. CASE u = t
      BY <1>1, <3>1 DEF UnderWay
    <3>2. CASE u # t
      BY <1>1, <2>1, <3>2 DEF Current
    <3> QED
      BY <3>1, <3>2
  <2> QED
    BY <2>1, <2>2 DEF Current
<1>4. ASSUME NEW u \in Threads, call'[u].pc = "stamp",
             sockInfo'[call'[u].sock].state = "open"
      PROVE  sockInfo'[call'[u].sock].pid = ospid
  <2>1. u # t /\ call'[u] = call[u]
    BY <1>1, <1>4
  <2>2. call[u].sock \in Sockets
    BY <1>4, <2>1 DEF PoolInv, CallOK, Fits
  <2> QED
    BY <1>4, <2>1, <2>2 DEF ResetInv
<1>5. pool.pid # ospid => \A u \in Threads : call'[u].pc \in Unforked
  BY <1>1 DEF ResetInv
<1> QED
  BY <1>2, <1>3, <1>4, <1>5 DEF ResetInv


\* A thread in a child of the process that has not reset the pool yet is where
\* Unforked says.
LEMMA AfterFork ==
  ASSUME ResetInv, NEW t \in Threads, call[t].pc \notin Unforked
  PROVE  pool.pid = ospid
BY DEF ResetInv

LEMMA QuietSteps ==
  ASSUME PoolInv, ResetInv, PoolInv', NEW t \in Threads,
         \/ StartRequest(t) \/ LeaveRequest(t) \/ GiveBack(t)
         \/ GetAfterFork(t) \/ GetSocket(t) \/ CheckPasses(t) \/ CheckFails(t)
         \/ ConnectFails(t) \/ MaybeReturnSocket(t) \/ DiscardSocket(t)
         \/ Disconnect(t)
  PROVE  ResetInv'
<1>1. /\ call[t].pc \notin UnderWay /\ UNCHANGED <<ospid, resets>>
      /\ pool'.pool_id = pool.pool_id /\ pool'.pid = pool.pid
  BY DEF StartRequest, LeaveRequest, GiveBack, GetAfterFork, GetSocket,
         CheckPasses, CheckFails, ConnectFails, MaybeReturnSocket,
         DiscardSocket, Disconnect, Hand, UnderWay, PoolInv, PoolTypeOK
<1>2. sockInfo' = sockInfo \/ \E ss : sockInfo' = Closing(ss)
  BY DEF StartRequest, LeaveRequest, GiveBack, GetAfterFork, GetSocket,
         CheckPasses, CheckFails, ConnectFails, MaybeReturnSocket,
         DiscardSocket, Disconnect, Hand
<1>3. \A s \in Sockets : sockInfo'[s].state = "open" =>
                           sockInfo'[s] = sockInfo[s]
  BY <1>2, ClosingKeeps
<1> DEFINE Fine(c) == /\ Go(t, c) /\ c.pc \notin UnderWay \union {"stamp"}
                      /\ pool.pid # ospid => c.pc \in Unforked
<1>4. ASSUME Go(t, Rest)
      PROVE  \E c \in Call : Fine(c)
  BY <1>4, RestType DEF Rest, UnderWay, Unforked
<1>5. ASSUME UNCHANGED call, call[t].pc = "idle"
      PROVE  \E c \in Call : Fine(c)
  <2>1. call[t] \in Call /\ Go(t, call[t])
    BY <1>5, OfThread DEF Go, PoolInv, PoolTypeOK
  <2> QED
    BY <1>5, <2>1 DEF UnderWay, Unforked
<1>6. ASSUME NEW pc \in {"check", "connect", "using", "give", "bump"},
             NEW s \in Sockets \union {NoSocket},
             NEW ret \in {"idle", "lookup", "pop", "check"},
             Go(t, At(pc, s, ret)), pc \notin Unforked => pool.pid = ospid
      PROVE  \E c \in Call : Fine(c)
  <2>1. At(pc, s, ret) \in Call /\ At(pc, s, ret).pc = pc
    BY AtType DEF InReset
  <2> QED
    BY <1>6, <2>1 DEF UnderWay
<1>7. \E c \in Call : Fine(c)
  <2> HIDE DEF Fine
  <2>1. /\ tidToSock[t] \in RequestState /\ pool.sockets \subseteq Sockets
        /\ call[t].pc \in {"check", "using", "give"} => call[t].sock \in Sockets
    BY OfThread DEF PoolInv, PoolTypeOK, Fits
  <2>2. CASE StartRequest(t)
    BY <1>5, <2>2 DEF StartRequest
  <2>3. CASE LeaveRequest(t)
    <3>1. CASE tidToSock[t] \in Sockets
      BY <1>6, <2>3, <3>1 DEF LeaveRequest, Unforked
    <3>2. CASE tidToSock[t] \notin Sockets
      BY <1>5, <2>3, <3>2 DEF LeaveRequest
    <3> QED
      BY <3>1, <3>2
  <2>4. CASE GiveBack(t) \/ DiscardSocket(t)
    BY <1>4, <2>4 DEF GiveBack, DiscardSocket
  <2>5. CASE GetAfterFork(t) \/ Disconnect(t)
    BY <1>6, <2>5 DEF GetAfterFork, Disconnect, Unforked
  <2>6. CASE GetSocket(t)
    <3>1. pool.pid = ospid
      BY <2>6, AfterFork DEF GetSocket, Unforked
    <3>2. \/ /\ tidToSock[t] \in Sockets
             /\ Go(t, At("check", tidToSock[t], "check"))
          \/ \E s \in Sockets : Go(t, At("check", s, "check"))
          \/ Go(t, At("connect", NoSocket, "pop"))
      BY <2>1, <2>6 DEF GetSocket
    <3> QED
      BY <1>6, <3>1, <3>2
  <2>7. CASE CheckPasses(t)
    BY <1>6, <2>1, <2>7 DEF CheckPasses, Hand, Unforked
  <2>8. CASE CheckFails(t)
    <3>1. pool.pid = ospid
      BY <2>8, AfterFork DEF CheckFails, Unforked
    <3> QED
      BY <1>6, <2>8, <3>1 DEF CheckFails
  <2>9. CASE ConnectFails(t)
    BY <1>4, <1>6, <2>9 DEF ConnectFails, Unforked
  <2>10. CASE MaybeReturnSocket(t)
    <3>1. \/ Go(t, At("bump", NoSocket, "idle")) \/ Go(t, Rest)
          \/ Go(t, At("give", call[t].sock, "idle")) /\ call[t].sock \in Sockets
      BY <2>1, <2>10 DEF MaybeReturnSocket
    <3> QED
      BY <1>4, <1>6, <3>1 DEF Unforked
  <2> QED
    BY <2>2, <2>3, <2>4, <2>5, <2>6, <2>7, <2>8, <2>9, <2>10
<1> QED
  BY <1>1, <1>3, <1>7, QuietStep


\* A socket that is connected while no reset is under way is current.
LEMMA ConnectCurrent ==
  ASSUME PoolInv, ResetInv, PoolInv', NEW t \in Threads, Connect(t)
  PROVE  ResetInv'
<1> DEFINE info == [state |-> "open", pool_id |-> 0, from |-> resets.begun,
                    raced |-> resets.begun # resets.ended, pid |-> ospid]
           c(s) == At("stamp", s, "idle")
<1>1. PICK s \in Sockets :
        /\ sockInfo' = [sockInfo EXCEPT ![s] = info] /\ Go(t, c(s))
  BY DEF Connect
<1>2. /\ call[t].pc = "connect" /\ UNCHANGED <<pool, ospid, resets>>
      /\ pool.pid = ospid
  BY AfterFork DEF Connect, Unforked
<1>3. c(s) \in Call /\ c(s).pc = "stamp" /\ c(s).sock = s
  BY AtType
<1>4. /\ info.pool_id = 0 /\ info.from = resets.begun /\ info.pid = ospid
      /\ info.raced = (resets.begun # resets.ended)
  OBVIOUS
<1>5. /\ sockInfo'[s] = info
      /\ \A x \in Sockets \ {s} : sockInfo'[x] = sockInfo[x]
  BY <1>1, OfThread
<1> HIDE DEF info, c
<1>6. call'[t] = c(s) /\ \A u \in Threads \ {t} : call'[u] = call[u]
  BY <1>1, <1>3, OthersStay
<1>7. Resetting' = Resetting
  BY <1>2, <1>3, <1>6 DEF Resetting, UnderWay
<1>8. \A u \in Threads : call'[u].pc \in UnderWay => call'[u] = call[u]
  BY <1>3, <1>6 DEF UnderWay
<1>9. ASSUME NEW x \in Sockets, sockInfo'[x].state = "open", ~sockInfo'[x].raced
      PROVE  Current(x)'
  <2>1. CASE x = s
    <3>1. resets.begun = resets.ended
      BY <1>4, <1>5, <1>9, <2>1
    <3>2. \A u \in Threads : call'[u].pc \notin UnderWay
      BY <1>8, <3>1, NoReset
    <3>3. pool.pool_id \in Nat /\ resets.ended \in Nat
      BY Numbers
    <3> QED
      BY <1>2, <1>4, <1>5, <2>1, <3>1, <3>2, <3>3 DEF Current, UnderWay
  <2>2. CASE x # s
    <3>1. sockInfo'[x] = sockInfo[x] /\ Current(x)
      BY <1>5, <1>9, <2>2 DEF ResetInv
    <3> QED
      BY <1>2, <1>8, <3>1 DEF Current, UnderWay
  <2> QED
    BY <2>1, <2>2
<1>10. ASSUME NEW u \in Threads, call'[u].pc = "stamp",
              sockInfo'[call'[u].sock].state = "open"
       PROVE  sockInfo'[call'[u].sock].pid = ospid
  <2>1. call'[u].sock \in Sockets
    BY <1>10 DEF PoolInv, CallOK, Fits
  <2>2. CASE call'[u].sock = s
    BY <1>4, <1>5, <2>2
  <2>3. CASE call'[u].sock # s
    <3>1. call'[u] = call[u]
      BY <1>3, <1>6, <2>3
    <3> QED
      BY <1>5, <1>10, <2>1, <2>3, <3>1 DEF ResetInv
  <2> QED
    BY <2>2, <2>3
<1> QED
  BY <1>2, <1>7, <1>9, <1>10 DEF ResetInv

\* A socket that gets its pool_id without a reset since its connect began is
\* current.
LEMMA StampCurrent ==
  ASSUME PoolInv, ResetInv, PoolInv', NEW t \in Threads, Stamp(t)
  PROVE  ResetInv'
<1> DEFINE s == call[t].sock
           c == At("using", s, "idle")
<1>1. /\ call[t].pc = "stamp" /\ UNCHANGED <<pool, ospid, resets>>
      /\ Go(t, c) /\ pool.pid = ospid
  BY AfterFork DEF Stamp, Hand, Unforked
<1>2. s \in Sockets /\ sockInfo \in [Sockets -> SocketInfo] /\ pool \in Pools
  BY <1>1, OfThread DEF Fits
<1>3. c \in Call /\ c.pc = "using"
  <2> HIDE DEF s
  <2>1. s \in Sockets \union {NoSocket}
    BY <1>2
  <2> QED
    BY <2>1, AtType
<1>4. sockInfo' = [sockInfo EXCEPT
                     ![s].pool_id = pool.pool_id,
                     ![s].raced = @ \/ resets.begun # sockInfo[s].from]
  BY DEF Stamp
<1> HIDE DEF s, c
<1>5. /\ \A x \in Sockets \ {s} : sockInfo'[x] = sockInfo[x]
      /\ sockInfo'[s].pool_id = pool.pool_id
      /\ sockInfo'[s].from = sockInfo[s].from
      /\ sockInfo'[s].pid = sockInfo[s].pid
      /\ sockInfo'[s].state = sockInfo[s].state
      /\ ~sockInfo'[s].raced =>
           ~sockInfo[s].raced /\ resets.begun = sockInfo[s].from
  BY <1>2, <1>4 DEF SocketInfo
<1>6. call'[t] = c /\ \A u \in Threads \ {t} : call'[u] = call[u]
  BY <1>1, <1>3, OthersStay
<1>7. Resetting' = Resetting
  BY <1>1, <1>3, <1>6 DEF Resetting, UnderWay
<1>8. \A u \in Threads : call'[u].pc \in UnderWay => call'[u] = call[u]
  BY <1>3, <1>6 DEF UnderWay
<1>9. ASSUME NEW x \in Sockets, sockInfo'[x].state = "open", ~sockInfo'[x].raced
      PROVE  Current(x)'
  <2>1. CASE x = s
    <3>1. /\ sockInfo[s].from = resets.begun /\ sockInfo[s].from <= resets.ended
          /\ sockInfo[s].pid = ospid
      BY <1>1, <1>2, <1>5, <1>9, <2>1 DEF ResetInv, Current, s
    <3>2. resets.begun = resets.ended
      <4>1. Cardinality(Resetting) \in Nat
        BY FS_CardinalityType DEF ResetInv
      <4> QED
        BY <3>1, <4>1, Numbers DEF ResetInv
    <3>3. \A u \in Threads : call'[u].pc \notin UnderWay
      BY <1>8, <3>2, NoReset
    <3>4. pool.pool_id \in Nat /\ resets.ended \in Nat
      BY Numbers
    <3> QED
      BY <1>1, <1>5, <2>1, <3>1, <3>2, <3>3, <3>4 DEF Current, UnderWay
  <2>2. CASE x # s
    <3>1. sockInfo'[x] = sockInfo[x] /\ Current(x)
      BY <1>5, <1>9, <2>2 DEF ResetInv
    <3> QED
      BY <1>1, <1>8, <3>1 DEF Current, UnderWay
  <2> QED
    BY <2>1, <2>2
<1>10. ASSUME NEW u \in Threads, call'[u].pc = "stamp",
              sockInfo'[call'[u].sock].state = "open"
       PROVE  sockInfo'[call'[u].sock].pid = ospid
  <2>1. call'[u].sock \in Sockets /\ call'[u] = call[u]
    BY <1>3, <1>6, <1>10 DEF PoolInv, CallOK, Fits
  <2>2. /\ sockInfo'[call[u].sock].pid = sockInfo[call[u].sock].pid
        /\ sockInfo'[call[u].sock].state = sockInfo[call[u].sock].state
    BY <1>5, <2>1
  <2> QED
    BY <1>10, <2>1, <2>2 DEF ResetInv
<1> QED
  BY <1>1, <1>7, <1>9, <1>10 DEF ResetInv


\* A reset that begins has read the pool_id of every current socket, or a
\* later one.
LEMMA BeginsReset ==
  ASSUME PoolInv, ResetInv, PoolInv', NEW t \in Threads, ResetRead(t)
  PROVE  ResetInv'
<1> DEFINE c == [call[t] EXCEPT !.pc = "setId", !.id = pool.pool_id]
<1>1. /\ call[t].pc = "bump" /\ Go(t, c)
      /\ UNCHANGED <<pool, sockInfo, tidToSock, ospid>>
      /\ resets \in Resets /\ resets' = [resets EXCEPT !.begun = @ + 1]
      /\ call[t] \in Call /\ pool.pool_id \in Nat
  BY OfThread, Numbers DEF ResetRead
<1>2. c \in Call /\ c.pc = "setId" /\ c.id = pool.pool_id
  BY <1>1 DEF Call, InReset
<1> HIDE DEF c
<1>3. resets'.begun = resets.begun + 1 /\ resets'.ended = resets.ended
  BY <1>1 DEF Resets
<1>4. call'[t] = c /\ \A u \in Threads \ {t} : call'[u] = call[u]
  BY <1>1, <1>2, OthersStay
<1>5. Resetting' = Resetting \union {t} /\ t \notin Resetting
  BY <1>1, <1>2, <1>4 DEF Resetting, UnderWay
<1>6. /\ IsFiniteSet(Resetting')
      /\ resets'.begun = resets'.ended + Cardinality(Resetting')
  <2>1. IsFiniteSet(Resetting) /\ Cardinality(Resetting) \in Nat
    BY FS_CardinalityType DEF ResetInv
  <2>2. /\ IsFiniteSet(Resetting \union {t})
        /\ Cardinality(Resetting \union {t}) = Cardinality(Resetting) + 1
    BY <1>5, <2>1, FS_AddElement
  <2> QED
    BY <1>3, <1>5, <2>1, <2>2, Numbers DEF ResetInv
<1>7. ASSUME NEW s \in Sockets, sockInfo'[s].state = "open", ~sockInfo'[s].raced
      PROVE  Current(s)'
  <2>1. sockInfo'[s] = sockInfo[s] /\ Current(s)
    BY <1>1, <1>7 DEF ResetInv
  <2>2. ASSUME NEW u \in Threads
        PROVE  /\ call'[u].pc = "setId" => sockInfo[s].pool_id <= call'[u].id
               /\ call'[u].pc \in UnderWay \ {"setId"} =>
                    call[u].pc \in UnderWay \ {"setId"}
    BY <1>2, <1>4, <2>1 DEF Current
  <2> QED
    BY <1>1, <1>3, <2>1, <2>2 DEF Current
<1> QED
  BY <1>1, <1>2, <1>4, <1>6, <1>7 DEF ResetInv, Unforked

\* A reset that sets the pool_id leaves no current socket with the same.
LEMMA SetsId ==
  ASSUME PoolInv, ResetInv, PoolInv', NEW t \in Threads, ResetId(t)
  PROVE  ResetInv'
<1> DEFINE c == [call[t] EXCEPT !.pc = "setPid", !.id = 0]
<1>1. /\ call[t].pc = "setId" /\ Go(t, c)
      /\ UNCHANGED <<sockInfo, tidToSock, ospid, resets>>
      /\ pool \in Pools /\ pool' = [pool EXCEPT !.pool_id = call[t].id + 1]
      /\ call[t] \in Call /\ call[t].id \in Nat
  BY OfThread, Numbers DEF ResetId
<1>2. c \in Call /\ c.pc = "setPid"
  BY <1>1 DEF Call, InReset
<1> HIDE DEF c
<1>3. pool'.pool_id = call[t].id + 1 /\ pool'.pid = pool.pid
  BY <1>1 DEF Pools
<1>4. call'[t] = c /\ \A u \in Threads \ {t} : call'[u] = call[u]
  BY <1>1, <1>2, OthersStay
<1>5. Resetting' = Resetting
  BY <1>1, <1>2, <1>4 DEF Resetting, UnderWay
<1>6. ASSUME NEW s \in Sockets, sockInfo'[s].state = "open", ~sockInfo'[s].raced
      PROVE  Current(s)'
  <2>1. sockInfo'[s] = sockInfo[s] /\ Current(s) /\ sockInfo[s].pool_id \in Nat
    BY <1>1, <1>6, Numbers DEF ResetInv
  <2>2. sockInfo[s].pool_id <= call[t].id
    BY <1>1, <2>1 DEF Current
  <2>3. sockInfo[s].pool_id < pool'.pool_id
    BY <1>1, <1>3, <2>1, <2>2
  <2>4. \A u \in Threads :
          call'[u].pc = "setId" => sockInfo[s].pool_id <= call'[u].id
    BY <1>2, <1>4, <2>1 DEF Current
  <2>5. sockInfo[s].pool_id <= pool'.pool_id /\ sockInfo[s].pool_id # pool'.pool_id
    BY <1>1, <1>3, <2>1, <2>3
  <2> QED
    BY <1>1, <2>1, <2>4, <2>5 DEF Current
<1> QED
  BY <1>1, <1>2, <1>3, <1>4, <1>5, <1>6 DEF ResetInv, Unforked

\* After that the reset goes on, with no current socket of this pool_id.
LEMMA GoesOnReset ==
  ASSUME PoolInv, ResetInv, PoolInv', NEW t \in Threads,
         ResetPid(t) \/ ResetSwap(t) \/ ResetClose(t)
  PROVE  ResetInv'
<1>1. /\ call[t].pc \in UnderWay \ {"setId"} /\ call[t] \in Call
      /\ UNCHANGED <<tidToSock, ospid>> /\ pool \in Pools /\ resets \in Resets
      /\ call[t].ret \in {"idle", "lookup"}
  BY OfThread DEF ResetPid, ResetSwap, ResetClose, UnderWay, Fits, InReset
<1>2. \A s \in Sockets :
        sockInfo[s].state = "open" /\ ~sockInfo[s].raced =>
          sockInfo[s].pool_id # pool.pool_id
  BY <1>1 DEF ResetInv, Current
<1>3. sockInfo' = sockInfo \/ \E ss : sockInfo' = Closing(ss)
  BY DEF ResetPid, ResetSwap, ResetClose
<1>4. \A s \in Sockets : sockInfo'[s].state = "open" =>
                           sockInfo'[s] = sockInfo[s]
  BY <1>3, ClosingKeeps
<1>5. /\ pool'.pool_id = pool.pool_id
      /\ pool'.pid = ospid
  <2>1. CASE ResetPid(t)
    BY <1>1, <2>1 DEF ResetPid, Pools
  <2>2. CASE ResetSwap(t) \/ ResetClose(t)
    <3>1. pool.pid = ospid
      BY <2>2, AfterFork DEF ResetSwap, ResetClose, Unforked
    <3> QED
      BY <1>1, <2>2, <3>1 DEF ResetSwap, ResetClose, Pools
  <2> QED
    BY <2>1, <2>2
<1>6. /\ call'[t].pc # "stamp" /\ call'[t].pc # "setId"
      /\ \A u \in Threads \ {t} : call'[u] = call[u]
      /\ IsFiniteSet(Resetting')
      /\ resets'.begun = resets'.ended + Cardinality(Resetting')
      /\ resets'.ended \in {resets.ended, resets.ended + 1}
  <2>1. CASE ResetPid(t) \/ ResetSwap(t)
    <3>1. PICK c \in Call : Go(t, c) /\ c.pc \in {"swap", "close"}
      <4>1. CASE ResetPid(t)
        <5> DEFINE c == [call[t] EXCEPT !.pc = "swap"]
        <5>1. c \in Call /\ c.pc = "swap"
          BY <1>1 DEF Call, InReset
        <5>2. Go(t, c)
          BY <4>1 DEF ResetPid
        <5> QED
          BY <5>1, <5>2
      <4>2. CASE ResetSwap(t)
        <5> DEFINE c == [call[t] EXCEPT !.pc = "close", !.old = pool.sockets]
        <5>1. c \in Call /\ c.pc = "close"
          BY <1>1 DEF Call, InReset, Pools
        <5>2. Go(t, c)
          BY <4>2 DEF ResetSwap
        <5> QED
          BY <5>1, <5>2
      <4> QED
        BY <2>1, <4>1, <4>2
    <3>2. call'[t] = c /\ \A u \in Threads \ {t} : call'[u] = call[u]
      BY <3>1, OthersStay
    <3>3. Resetting' = Resetting /\ UNCHANGED resets
      BY <1>1, <2>1, <3>1, <3>2
        DEF Resetting, UnderWay, ResetPid, ResetSwap
    <3> QED
      BY <3>1, <3>2, <3>3 DEF ResetInv
  <2>2. CASE ResetClose(t)
    <3> DEFINE c == At(call[t].ret, NoSocket, "idle")
    <3>1. c \in Call /\ c.pc = call[t].ret
      BY <1>1, AtType DEF InReset
    <3>2. Go(t, c) /\ resets' = [resets EXCEPT !.ended = @ + 1]
      BY <2>2 DEF ResetClose
    <3> HIDE DEF c
    <3>3. call'[t] = c /\ \A u \in Threads \ {t} : call'[u] = call[u]
      BY <3>1, <3>2, OthersStay
    <3>4. resets'.begun = resets.begun /\ resets'.ended = resets.ended + 1
      BY <1>1, <3>2 DEF Resets
    <3>5. Resetting' = Resetting \ {t} /\ t \in Resetting
      BY <1>1, <3>1, <3>3 DEF Resetting, UnderWay
    <3>6. IsFiniteSet(Resetting) /\ Cardinality(Resetting) \in Nat
      BY FS_CardinalityType DEF ResetInv
    <3>7. /\ IsFiniteSet(Resetting \ {t})
          /\ Cardinality(Resetting \ {t}) = Cardinality(Resetting) - 1
      BY <3>5, <3>6, FS_RemoveElement
    <3> QED
      BY <1>1, <3>1, <3>3, <3>4, <3>5, <3>6, <3>7, Numbers DEF ResetInv
  <2> QED
    BY <2>1, <2>2
<1>7. ASSUME NEW s \in Sockets, sockInfo'[s].state = "open", ~sockInfo'[s].raced
      PROVE  Current(s)'
  <2>1. /\ sockInfo'[s] = sockInfo[s] /\ Current(s)
        /\ sockInfo[s].pool_id # pool.pool_id
    BY <1>2, <1>4, <1>7 DEF ResetInv
  <2>2. sockInfo[s].from <= resets'.ended
    BY <1>6, <2>1, Numbers DEF Current
  <2>3. \A u \in Threads :
          call'[u].pc = "setId" => sockInfo[s].pool_id <= call'[u].id
    BY <1>6, <2>1 DEF Current
  <2> QED
    BY <1>5, <2>1, <2>2, <2>3 DEF Current
<1>8. ASSUME NEW u \in Threads, call'[u].pc = "stamp",
             sockInfo'[call'[u].sock].state = "open"
      PROVE  sockInfo'[call'[u].sock].pid = ospid
  <2>1. call'[u].sock \in Sockets /\ call'[u] = call[u]
    BY <1>6, <1>8 DEF PoolInv, CallOK, Fits
  <2> QED
    BY <1>4, <1>8, <2>1 DEF ResetInv
<1> QED
  BY <1>1, <1>5, <1>6, <1>7, <1>8, Numbers DEF ResetInv

\* In the child no reset is under way, and the pool has the pid of the parent.
LEMMA ForkCurrent ==
  ASSUME PoolInv, ResetInv, PoolInv', NEW t \in Threads, Fork(t)
  PROVE  ResetInv'
<1>1. /\ call \in [Threads -> Call] /\ resets \in Resets
      /\ UNCHANGED pool /\ ospid' = ospid + 1
      /\ resets' = [resets EXCEPT !.begun = resets.ended]
      /\ call[t].pc \in {"idle", "using"}
  BY OfThread DEF Fork, PoolInv, PoolTypeOK
<1>2. \A u \in Threads : call'[u].pc \in {"idle", "using"}
  BY <1>1 DEF Fork, Rest
<1>3. resets'.begun = resets.ended /\ resets'.ended = resets.ended
  BY <1>1 DEF Resets
<1>4. Resetting' = {}
  BY <1>2 DEF Resetting, UnderWay
<1>5. IsFiniteSet(Resetting') /\ Cardinality(Resetting') = 0
  BY <1>4, FS_EmptySet
<1>6. pool'.pid <= ospid' /\ pool'.pid # ospid'
  BY <1>1, Numbers DEF ResetInv
<1>7. ASSUME NEW s \in Sockets, sockInfo'[s].state = "open", ~sockInfo'[s].raced
      PROVE  Current(s)'
  <2>1. sockInfo'[s] = sockInfo[s] /\ Current(s)
    <3>1. sockInfo'[s] = sockInfo[s]
      BY <1>7, ClosingKeeps DEF Fork
    <3> QED
      BY <1>7, <3>1 DEF ResetInv
  <2> QED
    BY <1>1, <1>2, <1>3, <1>6, <2>1 DEF Current, UnderWay
<1> QED
  BY <1>2, <1>3, <1>5, <1>6, <1>7, Numbers DEF ResetInv, Unforked

LEMMA ResetInitInv ==
  ASSUME PoolInit
  PROVE  ResetInv
<1>1. Resetting = {}
  BY DEF PoolInit, Resetting, UnderWay, Rest
<1>2. IsFiniteSet(Resetting) /\ Cardinality(Resetting) = 0
  BY <1>1, FS_EmptySet
<1>3. \A s \in Sockets : sockInfo[s].state # "open"
  BY DEF PoolInit, NoInfo
<1>4. \A t \in Threads : call[t].pc = "idle"
  BY DEF PoolInit, Rest
<1> QED
  BY <1>2, <1>3, <1>4 DEF PoolInit, ResetInv

LEMMA ResetNextInv ==
  ASSUME PoolInv, ResetInv, [PoolNext]_poolVars
  PROVE  ResetInv'
<1>0. PoolInv'
  BY PoolNextInv
<1>1. ASSUME NEW t \in Threads, ThreadStep(t)
      PROVE  ResetInv'
  <2>1. CASE Connect(t)
    BY <1>0, <2>1, ConnectCurrent
  <2>2. CASE Stamp(t)
    BY <1>0, <2>2, StampCurrent
  <2>3. CASE ResetRead(t)
    BY <1>0, <2>3, BeginsReset
  <2>4. CASE ResetId(t)
    BY <1>0, <2>4, SetsId
  <2>5. CASE ResetPid(t) \/ ResetSwap(t) \/ ResetClose(t)
    BY <1>0, <2>5, GoesOnReset
  <2> QED
    BY <1>0, <1>1, <2>1, <2>2, <2>3, <2>4, <2>5, QuietSteps DEF ThreadStep
<1>2. ASSUME NEW t \in Threads, Fork(t)
      PROVE  ResetInv'
  BY <1>0, <1>2, ForkCurrent
<1>3. CASE UNCHANGED poolVars
  BY <1>3 DEF poolVars, ResetInv, Resetting, Current
<1> QED
  BY <1>1, <1>2, <1>3 DEF PoolNext

\* A socket whose connect overlapped no reset is not handed out by _check once
\* a reset has ended since, nor to a child, although pool_id += 1 may lose
\* updates: for any number of threads, sockets, resets and forks.
THEOREM StaleNoticedCorrect == PoolSpec => StaleNoticed
<1>1. PoolInit => PoolInv /\ ResetInv
  BY PoolInitInv, ResetInitInv
<1>2. PoolInv /\ ResetInv /\ [PoolNext]_poolVars => PoolInv' /\ ResetInv'
  BY PoolNextInv, ResetNextInv
<1>3. ASSUME PoolInv, ResetInv, NEW t \in Threads, CheckPasses(t),
             ~sockInfo[call[t].sock].raced
      PROVE  /\ resets.ended = sockInfo[call[t].sock].from
             /\ sockInfo[call[t].sock].pid = ospid
  <2> DEFINE s == call[t].sock
  <2>1. /\ call[t].pc = "check" /\ sockInfo[s].state # "closed"
        /\ sockInfo[s].pool_id = pool.pool_id
    BY <1>3 DEF CheckPasses
  <2>2. s \in Sockets /\ sockInfo[s] \in SocketInfo
    BY <1>3, <2>1, OfThread DEF Fits
  <2>3. sockInfo[s].state # "unopened"
    BY <1>3, <2>2 DEF PoolInv, Opened, Held
  <2>4. sockInfo[s].state = "open"
    BY <2>1, <2>2, <2>3 DEF SocketInfo
  <2>5. Current(s)
    BY <1>3, <2>2, <2>4 DEF ResetInv
  <2>6. pool.pid = ospid
    BY <1>3, <2>1, AfterFork DEF Unforked
  <2> QED
    BY <2>1, <2>5, <2>6 DEF Current
<1>4. PoolInv /\ ResetInv =>
        \A t \in Threads :
          LET s == sockInfo[call[t].sock]
          IN  CheckPasses(t) /\ ~s.raced
                => resets.ended = s.from /\ s.pid = ospid
  BY <1>3
<1> QED
  BY <1>1, <1>2, <1>4, PTL DEF PoolSpec, StaleNoticed

=============================================================================
