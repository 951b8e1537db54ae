---------------------------- MODULE Credentials ----------------------------
(***************************************************************************)
(* pymongo/connection.py and database.py: the credentials that the threads *)
(* of a Connection share, and the logins of its sockets.  authenticate and *)
(* logout work on one socket and change the cache of credentials; every    *)
(* other socket is brought in line by __check_auth when it is next used.   *)
(*                                                                         *)
(* A command is one step: nobody else uses the socket.  from and raced     *)
(* record, for the properties, which socket gave the nonce and whether the *)
(* cache or the pool has changed since.                                    *)
(***************************************************************************)
EXTENDS DriverTypes, Naturals, FiniteSets

CONSTANTS Databases,       \* the databases that have users
          Admin            \* the database "admin"

ASSUME AuthAssumption ==
  /\ Admin \in Databases
  /\ "none" \notin Sockets /\ "open" \notin Sockets

VARIABLES cached,          \* the keys of __auth_credentials
          login,           \* the sockets: authset, and what the server expects
          request,         \* the request of every thread
          auth,            \* what every thread is doing
          auto             \* auto_start_request

authVars == <<cached, login, request, auth, auto>>

\* nonce: the thread whose nonce the server expects.
Login == [authset : SUBSET Databases, nonce : SUBSET Threads,
          idle : BOOLEAN, stale : BOOLEAN]

NewSocket == [authset |-> {}, nonce |-> {}, idle |-> TRUE, stale |-> FALSE]

AuthTask ==
  [pc : {"idle", "take", "check", "command", "store"},
   op : {"none", "use", "authenticate", "logout", "copy"},
   db : Databases, stage : 1..2, sock : Sockets \union {NoSocket},
   names : SUBSET Databases, mine : BOOLEAN,
   from : Sockets \union {NoSocket}, raced : BOOLEAN]

AuthTypeOK ==
  /\ cached \subseteq Databases
  /\ login \in [Sockets -> Login]
  /\ request \in [Threads -> {"none", "open"} \union Sockets]
  /\ auth \in [Threads -> AuthTask]
  /\ auto \in BOOLEAN

Resting == [pc |-> "idle", op |-> "none", db |-> Admin, stage |-> 1,
            sock |-> NoSocket, names |-> {}, mine |-> FALSE,
            from |-> NoSocket, raced |-> FALSE]

AuthInit ==
  /\ cached = {}
  /\ login = [k \in Sockets |-> NewSocket]
  /\ request = [t \in Threads |-> "none"]
  /\ auth = [t \in Threads |-> Resting]
  /\ auto \in BOOLEAN

GoAuth(t, c) == auth' = [auth EXCEPT ![t] = c]

\* Anything the others do to the cache or to the pool.
Race(t, c) ==
  auth' = [u \in Threads |->
             IF u = t THEN c
             ELSE [auth[u] EXCEPT
                     !.raced = auth[u].op \in {"authenticate", "copy"}]]

----------------------------------------------------------------------------
(* __socket *)

\* Mutant: authenticate starts no request of its own.
BeginAuth_NoRequest(t, op, d) ==
  /\ auth[t].pc = "idle"
  /\ GoAuth(t, [Resting EXCEPT !.pc = "take", !.op = op, !.db = d])
  /\ UNCHANGED <<cached, login, request, auto>>

\* authenticate and copy_database start a request of their own unless there
\* is one.
BeginAuth(t, op, d) ==
  LET mine == op \in {"authenticate", "copy"} /\ request[t] = "none"
  IN  /\ auth[t].pc = "idle"
      /\ request' = IF mine THEN [request EXCEPT ![t] = "open"] ELSE request
      /\ GoAuth(t, [Resting EXCEPT !.pc = "take", !.op = op, !.db = d,
                                   !.mine = mine])
      /\ UNCHANGED <<cached, login, auto>>

\* The socket of the request or any other; a stale one is connected again.
\* Only if there are credentials is the socket checked against them.
TakeSocket(t) ==
  /\ auth[t].pc = "take"
  /\ \E k \in Sockets :
       /\ IF request[t] \in Sockets THEN k = request[t] ELSE login[k].idle
       /\ login' = [login EXCEPT ![k] =
            [(IF @.stale THEN NewSocket ELSE @) EXCEPT !.idle = FALSE]]
       /\ request' = IF auto \/ request[t] # "none"
                     THEN [request EXCEPT ![t] = k] ELSE request
       /\ GoAuth(t, [auth[t] EXCEPT !.sock = k, !.names = cached,
                       !.raced = @ /\ auth[t].stage = 2,
                       !.pc = IF cached = {} THEN "command" ELSE "check"])
  /\ UNCHANGED <<cached, auto>>

\* maybe_return_socket, end_request
PutBack(t, k, l, ends) ==
  /\ login' = [l EXCEPT ![k].idle = request[t] # k \/ ends]
  /\ request' = IF ends THEN [request EXCEPT ![t] = "none"] ELSE request

----------------------------------------------------------------------------
(* __check_auth *)

DropLogin(t) ==
  LET k == auth[t].sock
  IN  /\ auth[t].pc = "check"
      /\ \E d \in login[k].authset \ auth[t].names :
           login' = [login EXCEPT ![k].authset = @ \ {d}]
      /\ UNCHANGED <<cached, request, auth, auto>>

\* getnonce and authenticate: an earlier nonce of the socket is forgotten.
Authenticated(l, d) ==
  [l EXCEPT !.authset = @ \union {d}, !.nonce = {}]

AddLogin(t) ==
  LET k == auth[t].sock
      l == login[k]
      missing == auth[t].names \ l.authset
  IN  /\ auth[t].pc = "check"
      /\ l.authset \subseteq auth[t].names
      /\ Admin \notin l.authset
      /\ \E d \in IF Admin \in cached THEN {Admin} ELSE missing :
           \/ /\ d \in cached
              /\ login' = [login EXCEPT ![k] = Authenticated(l, d)]
              /\ UNCHANGED <<request, auth>>
           \/ /\ d \notin cached                  \* KeyError
              /\ PutBack(t, k, login, auth[t].mine)
              /\ GoAuth(t, Resting)
      /\ UNCHANGED <<cached, auto>>

Checked(t) ==
  LET l == login[auth[t].sock]
  IN  /\ auth[t].pc = "check"
      /\ l.authset \subseteq auth[t].names
      /\ \/ Admin \in l.authset
         \/ Admin \notin cached /\ auth[t].names \subseteq l.authset
      /\ GoAuth(t, [auth[t] EXCEPT !.pc = "command", !.names = {}])
      /\ UNCHANGED <<cached, login, request, auto>>

----------------------------------------------------------------------------
(* The commands. *)

UseLogin(t) ==
  /\ auth[t].pc = "command" /\ auth[t].op = "use"
  /\ PutBack(t, auth[t].sock, login, FALSE)
  /\ GoAuth(t, Resting)
  /\ UNCHANGED <<cached, auto>>

\* getnonce and copydbgetnonce; the server keeps the latter apart.
GetNonce(t) ==
  LET k == auth[t].sock
  IN  /\ auth[t].pc = "command" /\ auth[t].stage = 1
      /\ auth[t].op \in {"authenticate", "copy"}
      /\ PutBack(t, k, IF auth[t].op = "authenticate"
                       THEN [login EXCEPT ![k].nonce = {t}] ELSE login, FALSE)
      /\ GoAuth(t, [auth[t] EXCEPT !.pc = "take", !.stage = 2,
                                   !.from = k, !.sock = NoSocket])
      /\ UNCHANGED <<cached, auto>>

\* The server has forgotten the nonce: OperationFailure, authenticate returns
\* False.
Refused(t) == auth[t].op = "authenticate" /\ login[auth[t].sock].nonce # {t}

\* The password is right; copydb has its key checked by the other server.
Authenticate(t) ==
  LET k == auth[t].sock
      d == auth[t].db
  IN  /\ auth[t].pc = "command" /\ auth[t].stage = 2
      /\ \/ /\ auth[t].op = "copy" \/ Refused(t)
            /\ PutBack(t, k, login, auth[t].mine)
            /\ GoAuth(t, Resting)
         \/ /\ auth[t].op = "authenticate" /\ ~Refused(t)
            /\ PutBack(t, k, [login EXCEPT ![k].nonce = {}], FALSE)
            /\ GoAuth(t, [auth[t] EXCEPT !.pc = "store"])
      /\ UNCHANGED <<cached, auto>>

\* The authset of the socket is left as it is.
Logout(t) ==
  /\ auth[t].pc = "command" /\ auth[t].op = "logout"
  /\ PutBack(t, auth[t].sock, login, FALSE)
  /\ GoAuth(t, [auth[t] EXCEPT !.pc = "store"])
  /\ UNCHANGED <<cached, auto>>

\* _cache_credentials, after which authenticate ends its request;
\* _purge_credentials
Store(t) ==
  /\ auth[t].pc = "store"
  /\ cached' = IF auth[t].op = "logout" THEN cached \ {auth[t].db}
                                        ELSE cached \union {auth[t].db}
  /\ IF auth[t].mine THEN PutBack(t, auth[t].sock, login, TRUE)
                     ELSE UNCHANGED <<login, request>>
  /\ Race(t, Resting)
  /\ UNCHANGED auto

Disconnects(t) ==
  /\ auth[t].pc = "idle"
  /\ login' = [k \in Sockets |-> IF login[k].idle THEN NewSocket
                                 ELSE [login[k] EXCEPT !.stale = TRUE]]
  /\ Race(t, auth[t])
  /\ UNCHANGED <<cached, request, auto>>

AuthNext ==
  \E t \in Threads :
    \/ \E op \in {"use", "copy"} : BeginAuth(t, op, Admin)
    \/ \E op \in {"authenticate", "logout"}, d \in Databases :
         BeginAuth(t, op, d)
    \/ TakeSocket(t) \/ DropLogin(t) \/ AddLogin(t) \/ Checked(t)
    \/ UseLogin(t) \/ GetNonce(t) \/ Authenticate(t) \/ Logout(t) \/ Store(t)
    \/ Disconnects(t)

AuthSpec == AuthInit /\ [][AuthNext]_authVars

----------------------------------------------------------------------------
(* What authentication guarantees. *)

\* The key that authenticate and copy_database compute from a nonce is sent
\* over the socket that gave the nonce, and the server still knows the nonce:
\* whether the thread was in a request or not, the right password is accepted,
\* unless another thread disconnects or changes the credentials in between.
NonceIsKept ==
  \A t \in Threads :
    (auth[t].pc = "command" /\ auth[t].stage = 2 /\ ~auth[t].raced) =>
      auth[t].sock = auth[t].from /\ ~Refused(t)
=============================================================================
