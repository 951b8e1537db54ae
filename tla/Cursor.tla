------------------------------- MODULE Cursor -------------------------------
(***************************************************************************)
(* pymongo/cursor.py and cursor_manager.py: a Cursor, which fetches the    *)
(* documents of a query batch by batch from a cursor of the server, and    *)
(* the servers that hold the latter.  The query finds Docs documents,      *)
(* named by their position; what sorting and filters do is the server's.   *)
(*                                                                         *)
(* got, cut and abandoned record, for the properties, what the user has    *)
(* received since the cursor was last unevaluated, whether an exception or *)
(* a call of close came in between, and the server cursors that the driver *)
(* has lost.                                                               *)
(***************************************************************************)
EXTENDS DriverTypes, Integers, Sequences, FiniteSets

CONSTANTS Docs,          \* how many documents the query finds
          Skips, Limits, BatchSizes,
          MaxQueries,    \* bound on the queries of a run
          MaxDying       \* max_dying_cursors of BatchCursorManager

ASSUME CursorAssumption ==
  /\ Docs \in Nat /\ Skips \subseteq Nat /\ Limits \subseteq Int
  /\ BatchSizes \subseteq Nat /\ MaxQueries \in Nat /\ MaxDying \in Nat

VARIABLES cur,           \* the fields of the Cursor
          server,        \* the cursors on the servers
          kind,          \* the class of the connection, or of its cursor manager
          primary,       \* the host a Connection is connected to
          dying,         \* dying_cursors
          got, cut, abandoned

cursorVars == <<cur, server, kind, primary, dying, got, cut, abandoned>>

None == -1
Magnitude(n) == IF n < 0 THEN -n ELSE n
Least(a, b) == IF a <= b THEN a ELSE b

\* How many documents there are from a position on.
Remaining(pos) == IF pos < Docs THEN Docs - pos ELSE 0

Ids == 1..MaxQueries

\* next and count: the documents in data.
CursorTypeOK ==
  /\ cur \in [skip : Nat, limit : Int, batch_size : Nat, empty : BOOLEAN,
              id : {None, 0} \union Ids, conn : Members \union {NoMember},
              retrieved : Nat, killed : BOOLEAN, full : BOOLEAN,
              next : Nat, count : Nat]
  /\ server \in [Ids -> [state : {"unused", "open", "gone"}, pos : Nat,
                         host : Members \union {NoMember}]]
  /\ kind \in {"Connection", "BatchCursorManager", "ReplicaSetConnection"}
  /\ primary \in Members \union {NoMember}
  /\ dying \subseteq Ids
  /\ cut \in BOOLEAN
  /\ abandoned \subseteq Ids

Unevaluated(c) ==
  [c EXCEPT !.id = None, !.conn = NoMember, !.retrieved = 0, !.killed = FALSE,
            !.full = FALSE, !.next = 0, !.count = 0]

CursorInit ==
  /\ cur = [skip |-> 0, limit |-> 0, batch_size |-> 0, empty |-> FALSE,
            id |-> None, conn |-> NoMember, retrieved |-> 0, killed |-> FALSE,
            full |-> FALSE, next |-> 0, count |-> 0]
  /\ server = [i \in Ids |-> [state |-> "unused", pos |-> 0, host |-> NoMember]]
  /\ kind \in {"Connection", "BatchCursorManager", "ReplicaSetConnection"}
  /\ primary \in IF kind = "ReplicaSetConnection" THEN {NoMember} ELSE Members
  /\ dying = {} /\ got = <<>> /\ cut = FALSE /\ abandoned = {}

----------------------------------------------------------------------------
(* Options, which only an unevaluated cursor takes. *)

OkayToChain == cur.retrieved = 0 /\ cur.id = None /\ ~cur.full

SetOption(c) ==
  /\ OkayToChain
  /\ cur' = c
  /\ UNCHANGED <<server, kind, primary, dying, got, cut, abandoned>>

Limit(n) == SetOption([cur EXCEPT !.empty = FALSE, !.limit = n])

\* Mutant: a batch size of 1 is sent as it is.
BatchSize_One(n) == SetOption([cur EXCEPT !.batch_size = n])

\* A server takes a query for one document as one for no more than one.
BatchSize(n) ==
  SetOption([cur EXCEPT !.batch_size = IF n = 1 THEN 2 ELSE n])

Skip(n) == SetOption([cur EXCEPT !.skip = n])

CursorSlice(a, b) ==
  /\ a <= b
  /\ SetOption([cur EXCEPT !.skip = a, !.limit = b - a, !.empty = a = b])

----------------------------------------------------------------------------
(* close, __del__ and __exit__ *)

Alive == cur.id > 0 /\ ~cur.killed

\* The hosts a message about the server cursor of cur goes to.
Target == IF kind = "ReplicaSetConnection" THEN cur.conn ELSE primary

Kill(ids) ==
  /\ server' = [i \in Ids |-> IF i \in ids /\ server[i].host = Target
                              THEN [server[i] EXCEPT !.state = "gone"]
                              ELSE server[i]]
  /\ abandoned' = abandoned \union {i \in ids : server[i].host # Target}

\* close_cursor: the message is sent at once, or when there are enough of them.
Dying(id) == dying \union {id}
SendsKill(id) ==
  kind = "BatchCursorManager" => Cardinality(Dying(id)) > MaxDying

CloseCursor(id) ==
  IF kind # "BatchCursorManager" THEN Kill({id}) /\ UNCHANGED dying
  ELSE IF SendsKill(id) THEN Kill(Dying(id)) /\ dying' = {}
  ELSE dying' = Dying(id) /\ UNCHANGED <<server, abandoned>>

Die == IF Alive THEN CloseCursor(cur.id) ELSE UNCHANGED <<server, dying, abandoned>>

\* The message cannot be sent, AutoReconnect: the list keeps its cursors.
DieFails ==
  /\ Alive /\ SendsKill(cur.id)
  /\ dying' = IF kind = "BatchCursorManager" THEN Dying(cur.id) ELSE dying
  /\ UNCHANGED server

CursorClose ==
  /\ ~cur.full
  /\ Die
  /\ cur' = [cur EXCEPT !.killed = TRUE]
  /\ cut' = TRUE
  /\ UNCHANGED <<kind, primary, got>>

CursorCloseFails ==
  /\ ~cur.full
  /\ DieFails
  /\ cut' = TRUE
  /\ UNCHANGED <<cur, kind, primary, got, abandoned>>

\* The cursor starts anew; nobody tells the server.
Rewind ==
  /\ ~cur.full
  /\ cur' = Unevaluated(cur)
  /\ abandoned' = abandoned \union (IF Alive THEN {cur.id} ELSE {})
  /\ got' = <<>> /\ cut' = FALSE
  /\ UNCHANGED <<server, kind, primary, dying>>

\* Mutant: the original is collected without a word to the server.
Clone_NoDie ==
  /\ ~cur.full
  /\ cur' = [Unevaluated(cur) EXCEPT !.empty = FALSE]
  /\ got' = <<>> /\ cut' = FALSE
  /\ UNCHANGED <<server, kind, primary, dying, abandoned>>

\* The user goes on with the copy, and the original is collected: __del__, whose
\* exceptions are ignored.
Clone ==
  /\ ~cur.full
  /\ cur' = [Unevaluated(cur) EXCEPT !.empty = FALSE]
  /\ \/ Die
     \/ DieFails /\ abandoned' = abandoned \union {cur.id}
  /\ got' = <<>> /\ cut' = FALSE
  /\ UNCHANGED <<kind, primary>>

\* cursor[i] asks another cursor for one document.
CursorIndex ==
  SetOption([cur EXCEPT !.empty = FALSE])

----------------------------------------------------------------------------
(* next and _refresh *)

\* next takes the first document there is.
Pop ==
  /\ ~cur.empty /\ ~cur.full /\ cur.count > 0
  /\ cur' = [cur EXCEPT !.next = @ + 1, !.count = @ - 1]
  /\ got' = Append(got, cur.next)
  /\ UNCHANGED <<server, kind, primary, dying, cut, abandoned>>

\* What a server may reply to a request for n documents from a position on: how
\* many, and whether it keeps the cursor.  Its limit on the size of a reply may
\* be reached first, and it need not know that there are no more.
Replies(pos, n, query) ==
  LET rest == Remaining(pos)
      most == IF n = 0 THEN rest ELSE Least(Magnitude(n), rest)
  IN  IF n < 0 \/ (query /\ n = 1)
      THEN {[count |-> most, open |-> FALSE]}
      ELSE {r \in [count : 0..most, open : BOOLEAN] :
              /\ r.count = 0 => most = 0
              /\ r.count < rest => r.open
              /\ r.open => rest # 0 \/ ~query}

Served(i, pos, host, r) ==
  server' = [server EXCEPT ![i] =
    [state |-> IF r.open THEN "open" ELSE "gone", pos |-> pos + r.count,
     host |-> host]]

\* __send_message; a cursor that has reached its limit is to be killed.
Filled(i, pos, host, r) ==
  LET c == [cur EXCEPT !.id = IF r.open THEN i ELSE 0,
                       !.conn = IF kind = "ReplicaSetConnection" THEN host
                                ELSE NoMember,
                       !.retrieved = @ + r.count,
                       !.next = pos + 1, !.count = r.count]
  IN  [c EXCEPT !.full = c.limit # 0 /\ r.open /\ c.limit <= c.retrieved,
                !.killed = @ \/ (cur.id = None /\ ~r.open)]

Refreshes == ~cur.empty /\ cur.count = 0 /\ ~cur.killed /\ ~cur.full

\* The number to ask for, of which there are to be limit more.
Requested(limit) ==
  IF cur.limit = 0 THEN cur.batch_size
  ELSE IF cur.batch_size = 0 THEN limit ELSE Least(limit, cur.batch_size)

QueryHosts == IF kind = "ReplicaSetConnection" THEN Members ELSE {primary}

\* The query, whose reply may get lost.
SendQuery ==
  /\ Refreshes /\ cur.id = None
  /\ \E i \in Ids, host \in QueryHosts :
       /\ server[i].state = "unused"
       /\ \A j \in Ids : server[j].state = "unused" => i <= j
       /\ \E r \in Replies(cur.skip, Requested(cur.limit), TRUE) :
            /\ Served(i, cur.skip, host, r)
            /\ \/ /\ cur' = Filled(i, cur.skip, host, r)
                  /\ UNCHANGED <<cut, abandoned>>
               \/ /\ cur' = [cur EXCEPT !.killed = TRUE]
                  /\ cut' = TRUE
                  /\ abandoned' = abandoned \union {i}
  /\ UNCHANGED <<kind, primary, dying, got>>

\* The rest, or less if there is a batch size; the reply may get lost.
GetMore ==
  LET s == server[cur.id]
      n == Requested(cur.limit - cur.retrieved)
  IN  /\ Refreshes /\ cur.id > 0
      /\ s.state = "open" /\ s.host = Target
      /\ \E r \in Replies(s.pos, n, FALSE) :
           /\ Served(cur.id, s.pos, s.host, r)
           /\ \/ /\ cur' = Filled(cur.id, s.pos, s.host, r)
                 /\ UNCHANGED <<cut, abandoned>>
              \/ /\ cur' = [cur EXCEPT !.killed = TRUE]
                 /\ cut' = TRUE
                 /\ abandoned' = abandoned \union {cur.id}
      /\ UNCHANGED <<kind, primary, dying, got>>

\* The server does not have the cursor: OperationFailure; it is down, or no
\* longer the primary: AutoReconnect.
GetMoreFails ==
  /\ Refreshes /\ cur.id > 0
  /\ \/ /\ server[cur.id].state = "gone" \/ server[cur.id].host # Target
        /\ UNCHANGED <<cur, abandoned>>
     \/ /\ cur' = [cur EXCEPT !.killed = TRUE]
        /\ abandoned' = abandoned \union {cur.id}
  /\ cut' = TRUE
  /\ UNCHANGED <<server, kind, primary, dying, got>>

\* Still in __send_message: the limit is reached.
KillAtLimit ==
  /\ cur.full
  /\ cur' = [cur EXCEPT !.full = FALSE, !.killed = TRUE]
  /\ Die
  /\ UNCHANGED <<kind, primary, got, cut>>

KillAtLimitFails ==
  /\ cur.full
  /\ cur' = [cur EXCEPT !.full = FALSE]
  /\ DieFails
  /\ cut' = TRUE
  /\ UNCHANGED <<kind, primary, got, abandoned>>

----------------------------------------------------------------------------
(* The servers. *)

\* A cursor is idle for too long, or its host restarts.
CursorTimesOut(i) ==
  /\ server[i].state = "open"
  /\ server' = [server EXCEPT ![i].state = "gone"]
  /\ UNCHANGED <<cur, kind, primary, dying, got, cut, abandoned>>

Failover(n) ==
  /\ kind # "ReplicaSetConnection"
  /\ primary' = n
  /\ UNCHANGED <<cur, server, kind, dying, got, cut, abandoned>>

CursorNext ==
  \/ \E n \in Limits : Limit(n)
  \/ \E n \in BatchSizes : BatchSize(n)
  \/ \E n \in Skips : Skip(n)
  \/ \E a, b \in Skips : CursorSlice(a, b)
  \/ CursorIndex \/ CursorClose \/ CursorCloseFails \/ Rewind \/ Clone
  \/ Pop \/ SendQuery \/ GetMore \/ GetMoreFails \/ KillAtLimit \/ KillAtLimitFails
  \/ \E i \in Ids : CursorTimesOut(i)
  \/ \E n \in Members : Failover(n)

CursorSpec == CursorInit /\ [][CursorNext]_cursorVars

----------------------------------------------------------------------------
(* What a cursor promises. *)

\* How many documents skip and limit ask for.
Window ==
  IF cur.empty THEN 0
  ELSE IF cur.limit = 0 THEN Remaining(cur.skip)
       ELSE Least(Magnitude(cur.limit), Remaining(cur.skip))

\* However the limit, the batch size and the size of replies divide the result
\* into batches, the user gets exactly the documents asked for, in order, and
\* the iteration ends after the last one, unless it is cut short by the user or
\* by an exception; then too the documents follow each other without gap or
\* repetition: a batch whose reply is lost is not skipped over.
ReturnsWindow ==
  /\ \A i \in 1..Len(got) : got[i] = cur.skip + i
  /\ ~cut => /\ Len(got) <= Window
             /\ (cur.count = 0 /\ (cur.killed \/ cur.id = 0)) => Len(got) = Window

\* A cursor left open on a server is that of the Cursor, or waits for others to
\* be killed with it, or is one whose host could not be told, or that rewind
\* has forgotten: at its limit, when it is closed or collected, a cursor leaves
\* nothing behind, however many cursors have died before it.
CursorsEnd ==
  \A i \in Ids :
    server[i].state = "open" =>
      (i = cur.id /\ ~cur.killed) \/ i \in dying \union abandoned
=============================================================================
