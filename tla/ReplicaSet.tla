----------------------------- MODULE ReplicaSet -----------------------------
(***************************************************************************)
(* pymongo/replica_set_connection.py: the threads of one                   *)
(* ReplicaSetConnection and its monitor, which all refresh the same table  *)
(* of members without a lock.  A Member object lives on in the hands of a  *)
(* thread after it is gone from the table, so objects have numbers.        *)
(*                                                                         *)
(* A step ends where the table, the writer or the event is read or written *)
(* or the network is waited for; anything sent may fail or time out.  Tags *)
(* and ping times are left to chance: any member may be the near one.      *)
(***************************************************************************)
EXTENDS DriverTypes, Naturals, FiniteSets

CONSTANTS RsThreads,     \* the threads that use the connection
          Monitor,       \* the monitor thread
          Modes,         \* the read preferences that are used
          MaxObjects,    \* bound on the Member objects of a host, at any time
          MaxElections   \* bound on the elections of a run

ASSUME RsAssumption ==
  /\ Monitor \notin RsThreads
  /\ Modes # {}
  /\ Modes \subseteq {"PRIMARY", "PRIMARY_PREFERRED", "SECONDARY",
                     "SECONDARY_PREFERRED", "NEAREST"}
  /\ MaxObjects \in Nat \ {0} /\ MaxElections \in Nat

MAX_RETRY == 3

VARIABLES member,        \* __members: the object of every host, 0 if it has none
          object,        \* the fields of the Member objects
          writer,        \* __writer
          pinned,        \* the host in the thread-local state of every thread
          inRequest,     \* __in_request
          monitor,       \* the event and stopped; whether its refresh failed
          proc,          \* what every thread and the monitor are doing
          replica        \* the primary of the set, and the elections so far

rsVars ==
  <<member, object, writer, pinned, inRequest, monitor, proc, replica>>

Procs == RsThreads \union {Monitor}
Hosts == Members \union {NoMember}
Objects == 0..MaxObjects

\* todo and found belong to a refresh, next tells where fetch leads to; refs
\* are the members a read may still try; explicit is a read of a cursor, which
\* must go to the member that has it.
Proc ==
  [pc : {"idle", "find", "refresh", "update", "fetch", "ask", "candidate",
         "check", "read", "select", "try", "down", "schedule", "send",
         "wait", "clear", "ended"},
   op : {"none", "write", "read"}, mode : Modes,
   todo : SUBSET Members, at : Hosts, k : Objects, found : Hosts,
   next : {"ask", "check"}, refs : [Members -> Objects],
   errors : 0..MAX_RETRY, viaPin : BOOLEAN, explicit : BOOLEAN]

RsTypeOK ==
  /\ member \in [Members -> Objects]
  /\ object \in [Members -> [1..MaxObjects ->
                               [is_primary : BOOLEAN, up : BOOLEAN]]]
  /\ writer \in Hosts
  /\ pinned \in [RsThreads -> Hosts]
  /\ inRequest \in BOOLEAN
  /\ monitor \in [event : BOOLEAN, stopped : BOOLEAN, failed : BOOLEAN]
  /\ proc \in [Procs -> Proc]
  /\ replica \in [primary : Hosts, elections : 0..MaxElections]

AnyMode == CHOOSE m \in Modes : TRUE

RsDoing(pc, op) ==
  [pc |-> pc, op |-> op, mode |-> AnyMode, todo |-> {},
   at |-> NoMember, k |-> 0, found |-> NoMember, next |-> "ask",
   refs |-> [n \in Members |-> 0], errors |-> 0, viaPin |-> FALSE,
   explicit |-> FALSE]

Ready(p) == RsDoing(IF p = Monitor THEN "wait" ELSE "idle", "none")

NoFields == [is_primary |-> FALSE, up |-> FALSE]

\* The constructor has refreshed; auto_start_request is on.
RsInit ==
  \E p \in Members :
    /\ member = [n \in Members |-> 1]
    /\ object = [n \in Members |-> [k \in 1..MaxObjects |->
         IF k = 1 THEN [is_primary |-> n = p, up |-> TRUE] ELSE NoFields]]
    /\ writer = p
    /\ pinned = [t \in RsThreads |-> NoMember]
    /\ inRequest = TRUE
    /\ monitor = [event |-> FALSE, stopped |-> FALSE, failed |-> FALSE]
    /\ proc = [q \in Procs |-> Ready(q)]
    /\ replica = [primary |-> p, elections |-> 0]

Become(p, c) == proc' = [proc EXCEPT ![p] = c]
Move(p, pc) == Become(p, [proc[p] EXCEPT !.pc = pc])

\* An object that nobody refers to is forgotten.
Refers(c, n, k) == (c.at = n /\ c.k = k) \/ c.refs[n] = k
Live(fields) ==
  [n \in Members |-> [k \in 1..MaxObjects |->
     IF k = member'[n] \/ \E q \in Procs : Refers(proc'[q], n, k)
     THEN fields[n][k] ELSE NoFields]]
SameObjects == object' = Live(object)

Fields(n, k) == object[n][k]
IsPrimary(n) == [is_primary |-> n = replica.primary, up |-> TRUE]

----------------------------------------------------------------------------
(* Exceptions. *)

\* AutoReconnect leaves refresh or __find_primary: the monitor waits for its
\* next turn, a read goes on without a primary, a write ends.
AutoReconnect(p) ==
  /\ Become(p, IF proc[p].op = "read" THEN RsDoing("read", "read") ELSE Ready(p))
  /\ monitor' = IF p = Monitor THEN [monitor EXCEPT !.failed = TRUE] ELSE monitor

\* Any other exception ends the operation, and the monitor for good.
KeyError(p) ==
  Become(p, IF p = Monitor THEN [Ready(p) EXCEPT !.pc = "ended"] ELSE Ready(p))

----------------------------------------------------------------------------
(* __find_primary, refresh and __update_pools *)

RsBegin(t, op) ==
  /\ proc[t].pc = "idle" /\ ~monitor.stopped
  /\ Become(t, RsDoing("find", op))
  /\ UNCHANGED <<member, writer, pinned, inRequest, monitor, replica>>
  /\ SameObjects

\* The Member of the primary is found; a read has no use for it.
MemberFound(t) ==
  Become(t, RsDoing(IF proc[t].op = "write" THEN "send" ELSE "read", proc[t].op))

FindPrimary(t) ==
  /\ proc[t].pc = "find"
  /\ \/ writer # NoMember /\ member[writer] = 0 /\ KeyError(t)
     \/ /\ writer # NoMember /\ member[writer] # 0
        /\ Fields(writer, member[writer]).up
        /\ MemberFound(t)
     \/ /\ IF writer = NoMember THEN TRUE
           ELSE member[writer] # 0 /\ ~Fields(writer, member[writer]).up
        /\ Move(t, "refresh")
  /\ UNCHANGED <<member, writer, pinned, inRequest, monitor, replica>>
  /\ SameObjects

\* The first member that answers names the hosts, which stay the same.
Refresh(p) ==
  /\ proc[p].pc = "refresh"
  /\ \/ /\ Become(p, [proc[p] EXCEPT !.pc = "update", !.todo = Members])
        /\ UNCHANGED monitor
     \/ AutoReconnect(p)
  /\ UNCHANGED <<member, writer, pinned, inRequest, replica>>
  /\ SameObjects

\* "if host in self.__members", where an earlier object is then looked up.
LookUp(p, n, next, c) ==
  Become(p, [c EXCEPT !.pc = IF member[n] = 0 THEN next ELSE "fetch",
                      !.next = next, !.at = n, !.k = 0])

UpdateHost(p) ==
  /\ proc[p].pc = "update"
  /\ \E n \in proc[p].todo :
       LookUp(p, n, "ask", [proc[p] EXCEPT !.todo = @ \ {n}])
  /\ UNCHANGED <<member, writer, pinned, inRequest, monitor, replica>>
  /\ SameObjects

Fetch(p) ==
  LET c == proc[p]
  IN  /\ c.pc = "fetch"
      /\ IF member[c.at] = 0 THEN KeyError(p)
         ELSE Become(p, [c EXCEPT !.pc = c.next, !.k = member[c.at]])
      /\ UNCHANGED <<member, writer, pinned, inRequest, monitor, replica>>
      /\ SameObjects

Unused(n) ==
  {k \in 1..MaxObjects :
     k # member[n] /\ \A q \in Procs : ~Refers(proc[q], n, k)}

\* A new Member, which replaces any that another thread has just made.
NewMember(p) ==
  LET n == proc[p].at
  IN  \E k \in Unused(n) :
        /\ \A j \in Unused(n) : k <= j
        /\ member' = [member EXCEPT ![n] = k]
        /\ object' = Live([object EXCEPT ![n][k] = IsPrimary(n)])

Ask(p) ==
  LET c == proc[p]
      done == [c EXCEPT !.pc = "update", !.at = NoMember, !.k = 0]
  IN  /\ c.pc = "ask"
      /\ \/ /\ Become(p, [done EXCEPT !.found =
                            IF c.at = replica.primary THEN c.at ELSE @])
            /\ \/ c.k = 0 /\ NewMember(p)
               \/ /\ c.k # 0
                  /\ UNCHANGED member
                  /\ object' = Live([object EXCEPT ![c.at][c.k] =
                                       IsPrimary(c.at)])
         \/ /\ Become(p, done)
            /\ member' = IF c.k = 0 THEN member ELSE [member EXCEPT ![c.at] = 0]
            /\ SameObjects
      /\ UNCHANGED <<writer, pinned, inRequest, monitor, replica>>

\* Mutant: the event is cleared when the refresh has ended.
EndUpdate_Clears(p) ==
  LET c == proc[p]
  IN  /\ c.pc = "update" /\ c.todo = {}
      /\ pinned' = IF c.found = writer THEN pinned
                   ELSE [t \in RsThreads |-> NoMember]
      /\ writer' = c.found
      /\ monitor' = IF p = Monitor THEN [monitor EXCEPT !.event = FALSE]
                    ELSE monitor
      /\ Become(p, IF p = Monitor THEN Ready(p)
                   ELSE [c EXCEPT !.pc = "candidate", !.todo = Members,
                                  !.found = NoMember])
      /\ UNCHANGED <<member, inRequest, replica>>
      /\ SameObjects

\* The end of __update_pools; __find_primary then asks for the primary.
EndUpdate(p) ==
  LET c == proc[p]
  IN  /\ c.pc = "update" /\ c.todo = {}
      /\ pinned' = IF c.found = writer THEN pinned
                   ELSE [t \in RsThreads |-> NoMember]
      /\ writer' = c.found
      /\ Become(p, IF p = Monitor THEN Ready(p)
                   ELSE [c EXCEPT !.pc = "candidate", !.todo = Members,
                                  !.found = NoMember])
      /\ UNCHANGED <<member, inRequest, monitor, replica>>
      /\ SameObjects

Candidate(t) ==
  /\ proc[t].pc = "candidate"
  /\ \/ /\ \E n \in proc[t].todo :
             LookUp(t, n, "check", [proc[t] EXCEPT !.todo = @ \ {n}])
        /\ UNCHANGED monitor
     \/ proc[t].todo = {} /\ AutoReconnect(t)
  /\ UNCHANGED <<member, writer, pinned, inRequest, replica>>
  /\ SameObjects

\* __check_is_primary, which follows the "primary" that a secondary names and
\* leaves an existing Member as it is.
CheckIsPrimary(t) ==
  LET c == proc[t]
      p == replica.primary
      answered == \/ c.k # 0 /\ UNCHANGED member /\ SameObjects
                  \/ c.k = 0 /\ NewMember(t)
      goOn == [c EXCEPT !.pc = "candidate", !.at = NoMember, !.k = 0]
  IN  /\ c.pc = "check"
      /\ \/ /\ c.at = p
            /\ writer' = p
            /\ IF c.k # 0 /\ member[p] = 0 THEN KeyError(t) ELSE MemberFound(t)
            /\ answered
         \/ /\ c.at # p /\ p # NoMember
            /\ LookUp(t, p, "check", c)
            /\ answered
            /\ UNCHANGED writer
         \/ /\ p = NoMember
            /\ Become(t, goOn)
            /\ answered
            /\ UNCHANGED writer
         \/ /\ Become(t, goOn)
            /\ UNCHANGED <<member, writer>>
            /\ SameObjects
      /\ UNCHANGED <<pinned, inRequest, monitor, replica>>

----------------------------------------------------------------------------
(* _send_message and _send_message_with_response *)

\* The member may have stepped down: only getLastError tells.  A failure and
\* "not master" disconnect.
RsSend(t) ==
  /\ proc[t].pc = "send"
  /\ Become(t, Ready(t))
  /\ writer' \in {writer, NoMember}
  /\ UNCHANGED <<member, pinned, inRequest, monitor, replica>>
  /\ SameObjects

MatchesMode(f, mode) ==
  /\ mode = "PRIMARY" => f.is_primary
  /\ mode = "SECONDARY" => ~f.is_primary

\* select_member: the members it may choose, and NoMember if it may find none.
Select(refs, mode) ==
  LET all == {n \in Members : refs[n] # 0}
      up == {n \in all : Fields(n, refs[n]).up}
      primaries == {n \in all : Fields(n, refs[n]).is_primary}
      OrNone(s) == IF s = {} THEN {NoMember} ELSE s
      primary == {n \in primaries : n \in up}
                   \union (IF primaries \subseteq up /\ primaries # {} THEN {}
                           ELSE {NoMember})
      secondary == OrNone(up \ primaries)
      First(a, b) == (a \ {NoMember}) \union (IF NoMember \in a THEN b ELSE {})
  IN  CASE mode = "PRIMARY"             -> primary
        [] mode = "PRIMARY_PREFERRED"   -> First(primary, secondary)
        [] mode = "SECONDARY"           -> secondary
        [] mode = "SECONDARY_PREFERRED" -> First(secondary, primary)
        [] mode = "NEAREST"             -> OrNone(up)

Unpin(t) == pinned' = [pinned EXCEPT ![t] = NoMember]

\* The member the thread is pinned to, or any; members = copy.
RsRead(t, mode) ==
  LET n == pinned[t]
      good == /\ n # NoMember
              /\ member[n] # 0
              /\ MatchesMode(Fields(n, member[n]), mode)
              /\ Fields(n, member[n]).up
      c == [proc[t] EXCEPT !.mode = mode]
  IN  /\ proc[t].pc = "read"
      /\ \/ /\ good
            /\ Become(t, [c EXCEPT !.pc = "try", !.at = n, !.k = member[n],
                                   !.viaPin = TRUE])
            /\ UNCHANGED pinned
         \/ /\ ~good
            /\ Become(t, [c EXCEPT !.pc = "select", !.refs = member])
            /\ Unpin(t)
      /\ UNCHANGED <<member, writer, inRequest, monitor, replica>>
      /\ SameObjects

\* _connection_to_use: the member that has the cursor, wherever that is.
ReadCursor(t, n) ==
  /\ proc[t].pc = "read"
  /\ IF member[n] = 0 THEN KeyError(t)
     ELSE Become(t, [proc[t] EXCEPT !.pc = "try", !.at = n, !.k = member[n],
                                    !.explicit = TRUE])
  /\ UNCHANGED <<member, writer, pinned, inRequest, monitor, replica>>
  /\ SameObjects

SelectMember(t) ==
  LET c == proc[t]
  IN  /\ c.pc = "select"
      /\ IF c.errors = MAX_RETRY THEN Become(t, Ready(t))
         ELSE \E n \in Select(c.refs, c.mode) :
                Become(t, IF n = NoMember THEN Ready(t)
                          ELSE [c EXCEPT !.pc = "try", !.at = n, !.k = c.refs[n]])
      /\ UNCHANGED <<member, writer, pinned, inRequest, monitor, replica>>
      /\ SameObjects

\* The reply; a read that must have the primary learns that it is not.
TrySucceeds(t) ==
  LET c == proc[t]
  IN  /\ c.pc = "try"
      /\ pinned' = IF ~c.explicit /\ ~c.viaPin /\ inRequest
                   THEN [pinned EXCEPT ![t] = c.at] ELSE pinned
      /\ writer' = IF ~c.explicit /\ c.mode = "PRIMARY"
                      /\ c.at # replica.primary
                   THEN NoMember ELSE writer
      /\ Become(t, Ready(t))
      /\ UNCHANGED <<member, inRequest, monitor, replica>>
      /\ SameObjects

TryFails(t) ==
  /\ proc[t].pc = "try"
  /\ Move(t, "down")
  /\ UNCHANGED <<member, writer, pinned, inRequest, monitor, replica>>
  /\ SameObjects

\* member.up = False
MarkDown(t) ==
  LET c == proc[t]
  IN  /\ c.pc = "down"
      /\ Move(t, "schedule")
      /\ UNCHANGED <<member, writer, pinned, inRequest, monitor, replica>>
      /\ object' = Live([object EXCEPT ![c.at][c.k].up = FALSE])

\* __schedule_refresh, and then the next member, if there is to be one.
ScheduleRefresh(t) ==
  LET c == proc[t]
      again == [c EXCEPT !.pc = "select", !.at = NoMember, !.k = 0,
                         !.errors = @ + 1, !.viaPin = FALSE]
  IN  /\ c.pc = "schedule"
      /\ monitor' = [monitor EXCEPT !.event = TRUE]
      /\ CASE c.explicit ->
                /\ writer' = IF writer = c.at /\ member[c.at] = c.k
                             THEN NoMember ELSE writer
                /\ Become(t, Ready(t))
                /\ UNCHANGED pinned
           [] ~c.explicit /\ c.viaPin /\ c.mode = "PRIMARY" ->
                /\ writer' = NoMember
                /\ Become(t, Ready(t))
                /\ UNCHANGED pinned
           [] ~c.explicit /\ c.viaPin /\ c.mode # "PRIMARY" ->
                /\ Become(t, [again EXCEPT !.refs = member])
                /\ Unpin(t)
                /\ UNCHANGED writer
           [] ~c.explicit /\ ~c.viaPin ->
                /\ Become(t, [again EXCEPT !.refs[c.at] = 0])
                /\ UNCHANGED <<writer, pinned>>
      /\ UNCHANGED <<member, inRequest, replica>>
      /\ SameObjects

----------------------------------------------------------------------------
(* Requests, disconnect and close. *)

RsStartRequest(t) ==
  /\ proc[t].pc = "idle" /\ ~monitor.stopped
  /\ inRequest' = TRUE
  /\ UNCHANGED <<member, object, writer, pinned, monitor, proc, replica>>

\* __in_request is that of the connection, the pinned host that of the thread.
RsEndRequest(t) ==
  /\ proc[t].pc = "idle" /\ ~monitor.stopped
  /\ inRequest' = FALSE
  /\ Unpin(t)
  /\ UNCHANGED <<member, object, writer, monitor, proc, replica>>

RsDisconnect(t) ==
  /\ proc[t].pc = "idle" /\ ~monitor.stopped
  /\ writer' = NoMember
  /\ UNCHANGED <<member, object, pinned, inRequest, monitor, proc, replica>>

\* "Once called this instance should not be reused"; the monitor may go on.
RsClose ==
  /\ \A t \in RsThreads : proc[t].pc = "idle"
  /\ ~monitor.stopped
  /\ monitor' = [monitor EXCEPT !.stopped = TRUE, !.event = TRUE]
  /\ writer' = NoMember
  /\ member' = [n \in Members |-> 0]
  /\ UNCHANGED proc
  /\ UNCHANGED <<pinned, inRequest, replica>>
  /\ SameObjects

----------------------------------------------------------------------------
(* The monitor, and the elections. *)

\* The event is set, or 30 seconds are over.
Wake ==
  /\ proc[Monitor].pc = "wait"
  /\ Move(Monitor, IF monitor.stopped THEN "ended" ELSE "clear")
  /\ UNCHANGED <<member, object, writer, pinned, inRequest, monitor, replica>>

Clear ==
  /\ proc[Monitor].pc = "clear"
  /\ monitor' = [monitor EXCEPT !.event = FALSE, !.failed = FALSE]
  /\ Move(Monitor, "refresh")
  /\ UNCHANGED <<member, object, writer, pinned, inRequest, replica>>

RsElect(n) ==
  /\ n # replica.primary
  /\ replica.elections < MaxElections
  /\ replica' = [primary |-> n, elections |-> replica.elections + 1]
  /\ UNCHANGED <<member, object, writer, pinned, inRequest, monitor, proc>>

StepDown ==
  /\ replica.primary # NoMember
  /\ replica.elections < MaxElections
  /\ replica' = [replica EXCEPT !.primary = NoMember]
  /\ UNCHANGED <<member, object, writer, pinned, inRequest, monitor, proc>>

RefreshStep(p) ==
  Refresh(p) \/ UpdateHost(p) \/ Fetch(p) \/ Ask(p) \/ EndUpdate(p)

RsStep(t) ==
  \/ FindPrimary(t) \/ Candidate(t) \/ CheckIsPrimary(t) \/ RsSend(t)
  \/ SelectMember(t) \/ TrySucceeds(t) \/ TryFails(t)
  \/ MarkDown(t) \/ ScheduleRefresh(t)
  \/ RsStartRequest(t) \/ RsEndRequest(t) \/ RsDisconnect(t)

RsNext ==
  \/ \E t \in RsThreads :
       \/ \E op \in {"write", "read"} : RsBegin(t, op)
       \/ \E m \in Modes : RsRead(t, m)
       \/ \E n \in Members : ReadCursor(t, n)
       \/ RsStep(t)
  \/ \E p \in Procs : RefreshStep(p)
  \/ Wake \/ Clear \/ RsClose \/ StepDown
  \/ \E n \in Members : RsElect(n)

RsSpec == RsInit /\ [][RsNext]_rsVars

----------------------------------------------------------------------------
(* What the connection guarantees. *)

\* A member that a thread has found down is asked again: unless the monitor
\* has ended, or nobody answered its last refresh, the member is still ahead
\* of a refresh in progress or the monitor has been told to begin one.  No
\* wake-up is lost between the clearing of the event and the refresh.
DownIsRefreshed ==
  \A n \in Members :
    (member[n] # 0 /\ ~Fields(n, member[n]).up) =>
      \/ monitor.event \/ monitor.failed
      \/ \E t \in RsThreads : proc[t].pc = "schedule" /\ proc[t].at = n
      \/ proc[Monitor].pc \in {"ended", "refresh"}
      \/ n \in proc[Monitor].todo \union {proc[Monitor].at}
=============================================================================
