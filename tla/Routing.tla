------------------------------- MODULE Routing -------------------------------
(***************************************************************************)
(* Which server a call of a Collection or a Database goes to: the settings *)
(* that a database takes from its connection and a collection from its     *)
(* database, when the object is made (common.py, database.py), the methods *)
(* that run commands (collection.py, cursor.py), Database.command, and the *)
(* choice of ReplicaSetConnection and MasterSlaveConnection.               *)
(*                                                                         *)
(* Every member is up and there is a primary: ReplicaSet has the others.   *)
(***************************************************************************)
EXTENDS Naturals

CONSTANT RoutingModes           \* the read preferences that are set

ASSUME RoutingAssumption ==
  /\ "SECONDARY" \in RoutingModes
  /\ RoutingModes \subseteq {"PRIMARY", "PRIMARY_PREFERRED", "SECONDARY",
                            "SECONDARY_PREFERRED", "NEAREST"}

Levels == {"connection", "database", "collection"}

\* secondary_ok_commands
SecondaryOk == {"group", "aggregate", "collstats", "dbstats", "count",
                "distinct", "mapreduce"}

VARIABLES settings,      \* read_preference and slave_okay of every object
          class,         \* of the connection
          inRequestMs,   \* __in_request of a MasterSlaveConnection
          sent           \* the last call, and where it went

routingVars == <<settings, class, inRequestMs, sent>>

Setting == [read_preference : RoutingModes, slave_okay : BOOLEAN]

Roles == {"primary", "secondary"}

Nothing == [by |-> "nobody", writes |-> FALSE, to |-> "primary", slave_okay |-> FALSE]

RoutingTypeOK ==
  /\ settings \in [Levels -> Setting]
  /\ class \in {"ReplicaSetConnection", "MasterSlaveConnection"}
  /\ inRequestMs \in BOOLEAN
  /\ sent \in [by : {"nobody", "collection", "database"}, writes : BOOLEAN,
               to : Roles, slave_okay : BOOLEAN]

\* A MasterSlaveConnection has read_preference SECONDARY.
RoutingInit ==
  /\ class \in {"ReplicaSetConnection", "MasterSlaveConnection"}
  /\ \E mode \in IF class = "MasterSlaveConnection" THEN {"SECONDARY"} ELSE RoutingModes :
       settings = [l \in Levels |-> [read_preference |-> mode, slave_okay |-> FALSE]]
  /\ inRequestMs = FALSE
  /\ sent = Nothing

----------------------------------------------------------------------------
(* Settings: each object has its own. *)

SetLevel(l, s) ==
  /\ settings' = [settings EXCEPT ![l] = s]
  /\ UNCHANGED <<class, inRequestMs, sent>>

SetReadPreference(l, mode) ==
  SetLevel(l, [settings[l] EXCEPT !.read_preference = mode])
SetSlaveOkay(l, b) == SetLevel(l, [settings[l] EXCEPT !.slave_okay = b])

GetDatabase == SetLevel("database", settings["connection"])
GetCollection == SetLevel("collection", settings["database"])

\* start_request and end_request
RequestMs(b) ==
  /\ class = "MasterSlaveConnection"
  /\ inRequestMs' = b
  /\ UNCHANGED <<settings, class, sent>>

----------------------------------------------------------------------------
(* A query, with the settings of its Cursor. *)

\* __query_options
QueryOptions(o) == o.slave_okay \/ o.read_preference # "PRIMARY"

\* _send_message_with_response of both classes.
Destinations(o, must_use_master) ==
  LET mode == IF must_use_master THEN "PRIMARY" ELSE o.read_preference
  IN  IF class = "MasterSlaveConnection"
      THEN IF must_use_master \/ inRequestMs THEN {"primary"} ELSE {"secondary"}
      ELSE CASE mode \in {"PRIMARY", "PRIMARY_PREFERRED"}     -> {"primary"}
             [] mode \in {"SECONDARY", "SECONDARY_PREFERRED"} -> {"secondary"}
             [] mode = "NEAREST"                              -> Roles

Query(by, writes, o, must_use_master) ==
  /\ \E to \in Destinations(o, must_use_master) :
       sent' = [by |-> by, writes |-> writes, to |-> to,
                slave_okay |-> QueryOptions(o)]
  /\ UNCHANGED <<settings, class, inRequestMs>>

Find == Query("collection", FALSE, settings["collection"], FALSE)

----------------------------------------------------------------------------
(* Database.command *)

\* name is the command as it was spelt, lower its lower case.
Command(by, writes, name, lower, inline, o, use_master) ==
  Query(by, writes, o,
        \/ use_master
        \/ lower \notin SecondaryOk
        \/ name = "mapreduce" /\ ~inline)

\* The methods of Collection and Cursor give their own settings.
UseMaster(o) == ~o.slave_okay /\ o.read_preference = "PRIMARY"

\* Mutant: the settings are those of the database.
ReadCommand_OfDatabase(name) ==
  LET o == settings["database"]
  IN  Command("collection", FALSE, name, name, FALSE, o, UseMaster(o))

ReadCommand(name) ==
  LET o == settings["collection"]
  IN  Command("collection", FALSE, name, name, FALSE, o, UseMaster(o))

Aggregate == ReadCommand("aggregate")
Group == ReadCommand("group")
Count == ReadCommand("count")
Distinct == ReadCommand("distinct")

InlineMapReduce ==
  LET o == settings["collection"]
  IN  Command("collection", FALSE, "mapreduce", "mapreduce", TRUE, o, UseMaster(o))

\* slave_okay is that of the database.
MapReduce(inline) ==
  Command("collection", ~inline, "mapreduce", "mapreduce", inline,
          [settings["collection"] EXCEPT
             !.slave_okay = settings["database"].slave_okay], ~inline)

FindAndModify ==
  Command("collection", TRUE, "findAndModify", "findandmodify", FALSE,
          settings["database"], FALSE)

\* Database.command as the user calls it, mapReduce in any spelling.
UserCommand(name, lower, writes) ==
  Command("database", writes, name, lower, ~writes, settings["database"], FALSE)

RoutingNext ==
  \/ \E l \in Levels :
       \/ \E mode \in RoutingModes : SetReadPreference(l, mode)
       \/ \E b \in BOOLEAN : SetSlaveOkay(l, b)
  \/ GetDatabase \/ GetCollection
  \/ \E b \in BOOLEAN : RequestMs(b) \/ MapReduce(b)
  \/ Find \/ Aggregate \/ Group \/ Count \/ Distinct
  \/ InlineMapReduce \/ FindAndModify
  \/ \E b \in BOOLEAN : UserCommand("mapReduce", "mapreduce", b)
  \/ UserCommand("dropIndexes", "dropindexes", TRUE)
  \/ UserCommand("collstats", "collstats", FALSE)

RoutingSpec == RoutingInit /\ [][RoutingNext]_routingVars

----------------------------------------------------------------------------
(* What the settings mean. *)

\* "mapreduce can go to secondaries only if inline", and no other method of a
\* collection that writes goes to a secondary, whatever its settings, those of
\* its database, and the class of the connection.
WritesOnPrimary ==
  sent'.by = "collection" /\ sent'.writes => sent'.to = "primary"

\* Every method of a collection that reads asks the server that the setting of
\* this collection asks for, not that of the database it has been taken from,
\* and tells a secondary that it may answer.
ReadsAsPreferred ==
  LET mode == settings["collection"].read_preference
  IN  class = "ReplicaSetConnection"
        /\ (Find \/ Aggregate \/ Group \/ Count \/ Distinct \/ InlineMapReduce
              \/ MapReduce(TRUE))
        => /\ mode \in {"PRIMARY", "PRIMARY_PREFERRED"} => sent'.to = "primary"
           /\ mode \in {"SECONDARY", "SECONDARY_PREFERRED"} => sent'.to = "secondary"
           /\ sent'.to = "secondary" => sent'.slave_okay

RoutedAsSet == [][WritesOnPrimary /\ ReadsAsPreferred]_routingVars
=============================================================================
