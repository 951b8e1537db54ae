------------------------------ MODULE MCDriver ------------------------------
(***************************************************************************)
(* Model checking of the vendored driver, pymongo 2.3.  The models of its  *)
(* parts share no state, so each of them is checked alone, from an initial *)
(* state that says which part it is, and the variables of the others are   *)
(* at rest.  The threads, the members and the sockets are the same model   *)
(* values for all parts.                                                   *)
(***************************************************************************)
EXTENDS Driver, TLC

VARIABLE part

MCLimits == {-2, 0, 1, 3}

Symmetry == Permutations(Threads) \union Permutations(Members)

\* A Connection that nobody uses, and that is not logged in.
DiscoveryRests ==
  /\ conn = [host |-> NoMember, nodes |-> Members, checked |-> FALSE]
  /\ sock = [t \in Threads |-> Closed]
  /\ task = [t \in Threads |-> DoingTask("idle", "none")]
  /\ replset = [up |-> Members, primary |-> NoMember, faults |-> 0]

AuthRests == AuthInit /\ ~auto

\* A ReplicaSetConnection without members.
RsRests ==
  /\ member = [n \in Members |-> 0]
  /\ object = [n \in Members |-> [k \in 1..MaxObjects |-> NoFields]]
  /\ writer = NoMember
  /\ pinned = [t \in RsThreads |-> NoMember]
  /\ inRequest = FALSE
  /\ monitor = [event |-> FALSE, stopped |-> TRUE, failed |-> FALSE]
  /\ proc = [p \in Procs |-> Ready(p)]
  /\ replica = [primary |-> NoMember, elections |-> 0]

CursorRests == CursorInit /\ kind = "ReplicaSetConnection"

RoutingRests ==
  /\ RoutingInit
  /\ class = "MasterSlaveConnection"

\* No process has started.
OidRests ==
  /\ clock = 0
  /\ process = [p \in Pids |-> [started |-> FALSE, inc |-> 0, count |-> 0]]
  /\ making = [t \in Pids \X Threads |-> NoTime]
  /\ oids = {}

Parts == {"pool", "discovery", "credentials", "logins", "elections", "requests",
          "indexes", "documents", "cursor", "gridfs", "routing", "ids"}
OfAuth == {"credentials", "logins"}
OfRs == {"elections", "requests"}
OfCollection == {"indexes", "documents"}

MCDriverInit ==
  /\ part \in Parts
  /\ PoolInit /\ CollectionInit /\ GridInit
  /\ IF part = "discovery" THEN DiscoveryInit ELSE DiscoveryRests
  /\ IF part \in OfAuth THEN AuthInit ELSE AuthRests
  /\ IF part \in OfRs THEN RsInit ELSE RsRests
  /\ IF part = "cursor" THEN CursorInit ELSE CursorRests
  /\ IF part = "routing" THEN RoutingInit ELSE RoutingRests
  /\ IF part = "ids" THEN OidInit ELSE OidRests

\* The step of a part, and the variables of the others.
Step(name, next, others) == part = name /\ next /\ UNCHANGED <<part, others>>

someVars == <<poolVars, discoveryVars, authVars, rsVars, collectionVars>>
otherVars == <<cursorVars, gridVars, routingVars, oidVars>>
ofPool == <<discoveryVars, authVars, rsVars, collectionVars, otherVars>>
ofDiscovery == <<poolVars, authVars, rsVars, collectionVars, otherVars>>
ofAuth == <<poolVars, discoveryVars, rsVars, collectionVars, otherVars>>
ofRs == <<poolVars, discoveryVars, authVars, collectionVars, otherVars>>
ofCollection == <<poolVars, discoveryVars, authVars, rsVars, otherVars>>
ofCursor == <<someVars, gridVars, routingVars, oidVars>>
ofGrid == <<someVars, cursorVars, routingVars, oidVars>>
ofRouting == <<someVars, cursorVars, gridVars, oidVars>>
ofOid == <<someVars, cursorVars, gridVars, routingVars>>

\* Three parts are checked under two bounds each: the credentials of "admin"
\* between threads, and those of all databases with one thread at a time; a
\* replica set with elections, in a request, and one with requests that begin
\* and end; the indexes of collections without documents, and documents
\* without indexes.
OfAdmin == \A t \in Threads : auth'[t].db = Admin
OneAtATime == Cardinality({t \in Threads : auth'[t].pc # "idle"}) <= 1

MCDriverNext ==
  \/ Step("pool", PoolNext, ofPool)
  \/ Step("discovery", DiscoveryNext, ofDiscovery)
  \/ Step("credentials", AuthNext /\ OfAdmin, ofAuth)
  \/ Step("logins", AuthNext /\ OneAtATime, ofAuth)
  \/ Step("elections", RsNext /\ UNCHANGED inRequest, ofRs)
  \/ Step("requests", RsNext /\ UNCHANGED replica, ofRs)
  \/ Step("indexes", CollectionNext /\ UNCHANGED <<stored, idOf, drawn>>, ofCollection)
  \/ Step("documents", CollectionNext /\ UNCHANGED <<indexes, indexCache>>, ofCollection)
  \/ Step("cursor", CursorNext, ofCursor)
  \/ Step("gridfs", GridNext, ofGrid)
  \/ Step("routing", RoutingNext, ofRouting)
  \/ Step("ids", OidNext, ofOid)

\* What tells two states apart: the variables of the other parts never change.
View ==
  <<part, CASE part = "pool"        -> poolVars
            [] part = "discovery"   -> discoveryVars
            [] part \in OfAuth -> authVars
            [] part \in OfRs -> rsVars
            [] part \in OfCollection -> collectionVars
            [] part = "cursor"      -> cursorVars
            [] part = "gridfs"      -> gridVars
            [] part = "routing"     -> routingVars
            [] part = "ids"         -> oidVars>>

MCDriverSpec == MCDriverInit /\ [][MCDriverNext]_<<part, someVars, otherVars>>
=============================================================================
