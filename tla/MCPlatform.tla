----------------------------- MODULE MCPlatform -----------------------------
(***************************************************************************)
(* Model checking of the executions, from a state of the database that     *)
(* uploads and registrations lead to: every user has registered one        *)
(* function, and all functions have the same file name.                    *)
(***************************************************************************)
EXTENDS PlatformProperties, TLC

\* The order in which the users came.
Order ==
  CHOOSE order \in [Users -> 1..Cardinality(Users)] :
    \A u, v \in Users : order[u] = order[v] => u = v

Registered(u) ==
  [id |-> Order[u], pos |-> Order[u], user |-> u,
   file |-> CHOOSE f \in FileNames : TRUE,
   source |-> CHOOSE s \in Sources : TRUE,
   etype |-> CHOOSE t \in Types : TRUE,
   memory |-> CHOOSE m \in Memories : TRUE, seq |-> 0, run |-> NoRun]

MCInit ==
  /\ mapping = {Registered(u) : u \in Users}
  /\ files = {[id |-> Order[u], user |-> u, name |-> Registered(u).file,
               size |-> 1] : u \in Users}
  /\ chunks = UNION {ChunksOf(Order[u], 1) : u \in Users}
  /\ nextId = Cardinality(Users) + 1
  /\ req = [r \in Requests |-> Idle]
  /\ ListenerInit
  /\ ExecInit
  /\ SwarmInit

MCSpec == MCInit /\ [][PlatformNext]_platformVars
=============================================================================
