----------------------------- MODULE Autoscaler -----------------------------
(***************************************************************************)
(* The loop of awk_test.sh, which resizes the cluster to its load, and     *)
(* provisionVM.sh, which the loop calls and waits for.  When the services  *)
(* are stopped, the loop goes on; started again, they bring a second loop, *)
(* which counts from the beginning and gives its VMs the same names.       *)
(*                                                                         *)
(* Definitions named X_Y are faulty variants of X that the properties must *)
(* tell from X; no specification uses them.                                *)
(***************************************************************************)
EXTENDS Swarm

CONSTANTS
  FirstVm,       \* the number of the first VM it boots, 180 in the script
  LastVm,        \* bound: the number of the last one
  LimitTime,     \* seconds of LOW before a node may go, 15 in the script
  JoinFaults,    \* may swarm join fail?
  LateListing,   \* may a deleted node still be listed at the next deletion?
  Restarted      \* may the services be stopped and started again?

ASSUME ScalerAssumption ==
  /\ FirstVm \in Nat /\ LastVm \in Nat
  /\ FirstVm..LastVm \subseteq Nodes \ Seed
  /\ LimitTime \in Nat
  /\ JoinFaults \in BOOLEAN
  /\ LateListing \in BOOLEAN
  /\ Restarted \in BOOLEAN

VARIABLE
  scaler  \* the variables of every loop, and where it is

\* The loop of the first start of the services, and that of the second.
Loops == {1, 2}

ScalerTypeOK ==
  scaler \in [Loops ->
    [pc : {"off", "info", "pick", "delete", "boot", "wait", "join"},
     duration : Nat, provision : Nat, vm : Nat, victim : Nodes \union {0}]]

ScalerInit ==
  scaler = [l \in Loops |->
              [pc |-> IF l = 1 THEN "info" ELSE "off", duration |-> 0,
               provision |-> 0, vm |-> FirstVm, victim |-> 0]]

Becomes(l, s) == scaler' = [scaler EXCEPT ![l] = s]

\* start-lambda-service.sh, again.
StartAgain ==
  /\ Restarted
  /\ scaler[2].pc = "off"
  /\ Becomes(2, [scaler[2] EXCEPT !.pc = "info"])
  /\ UNCHANGED swarmVars

----------------------------------------------------------------------------
(* The state of the cluster, as awk reads it off docker info. *)

\* docker info prints "512 MiB" and "3.8 GiB", awk adds up 512 and 3.8: a
\* number without its unit, here in units of 1/1024.
Shown(mib) == IF mib < 1024 THEN 1024 * mib ELSE mib

ShownUsed == MapThenSumSet(LAMBDA n : Shown(Reserved(n)), listed)
ShownTotal == Cardinality(listed) * Shown(NodeMemory)

State_OneLimit(used, total) ==
  CASE 10 * used > 7 * total /\ used < total -> "EXCEEDED"
    [] 10 * used <= 7 * total -> "LOW"
    [] OTHER -> "INLIMIT"

\* ULIMIT and LLIMIT are 0.7 and 0.3; a sum that is not below the total is
\* INLIMIT.
State(used, total) ==
  CASE 10 * used > 7 * total /\ used < total -> "EXCEEDED"
    [] 10 * used < 3 * total -> "LOW"
    [] OTHER -> "INLIMIT"

----------------------------------------------------------------------------
(* A cycle of the loop. *)

\* No node is listed: awk prints nothing, and no test is true.
NothingListed == listed = {} /\ UNCHANGED scaler

SeesLow_SeedToo(l) ==
  LET s == scaler[l]
  IN  /\ listed # {} /\ State(ShownUsed, ShownTotal) = "LOW"
      /\ Becomes(l, IF s.duration > LimitTime
                    THEN [s EXCEPT !.pc = "pick"]
                    ELSE [s EXCEPT !.duration = @ + 5])

SeesLow_NoWatch(l) ==
  LET s == scaler[l]
  IN  /\ listed # {} /\ State(ShownUsed, ShownTotal) = "LOW"
      /\ Becomes(l, IF s.provision > 0 /\ s.duration > LimitTime
                    THEN [s EXCEPT !.pc = "pick"] ELSE s)

\* More than LimitTime of LOW, not necessarily in a row, ends in a deletion.
SeesLow(l) ==
  LET s == scaler[l]
  IN  /\ listed # {} /\ State(ShownUsed, ShownTotal) = "LOW"
      /\ Becomes(l, CASE s.provision = 0 -> s
                      [] s.provision > 0 ->
                           IF s.duration > LimitTime
                           THEN [s EXCEPT !.pc = "pick"]
                           ELSE [s EXCEPT !.duration = @ + 5])

SeesExceeded(l) ==
  /\ listed # {} /\ State(ShownUsed, ShownTotal) = "EXCEEDED"
  /\ scaler[l].vm <= LastVm
  /\ Becomes(l, [scaler[l] EXCEPT !.pc = "boot"])

Observe(l) ==
  /\ scaler[l].pc = "info"
  /\ NothingListed \/ SeesLow(l) \/ SeesExceeded(l)
  /\ UNCHANGED swarmVars

\* A second docker info: the last node in the list that has no container but
\* the agent of the swarm.
Unused == {n \in listed : OnNode(n) = {}}

Pick(l) ==
  /\ scaler[l].pc = "pick"
  /\ LateListing \/ listed \subseteq joined
  /\ Becomes(l, IF Unused = {} THEN [scaler[l] EXCEPT !.pc = "info"]
                ELSE [scaler[l] EXCEPT !.pc = "delete", !.victim = Max(Unused)])
  /\ UNCHANGED swarmVars

Delete_NoCount(l) ==
  /\ scaler[l].pc = "delete"
  /\ DeleteVm(scaler[l].victim)
  /\ Becomes(l, [scaler[l] EXCEPT !.pc = "info", !.duration = 0, !.victim = 0])

\* nova delete, whatever has happened to the node since.
Delete(l) ==
  /\ scaler[l].pc = "delete"
  /\ DeleteVm(scaler[l].victim)
  /\ Becomes(l, [scaler[l] EXCEPT !.pc = "info", !.duration = 0,
                                  !.provision = @ - 1, !.victim = 0])

----------------------------------------------------------------------------
(* provisionVM.sh *)

Boot(l) ==
  /\ scaler[l].pc = "boot"
  /\ BootVm(scaler[l].vm)
  /\ Becomes(l, [scaler[l] EXCEPT !.pc = "wait"])

\* nova show has the address of the active VM.  It has none, and is asked for
\* ever, of a VM that ends in an error, and of a name that two VMs have or none.
Address(l) ==
  /\ scaler[l].pc = "wait"
  /\ scaler[l].vm \in vms \ doubled
  /\ Becomes(l, [scaler[l] EXCEPT !.pc = "join"])
  /\ UNCHANGED swarmVars

Join_SameName(l) ==
  LET n == scaler[l].vm
  IN  /\ scaler[l].pc = "join"
      /\ n \in vms \ listed /\ JoinSwarm(n)
      /\ Becomes(l, [scaler[l] EXCEPT !.pc = "info", !.provision = @ + 1])

\* configVM.sh, tried until it succeeds, and swarm join, tried once; the loop
\* counts the VM either way.  With the 20 s before the join this takes longer
\* than the time to live of a node of that name that was deleted.
Join(l) ==
  LET n == scaler[l].vm
  IN  /\ scaler[l].pc = "join"
      /\ \/ n \in vms \ listed /\ JoinSwarm(n)
         \/ (JoinFaults \/ n \notin vms) /\ UNCHANGED swarmVars
      /\ Becomes(l, [scaler[l] EXCEPT !.pc = "info", !.provision = @ + 1,
                                      !.vm = @ + 1])

----------------------------------------------------------------------------
LoopStep(l) ==
  Observe(l) \/ Pick(l) \/ Delete(l) \/ Boot(l) \/ Address(l) \/ Join(l)

\* The agents of the nodes and the discovery service.
DiscoveryStep ==
  /\ \E n \in Nodes : ListNode(n) \/ UnlistNode(n)
  /\ UNCHANGED scaler

ScalerNext == (\E l \in Loops : LoopStep(l)) \/ StartAgain \/ DiscoveryStep
=============================================================================
