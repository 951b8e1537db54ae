------------------------------- MODULE Swarm -------------------------------
(***************************************************************************)
(* The OpenStack VMs and the Docker Swarm on them, which swarm_exec.sh     *)
(* uses and awk_test.sh resizes.  Both are external: the module states     *)
(* what the scripts rely on.                                               *)
(***************************************************************************)
EXTENDS LambdaTypes, FiniteSetsExt

CONSTANTS
  Nodes,      \* numbers of the VMs child-vm-<n>
  Seed,       \* the VMs that cluster_init.sh and cluster_setup.sh created
  NodeMemory  \* memory of a node, in MiB

ASSUME SwarmAssumption ==
  /\ Nodes \subseteq Nat
  /\ Seed \subseteq Nodes /\ IsFiniteSet(Seed)
  /\ NodeMemory \in Nat \ {0}

VARIABLES
  vms,         \* the nodes that nova has a VM for
  doubled,     \* those it has two VMs of the same name for
  joined,      \* the nodes with a VM that runs the agent of the swarm
  listed,      \* the nodes the swarm manager lists
  containers,  \* the containers of the executions on the listed nodes, as the
               \* manager knows them
  nodeFile     \* nodeFile[n][f]: what /home/ubuntu/f holds on node n

nodeVars == <<vms, doubled, joined, listed>>
swarmVars == <<nodeVars, containers, nodeFile>>

Container == [run : Runs, node : Nodes, memory : Nat, up : BOOLEAN]

SwarmTypeOK ==
  /\ vms \subseteq Nodes /\ doubled \subseteq vms /\ joined \subseteq vms
  /\ listed \subseteq Nodes
  /\ containers \subseteq Container
  /\ nodeFile \in [Nodes -> [FileNames -> Code]]

SwarmInit ==
  /\ vms = Seed /\ doubled = {} /\ joined = Seed
  /\ listed = Seed
  /\ containers = {}
  /\ nodeFile = [n \in Nodes |-> [f \in FileNames |-> NoCode]]

----------------------------------------------------------------------------
OnNode(n) == {c \in containers : c.node = n}
ContainersOf(e) == {c \in containers : c.run = e}

\* The memory that containers reserve on a node.
Reserved(n) == MapThenSumSet(LAMBDA c : c.memory, OnNode(n))

\* docker create, with the binpack strategy of cluster_setup.sh: the node
\* with the most reserved memory among those that have room.
Fitting(m) == {n \in listed \intersect joined : Reserved(n) + m <= NodeMemory}
Packed(m) ==
  {n \in Fitting(m) : \A k \in Fitting(m) : Reserved(k) <= Reserved(n)}

CreateContainer(e, m) ==
  \E n \in Packed(m) :
    containers' = containers \union
                    {[run |-> e, node |-> n, memory |-> m, up |-> FALSE]}

\* The containers on machines that are there: the manager keeps those of a
\* node that is gone until it stops listing the node.
LiveContainersOf(e) == {c \in ContainersOf(e) : c.node \in joined}

\* nova boot, which does not mind that there is a VM of that name.
BootVm(n) ==
  /\ vms' = vms \union {n}
  /\ doubled' = doubled \union ({n} \intersect vms)
  /\ UNCHANGED <<joined, listed, containers, nodeFile>>

\* nova delete takes the VM and its disk; a name that is unknown, or that of two
\* VMs, is an error.
DeleteVm(n) ==
  LET gone == {n} \ doubled
  IN  /\ vms' = vms \ gone
      /\ joined' = joined \ gone
      /\ nodeFile' = [k \in Nodes |-> IF k \in gone
                                       THEN [f \in FileNames |-> NoCode]
                                       ELSE nodeFile[k]]
      /\ UNCHANGED <<doubled, listed, containers>>

\* swarm join: the agent runs on the VM.
JoinSwarm(n) ==
  /\ joined' = joined \union {n}
  /\ UNCHANGED <<vms, doubled, listed, containers, nodeFile>>

\* The discovery service learns of a node by the heartbeat of its agent, and
\* forgets it when the time to live of the last one is over.
ListNode(n) ==
  /\ n \in joined \ listed
  /\ listed' = listed \union {n}
  /\ UNCHANGED <<vms, doubled, joined, containers, nodeFile>>

UnlistNode(n) ==
  /\ n \in listed \ joined
  /\ listed' = listed \ {n}
  /\ containers' = {c \in containers : c.node # n}
  /\ UNCHANGED <<vms, doubled, joined, nodeFile>>
=============================================================================
