------------------------- MODULE ClusterProperties -------------------------
(***************************************************************************)
(* What the autoscaler guarantees of the cluster and of the executions on  *)
(* it, and what the repository's documents say and the code does not keep. *)
(***************************************************************************)
EXTENDS ElasticCluster, ExecProperties

\* The VMs that a loop has booted, less those it has deleted.
Owed(l) ==
  scaler[l].provision + IF scaler[l].pc \in {"wait", "join"} THEN 1 ELSE 0

\* The cluster never gets smaller than it was set up: although any node may
\* be deleted, one that is already gone twice, although a VM that never joined
\* counts, and although two loops, which know nothing of each other, delete each
\* other's VMs and give theirs the same names, every deletion has a boot before
\* it.
NeverBelowSeed ==
  Cardinality(vms) + Cardinality(doubled)
    >= Cardinality(Seed) + Owed(1) + Owed(2)

\* Loop l has booted a VM of the name n.
Named(l, n) ==
  n < scaler[l].vm \/ (n = scaler[l].vm /\ scaler[l].pc \in {"wait", "join"})

\* A loop waits in vain for the address of a VM only if the other loop has given
\* a VM the same name, too: one loop alone never deletes a VM it waits for and
\* never boots a name twice, however late deleted nodes are still listed.
OnlyTwinsBlock ==
  \A l \in Loops :
    (scaler[l].pc = "wait" /\ scaler[l].vm \notin vms \ doubled) =>
      \E k \in Loops \ {l} : Named(k, scaler[l].vm)

\* What the containers really reserve, in MiB, and what the nodes have.
TrueUsed == MapThenSumSet(LAMBDA n : Reserved(n), listed)
TrueTotal == Cardinality(listed) * NodeMemory

\* The sum of numbers without their units never makes a cluster look idle
\* that is not: a deletion is only decided at less than 30 % of the memory.
LowIsTrue ==
  State(ShownUsed, ShownTotal) = "LOW" => 10 * TrueUsed < 3 * TrueTotal

\* When no container is left for good, the VMs that were added go again.
ScalesDown ==
  <>[](containers = {}) => <>[](\A l \in Loops : scaler[l].provision = 0)

----------------------------------------------------------------------------
(* Said, and not so. *)

\* Doc/InitialSetup.txt: nodes are provisioned per the load on the cluster; a
\* cluster with more than 70 % of its memory reserved gets another node.
OverloadIsSeen ==
  (10 * TrueUsed > 7 * TrueTotal /\ TrueUsed < TrueTotal) =>
    State(ShownUsed, ShownTotal) = "EXCEEDED"
=============================================================================
