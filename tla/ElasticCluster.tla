--------------------------- MODULE ElasticCluster ---------------------------
(***************************************************************************)
(* Executions on a cluster that the autoscaler resizes.  The scripts and   *)
(* the autoscaler know nothing of each other: they meet in what the swarm  *)
(* manager lists and in the VMs.  Events come at any time: what the        *)
(* callback of the listener does to the host and to the threads is one     *)
(* step here.                                                              *)
(***************************************************************************)
EXTENDS LambdaExec, Autoscaler

clusterVars == <<execVars, swarmVars, scaler, disk>>

ClusterInit == ExecInit /\ SwarmInit /\ HostInit /\ ScalerInit

\* Database.writeFile and SpawnThread of EventListener.
Arrive(e, f, m) ==
  /\ thr[e] = NoThread
  /\ \A k \in Runs : k < e => thr[k] # NoThread
  /\ disk' = [disk EXCEPT ![f] = [by |-> e, id |-> 1]]
  /\ StartThread(e, f, m)
  /\ UNCHANGED swarmVars

\* The listener process is stopped; a later one starts new threads.
ListenerStops ==
  /\ ThreadsDie
  /\ UNCHANGED <<swarmVars, disk>>

ClusterNext ==
  \/ /\ \E e \in Runs, f \in FileNames, m \in Memories : Arrive(e, f, m)
     /\ UNCHANGED scaler
  \/ ListenerStops /\ UNCHANGED scaler
  \/ ExecNext /\ UNCHANGED scaler
  \/ ScalerNext /\ UNCHANGED <<execVars, disk>>

ClusterSpec == ClusterInit /\ [][ClusterNext]_clusterVars

\* The loop goes on, Nova boots what it accepted, the agents send their
\* heartbeats, the scripts and threads run.
ClusterFairness ==
  /\ \A l \in Loops :
       WF_clusterVars(LoopStep(l) /\ UNCHANGED <<execVars, disk>>)
  /\ \A n \in Nodes :
       /\ WF_clusterVars(ListNode(n)
                         /\ UNCHANGED <<execVars, scaler, disk>>)
       /\ WF_clusterVars(UnlistNode(n)
                         /\ UNCHANGED <<execVars, scaler, disk>>)
  /\ \A e \in Runs :
       WF_clusterVars(ExecStep(e) /\ UNCHANGED <<scaler, disk>>)

FairClusterSpec == ClusterSpec /\ ClusterFairness

ClusterTypeOK == ExecTypeOK /\ ScalerTypeOK
=============================================================================
