----------------------------- MODULE MCCluster -----------------------------
(***************************************************************************)
(* Model checking of executions on the elastic cluster.                    *)
(***************************************************************************)
EXTENDS ClusterProperties, TLC
=============================================================================
