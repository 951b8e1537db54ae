----------------------------- MODULE MasterHost -----------------------------
(***************************************************************************)
(* The directory /home/ubuntu of the master host: Database.writeFile puts  *)
(* the code of a function there, swarm_exec.sh copies it to a node.  The   *)
(* path is the name of the file alone, so events of all users share it.    *)
(***************************************************************************)
EXTENDS LambdaTypes

VARIABLE disk   \* disk[f]: what /home/ubuntu/f holds

HostTypeOK == disk \in [FileNames -> Code]
HostInit == disk = [f \in FileNames |-> NoCode]
=============================================================================
