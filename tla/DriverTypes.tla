---------------------------- MODULE DriverTypes ----------------------------
(***************************************************************************)
(* What the models of the vendored driver, pymongo 2.3, have in common.    *)
(***************************************************************************)
CONSTANTS Threads,       \* the threads of the process
          Sockets,       \* the sockets that may be opened in a run
          NoSocket,
          NO_REQUEST, NO_SOCKET_YET,   \* of a thread without a request socket
          Members,       \* the hosts of the replica set
          NoMember

ASSUME DriverAssumption ==
  /\ NoSocket \notin Sockets /\ NoMember \notin Members
  /\ NO_REQUEST \notin Sockets /\ NO_SOCKET_YET \notin Sockets
  /\ NO_REQUEST # NO_SOCKET_YET
=============================================================================
