SPECIFICATION ClusterSpec
CONSTANTS
  Users = {u1}
  FileNames = {f1}
  Sources = {s1}
  Types = {t1}
  Memories = {3072}
  MaxId = 1
  MaxChunks = 1
  MaxEvents = 1
  Nodes = {0, 1, 2, 3}
  Seed = {0}
  NodeMemory = 4096
  MaxRetries = 1
  Noisy = {}
  Faults = {"create", "remove"}
  FirstVm = 1
  LastVm = 3
  LimitTime = 15
  JoinFaults = TRUE
  LateListing = TRUE
  Restarted = TRUE
CHECK_DEADLOCK FALSE
INVARIANTS
  ClusterTypeOK
  
  
  
 
