SPECIFICATION FairClusterSpec
CONSTANTS
  Users = {u1}
  FileNames = {f1}
  Sources = {s1}
  Types = {t1}
  Memories = {512, 3072}
  MaxId = 1
  MaxChunks = 1
  MaxEvents = 2
  Nodes = {0, 1}
  Seed = {0}
  NodeMemory = 4096
  MaxRetries = 1
  Noisy = {}
  Faults = {"create"}
  FirstVm = 1
  LastVm = 1
  LimitTime = 15
  JoinFaults = TRUE
  LateListing = TRUE
  Restarted = FALSE
CHECK_DEADLOCK FALSE
INVARIANTS
  LowIsTrue
PROPERTIES
  
  
  ThreadsEnd
