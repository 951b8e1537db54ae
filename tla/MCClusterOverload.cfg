SPECIFICATION ClusterSpec
CONSTANTS
  Users = {u1}
  FileNames = {f1}
  Sources = {s1}
  Types = {t1}
  Memories = {700, 4096}
  MaxId = 1
  MaxChunks = 1
  MaxEvents = 3
  Nodes = {0, 1, 2, 3}
  Seed = {0, 1, 2}
  NodeMemory = 4096
  MaxRetries = 1
  Noisy = {}
  Faults = {}
  FirstVm = 3
  LastVm = 3
  LimitTime = 15
  JoinFaults = FALSE
  LateListing = FALSE
  Restarted = FALSE
CHECK_DEADLOCK FALSE
INVARIANT OverloadIsSeen
