SPECIFICATION MCSpec
CONSTANTS
  Users = {u1, u2}
  FileNames = {f1}
  Sources = {s1}
  Types = {t1}
  Memories = {1}
  MaxId = 4
  MaxChunks = 1
  MaxEvents = 2
  DefaultMemory = 2
  None = None
  Requests = {r1}
  Operations = {}
  UpdateFields = {}
  LastUploadId = 2
  Nodes = {0}
  Seed = {0}
  NodeMemory = 1
  MaxRetries = 1
  Noisy = {}
  Faults = {}
CHECK_DEADLOCK FALSE
INVARIANT RunsItsUsersCode
