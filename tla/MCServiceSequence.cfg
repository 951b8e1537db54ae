SPECIFICATION FairServiceSpec
CONSTANTS
  Users = {u1}
  FileNames = {f1}
  Sources = {s1, s2}
  Types = {t1}
  Memories = {1}
  MaxId = 4
  MaxChunks = 1
  MaxEvents = 2
  DefaultMemory = 2
  None = None
  Requests = {r1, r2}
  Operations = {"upload", "register", "update"}
  UpdateFields = {"source"}
  LastUploadId = 2
CHECK_DEADLOCK FALSE
INVARIANTS
  ThreadsRecorded
  
PROPERTY EventHandled
