SPECIFICATION ServiceSpec
CONSTANTS
  Users = {u1}
  FileNames = {f1, f2}
  Sources = {s1}
  Types = {t1}
  Memories = {1}
  MaxId = 3
  MaxChunks = 1
  MaxEvents = 1
  DefaultMemory = 2
  None = None
  Requests = {r1}
  Operations = {"upload", "register"}
  UpdateFields = {}
  LastUploadId = 2
CHECK_DEADLOCK FALSE
INVARIANT RunsTheFunctionOfTheEvent
