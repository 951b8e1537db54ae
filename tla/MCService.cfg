SPECIFICATION ServiceSpec
CONSTANTS
  Users = {u1, u2}
  FileNames = {f1}
  Sources = {s1}
  Types = {t1}
  Memories = {1}
  MaxId = 5
  MaxChunks = 1
  MaxEvents = 2
  DefaultMemory = 2
  None = None
  Requests = {r1}
  Operations = {"upload", "register", "update", "delete"}
  UpdateFields = {}
  LastUploadId = 3
SYMMETRY Symmetry
CHECK_DEADLOCK FALSE
INVARIANTS
  ServiceTypeOK
  StartsInOrder
  CodeOfUser
  RecordsAreNoFiles
  ServiceInv
PROPERTIES
  ImplementsDelivery
