SPECIFICATION ApiSpec
CONSTANTS
  Users = {u1, u2}
  FileNames = {f1}
  Sources = {s1}
  Types = {t1}
  Memories = {1}
  MaxEvents = 0
  MaxId = 3
  MaxChunks = 2
  Requests = {r1, r2}
  Operations = {"upload", "register", "update", "delete"}
  UpdateFields = {"etype"}
  LastUploadId = 3
SYMMETRY Symmetry
INVARIANTS
  FilesComplete
  MappingMatchesFile
  ApiInv
PROPERTY DeletesOnlyItsFunction
