SPECIFICATION MCDriverSpec
CONSTANTS
  Threads = {t1, t2}
  Sockets = {n1, n2}
  NoSocket = NoSocket
  NO_REQUEST = NO_REQUEST
  NO_SOCKET_YET = NO_SOCKET_YET
  Members = {n1, n2}
  NoMember = NoMember
  MaxSize = 1
  MaxResets = 1
  MaxForks = 1
  MaxFaults = 1
  MaxNested = 0
  Databases = {admin, d1}
  Admin = admin
  RsThreads = {r1}
  Monitor = Monitor
  Modes = {"PRIMARY", "SECONDARY"}
  MaxObjects = 1
  MaxElections = 1
  Docs = 3
  Skips = {0, 1}
  Limits <- MCLimits
  BatchSizes = {0, 1}
  MaxQueries = 2
  MaxDying = 1
  Writers = {t1, t2}
  Readers = {r1}
  NoWriter = NoWriter
  chunkSize = 3
  MaxBytes = 4
  WriteSizes = {0, 2, 4}
  ReadSizes = {2}
  Positions = {1}
  Names = {n1, n2}
  Indexes = {i1}
  Dicts = {x1}
  MaxDraws = 2
  RoutingModes = {"PRIMARY", "SECONDARY", "NEAREST"}
  Pids = {1, 2}
  PidMod = 3
  IncMod = 2
  MaxTime = 1
  MaxOids = 3
SYMMETRY Symmetry
VIEW View
CHECK_DEADLOCK FALSE
INVARIANTS
  DriverTypeOK
  SocketExclusive
  HostIsChecked
  NoStaleReply
  
  DownIsRefreshed
  
  CursorsEnd
  EnsuredExists
  IdsUnique
PROPERTIES
  StaleNoticed
  ReadsWritten
  RoutedAsSet
