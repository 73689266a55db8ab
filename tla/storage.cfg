CONSTANTS
  RawPayloads <- MCRawPayloads
  Targets <- MCTargets
  MaxApplied = 3
  FileNotes = {n1}
  Titles = {t1, t2}
  Payloads <- MCPayloads
  Long <- MCLong
  MaxEvents = 2
  MaxFaults = 2
  linking = linking
  linked = linked
  outside = outside
  Notes = {linking, linked}
  None = None
  Labels = {"l1", "l2", "l3"}
  AnchorIds = {"a1"}
  Uris = {outside}
  Texts <- MCTexts
  Callers = {c1}
  MaxAppends = 3
  MaxCalls = 1
  WindowLines = 0
  ChunkSize = 1
  GraphNotes = {g1, g2}
  Projects = {p1}
  NoProject = NoProject
  Topics = {t1}
  Lines = 1
  MaxBursts = 3
  MaxRequests = 2
  MaxFailures = 1
  MemoryNotes = {m1}
  Names = {t1}
  Bodies = {b1, bad}
  Malformed = {bad}
  Appenders = {c1, c2}
  MaxStream = 3
  Boxes <- MCBoxes
  TodoEvents <- MCTodoEvents
  TodoDocuments <- MCTodoDocuments
  TodoClients = {r1, r2}
  MaxTodoEvents = 3
  MaxMoves = 1
SYMMETRY Symmetry
SPECIFICATION StorageSpec
INVARIANTS StorageTypeOK SnapshotsAreOnlyAnOptimisation    SearchFindsText LoneSyncRepairs StableLinksStay RelabelKeepsText PendingPairsResolve NoPairIsMissed  EditsAreCovered IndexIsTheScan
PROPERTIES ReviewIsKept ImplementsMemoryLog StatusIsTheBoards
CHECK_DEADLOCK FALSE
