CONSTANTS
  WindowLines = 0
  ChunkSize = 1
  GraphNotes = {n1, n2}
  Projects = {p1}
  NoProject = NoProject
  Topics = {t1}
  Lines = 1
  MaxBursts = 2
  MaxRequests = 2
  MaxFailures = 0
SPECIFICATION GraphSpec
PROPERTIES PromotedOnce
