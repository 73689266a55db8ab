CONSTANTS
  WindowLines = 2
  ChunkSize = 20
  GraphNotes = {n1, n2}
  Projects = {p1}
  NoProject = NoProject
  Topics = {t1}
  Lines = 4
  MaxBursts = 1
  MaxRequests = 0
  MaxFailures = 0
SPECIFICATION GraphSpec
PROPERTIES ExtractionNeverPanics
