CONSTANTS
  Candidates = {1, 2, 3}
  BatchSize = 2
SPECIFICATION ReviewSpec
INVARIANTS SessionProcessesTheQueue
CHECK_DEADLOCK FALSE
