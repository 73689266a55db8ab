CONSTANTS
  MaxMishaps = 0
SPECIFICATION IndexSpec
INVARIANTS OlderDatabasesStart
CHECK_DEADLOCK FALSE
