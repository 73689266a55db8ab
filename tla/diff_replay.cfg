CONSTANTS
  RawPayloads <- MCRawPayloads
  Targets <- MCTargets
  MaxApplied = 3
SPECIFICATION CoreSpec
INVARIANTS DiffReplaysToTarget
CHECK_DEADLOCK FALSE
