SPECIFICATION Spec
CONSTANTS
  MaxSeq = 2
  PageSize = 1
  MaxConns = 2
  MaxMounts = 2
  MaxFailures = 0
INVARIANTS
  NothingMissed
CHECK_DEADLOCK FALSE
