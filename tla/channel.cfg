SPECIFICATION FairSpec
CONSTANTS
  MaxSeq = 2
  PageSize = 1
  MaxConns = 2
  MaxMounts = 2
  MaxFailures = 1
INVARIANTS
  TypeOK
  LiveIsComplete
PROPERTIES
  ShowsABeginning
  LoadingEnds
  CatchesUp
CHECK_DEADLOCK FALSE
