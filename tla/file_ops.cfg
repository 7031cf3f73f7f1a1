\* One request, one failure and one act of another program, in any order.
SPECIFICATION FairSpec
CONSTANTS
  Nodes = {"n1", "n2"}
  Paths <- Far
  Homes <- OneEach
  NoPath = NoPath
  Apart = TRUE
  Requests = {r1}
  MaxRequests = 1
  MaxFiles = 4
  MaxOutside = 1
  MaxFailures = 1
INVARIANTS
  TypeOK
  Tombstoned
PROPERTIES
  NewcomersSurvive
  Reconciles
  RetriesFinish
