\* A sweep that read the row before a move destroys it after the move.
SPECIFICATION Spec
CONSTANTS
  Nodes = {"n1"}
  Paths <- Near
  Homes <- Near
  NoPath = NoPath
  Apart = FALSE
  Requests = {r1}
  MaxRequests = 1
  MaxFiles = 4
  MaxOutside = 0
  MaxFailures = 0
PROPERTIES
  MoveKeepsFile
