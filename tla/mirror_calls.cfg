\* A store and the watcher work on the copy that a run synchronises.
SPECIFICATION Spec
CONSTANTS
  Devices = {d1}
  Busy = {d1}
  Calls = {"store", "watch"}
  MaxEdits = 2
  MaxFailures = 1
  OutOfBand = TRUE
INVARIANTS
  BaselineWasRemote
  HashDescribesCopy
PROPERTIES
  LocalWorkSurvives
