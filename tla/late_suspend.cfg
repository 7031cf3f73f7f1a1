\* A suspend that read the record before a close writes after it.
SPECIFICATION Spec
CONSTANTS
  MaxRuns = 2
  Msgs = {m1}
  NoMsg = NoMsg
  Verbs = {"send", "close"}
  MayFailStart = FALSE
  MayFailStore = FALSE
  MaxCrashes = 0
  MaxAsks = 0
  MaxQueue = 1
  CreatedRunning = FALSE
PROPERTIES
  TableFollowed
\* A thread nobody writes to any more rests.
CHECK_DEADLOCK FALSE
