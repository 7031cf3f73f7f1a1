\* What must eventually happen while nothing but the process may fail: it dies
\* at most once, at any step, and boots while users write.
SPECIFICATION Spec
CONSTANTS
  MaxRuns = 2
  Msgs = {m1}
  NoMsg = NoMsg
  Verbs = {"send", "close", "handoff"}
  MayFailStart = FALSE
  MayFailStore = FALSE
  MaxCrashes = 1
  MaxAsks = 0
  MaxQueue = 1
  CreatedRunning = FALSE
PROPERTIES
  BootEndsRuns
  EndReachesRecord
  OrphansReaped
\* A thread nobody writes to any more rests.
CHECK_DEADLOCK FALSE
