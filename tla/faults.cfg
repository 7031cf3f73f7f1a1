\* Starts and writes may reject.
SPECIFICATION Spec
CONSTANTS
  MaxRuns = 2
  Msgs = {m1, m2}
  NoMsg = NoMsg
  Verbs = {"send", "close"}
  MayFailStart = TRUE
  MayFailStore = TRUE
  MaxCrashes = 0
  MaxAsks = 0
  MaxQueue = 1
  CreatedRunning = FALSE
INVARIANTS
  InductiveInv
  DeliveredOnce
PROPERTIES
  MessageSettles
\* A thread nobody writes to any more rests.
CHECK_DEADLOCK FALSE
