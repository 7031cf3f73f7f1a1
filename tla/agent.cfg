\* Turns, questions, answers and the idle sweep, on a thread created running
\* whose start may reject.
SPECIFICATION Spec
CONSTANTS
  MaxRuns = 2
  Msgs = {m1, m2}
  NoMsg = NoMsg
  Verbs = {"send", "answer", "interrupt"}
  MayFailStart = TRUE
  MayFailStore = FALSE
  MaxCrashes = 0
  MaxAsks = 2
  MaxQueue = 2
  CreatedRunning = TRUE
SYMMETRY AnyMessage
INVARIANTS
  WorkAccounted
  QuestionOwned
  EndLoggedOnce
  EndReasonOwned
PROPERTIES
  IdleSweepSparesWork
\* A thread nobody writes to any more rests.
CHECK_DEADLOCK FALSE
