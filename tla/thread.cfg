\* Every verb races the ends of runs, questions and the idle sweep.
SPECIFICATION Spec
CONSTANTS
  MaxRuns = 2
  Msgs = {m1, m2}
  NoMsg = NoMsg
  Verbs = {"send", "answer", "interrupt", "close", "handoff", "continue"}
  MayFailStart = FALSE
  MayFailStore = FALSE
  MaxCrashes = 0
  MaxAsks = 1
  MaxQueue = 1
  CreatedRunning = FALSE
SYMMETRY AnyMessage
INVARIANTS
  TypeOK
  OneProcess
  ServesOnlyRunning
  DeliveredOnce
  RacesNeverExhaust
  ClosingOwned
  NoProcessForgotten
PROPERTIES
  NoLiveRunOnlyArchived
  LifecycleSpec
\* A thread nobody writes to any more rests.
CHECK_DEADLOCK FALSE
