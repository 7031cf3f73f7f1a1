\* Two devices synchronise a file that a third program edits too.
SPECIFICATION FairSpec
CONSTANTS
  Devices = {d1, d2}
  Busy = {}
  Calls = {}
  MaxEdits = 2
  MaxFailures = 1
  OutOfBand = TRUE
INVARIANTS
  TypeOK
PROPERTIES
  NoLostPush
  Converges
  EveryTaskEnds
