\* A pull that downloaded before a push of the same file writes after it.
SPECIFICATION Spec
CONSTANTS
  Devices = {d1}
  Busy = {d1}
  Calls = {"store", "pull"}
  MaxEdits = 1
  MaxFailures = 0
  OutOfBand = FALSE
PROPERTIES
  PullKeepsPushed
