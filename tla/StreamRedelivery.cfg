SPECIFICATION Spec
CONSTANTS
  w1 = w1
  w2 = w2
  Workers = {w1}
  DlqWorkers = {}
  Events <- RedrawnEvents
  PartialKeys = {"k"}
  BadKinds = {"invalid"}
  Length = 1
  MaxScanned = 1
  MaxEmptyPolls = 1
  ApiWrites = FALSE
  MaxFaults = 1
  NoWorker = NoWorker
  NoOffset = NoOffset
  NoEvent = NoEvent
INVARIANT DuplicatesAreSafe
CHECK_DEADLOCK FALSE
