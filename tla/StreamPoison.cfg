SPECIFICATION FairSpec
CONSTANTS
  w1 = w1
  w2 = w2
  Workers = {w1}
  DlqWorkers = {}
  Events <- ConflictingEvents
  PartialKeys = {}
  BadKinds = {"invalid", "undecodable"}
  Length = 2
  MaxScanned = 2
  MaxEmptyPolls = 2
  ApiWrites = FALSE
  MaxFaults = 0
  NoWorker = NoWorker
  NoOffset = NoOffset
  NoEvent = NoEvent
PROPERTY PoisonIsDeadLettered
CHECK_DEADLOCK FALSE
