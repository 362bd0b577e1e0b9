SPECIFICATION FairSpec
CONSTANTS
  w1 = w1
  w2 = w2
  Workers = {w1, w2}
  DlqWorkers = {w1}
  Events <- ClashingEvents
  PartialKeys = {}
  BadKinds = {"invalid", "undecodable"}
  Length = 2
  MaxScanned = 2
  MaxEmptyPolls = 1
  ApiWrites = TRUE
  MaxFaults = 1
  NoWorker = NoWorker
  NoOffset = NoOffset
  NoEvent = NoEvent
INVARIANTS
  CommittedIsHandled
  NeverStoredAndDead
  ReportAddsUp
PROPERTIES
  CommittedNeverMovesBack
  ImplementsLog
  EveryMessageIsHandled
CHECK_DEADLOCK FALSE
