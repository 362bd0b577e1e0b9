SPECIFICATION HFairSpec
CONSTANTS
  w1 = w1
  Workers = {w1}
  DlqWorkers = {w1}
  Events <- ClashingEvents
  PartialKeys = {}
  BadKinds = {"empty", "undecodable"}
  Length = 2
  MaxScanned = 1
  MaxEmptyPolls = 1
  ApiWrites = TRUE
  MaxFaults = 2
  NoWorker = NoWorker
  NoOffset = NoOffset
  NoEvent = NoEvent
  Supervised = w1
  MaxBatches = 3
  MaxConsecutiveFailures = 2
  WarningLag = 1
  CriticalLag = 2
  WarningDeadLetters = 1
  CriticalDeadLetters = 2
  WarningFailedBatches = 1
  CriticalFailedBatches = 2
  DeadLetterLimit = 2
INVARIANTS
  TotalsAreBacked
  CommittedIsReported
  GivesUpAfterStreak
  HealthyMeansStored
PROPERTIES
  SupervisorEnds
CHECK_DEADLOCK FALSE
