SPECIFICATION FairSpec
CONSTANTS
  w1 = w1
  w2 = w2
  e1 = e1
  e2 = e2
  Workers = {w1, w2}
  DryRun = {}
  Events = {e1, e2}
  MaxAttempts = 2
  BatchSize = 2
  Maintenance = {}
  MaxMessages = 2
  MaxFailures = 3
  MaxTimeouts = 0
  MaxCrashes = 1
  NoRow = NoRow
  NoTarget = NoTarget
INVARIANTS
  PublishedWasDelivered
  DeadLetterNeedsFailures
  AttemptsAreAudited
  OldestFirst
PROPERTIES
  EveryMessageSettles
CHECK_DEADLOCK FALSE
