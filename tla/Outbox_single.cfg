SPECIFICATION Spec
CONSTANTS
  w1 = w1
  w2 = w2
  e1 = e1
  e2 = e2
  Workers = {w1}
  DryRun = {}
  Events = {e1, e2}
  MaxAttempts = 3
  BatchSize = 1
  Maintenance = {"prune", "reset"}
  MaxMessages = 2
  MaxFailures = 4
  MaxTimeouts = 1
  MaxCrashes = 1
  NoRow = NoRow
  NoTarget = NoTarget
SYMMETRY Interchangeable
INVARIANTS
  DeliveriesExplained
  FailuresCounted
PROPERTIES
  TerminalIsFinal
CHECK_DEADLOCK FALSE
