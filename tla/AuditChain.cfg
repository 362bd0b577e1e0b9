SPECIFICATION MFairSpec
CONSTANTS
  s1 = s1
  s2 = s2
  Sessions = {s1, s2}
  Backends = {"sqlite", "postgres"}
  BatchSizes = {1, 2}
  ResetOnPostgres = FALSE
  MaxChanges = 3
  MaxResets = 1
  Limit = 2
  Overwrite = TRUE
  MaxCommands = 3
INVARIANTS
  ChainValid
  DamageIsDetected
  ArchiveIsVerified
  RestoredIsAPastStore
PROPERTIES
  AuditIsAppendOnly
  EverySessionEnds
CHECK_DEADLOCK FALSE
