SPECIFICATION FairSpec
CONSTANTS
  e1 = e1
  e2 = e2
  e3 = e3
  e4 = e4
  id4 = id4
  k4 = k4
  id1 = id1
  id2 = id2
  k1 = k1
  k2 = k2
  r1 = r1
  r2 = r2
  c1 = c1
  Sessions = {s1, s2}
  Events = {e1, e2, e3, e4}
  EventId <- MCEventId
  Key <- MCKey
  Batches <- MCBatches
  Decisions = {d1}
  Cases = {c1}
  Reviews = {r1, r2}
  DeadLetters = {l1}
  CaseOf <- MCCaseOf
  Cutoffs <- MCCutoffs
  Earlier <- MCEarlier
  MaxAttempts = 2
  MaxCalls = 3
INVARIANTS
  AnsweredIsStored
  CommittedTogether
  OnlyDeletesDeadlock
PROPERTIES
  PruneIsAccounted
  EveryCallEnds
CHECK_DEADLOCK FALSE
