SPECIFICATION Spec
CONSTANTS
  s1 = s1
  a1 = a1
  a2 = a2
  ThreeMinutes = 1
  TenMinutes = 2
  OneHour = 3
  Day = 4
  GreenMax = 20
  RedMin = 80
  DegradedMin = 21
  HighAmountSeverity = 15
  HighAmountThreshold = 750
  Scorers = {s1}
  Surfaces = {"api", "cli"}
  Analysts = {a1, a2}
  Targets <- Users
  Amounts = {FALSE}
  Outcomes = {"CONFIRMED_FRAUD", "CONFIRMED_LEGITIMATE", "NEEDS_MORE_INFO"}
  Observed <- SharedPhone
  Maintenance = {"prune", "reset"}
  Periods <- Policies
  MaxLag = 1
  MaxDecisions = 2
  MaxReviews = 2
  MaxIncidents = 1
  Nothing = Nothing
SYMMETRY Interchangeable
INVARIANTS
  LabelsAreBacked
  CaseStatusTracksReviews
  YellowDecisionsAreQueued
  VerdictsAreLearned
PROPERTIES
  KnownFraudIsBlocked
  WhatIfAgrees
  PageAddsUp
CHECK_DEADLOCK FALSE
