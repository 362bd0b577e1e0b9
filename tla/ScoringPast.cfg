SPECIFICATION Spec
CONSTANTS
  s1 = s1
  a1 = a1
  a2 = a2
  ThreeMinutes = 1
  TenMinutes = 2
  OneHour = 3
  Day = 4
  GreenMax = 20
  RedMin = 80
  DegradedMin = 21
  HighAmountSeverity = 15
  HighAmountThreshold = 750
  Scorers = {s1}
  Surfaces = {"api"}
  Analysts = {a1}
  Targets <- Users
  Amounts = {FALSE}
  Outcomes = {"CONFIRMED_FRAUD", "CONFIRMED_LEGITIMATE"}
  Observed <- SharedPhone
  Maintenance = {}
  Periods = {}
  MaxLag = 2
  MaxDecisions = 2
  MaxReviews = 1
  MaxIncidents = 0
  Nothing = Nothing
PROPERTY ScoresUseThePast
CHECK_DEADLOCK FALSE
