SPECIFICATION ReportSpec
CONSTANTS
  NumPlans = 3
  BatchSize = 2
  Orders <- OneOrder
  Slots = {s1, s2}
  Fate <- MCFate
  MaxFaults = 1
INVARIANT CompletedMeansEveryRow
CHECK_DEADLOCK FALSE
