SPECIFICATION FairSpec
CONSTANTS
  NumPlans = 3
  BatchSize = 2
  Orders <- OneOrder
  Slots = {s1, s2}
  Fate <- MCFate
  MaxFaults = 0
PROPERTY DrainedRunMarkedComplete
CHECK_DEADLOCK FALSE
