SPECIFICATION FairReportSpec
CONSTANTS
  NumPlans = 3
  BatchSize = 2
  Orders <- OneOrder
  Slots = {s1, s2}
  Fate <- MCFate
  MaxFaults = 2
INVARIANTS
  TypeOK
  ReportTypeOK
  AckedBatchRecorded
  DrainedRunCovered
  EvidenceBacked
  CopiesBoundedByFaults
  RemainingIsUnrecorded
  ViewsAgreeWithoutFaults
PROPERTIES
  RemainingNeverRises
  QueuedRunRecorded
  QueuedRunDrains
  ImplementsLedger
CHECK_DEADLOCK FALSE
