SPECIFICATION Spec
CONSTANTS
  Absent = Absent
  Keys = {"team", "note", "product"}
  Values = {"old", "red", "blue"}
  Writers = {"w1", "w2"}
  Demands <- BothDemands
  InitialLabels <- AnyLabels
  Clients <- AllClients
  Preserve = TRUE
  MaxEdits = 2
  MaxFaults = 1
INVARIANTS
  TypeOK
  UpdateNeverUndone
PROPERTIES
  MergersEraseNothing
  PreserversKeepValues
  RedeliveryKeepsValues
  UpdatedMeansLabelled
  ActsAsOneStep
CHECK_DEADLOCK FALSE
