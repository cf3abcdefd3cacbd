SPECIFICATION Spec
CONSTANTS
  Absent = Absent
  Keys = {"team", "note"}
  Values = {"old", "red", "blue"}
  Writers = {"w1", "w2"}
  Demands <- BothDemands
  InitialLabels <- AnyLabels
  Clients <- OnlyProject
  Preserve = TRUE
  MaxEdits = 1
  MaxFaults = 0
PROPERTIES
  WritesEraseNothing
CHECK_DEADLOCK FALSE
