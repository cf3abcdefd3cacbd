SPECIFICATION Spec
CONSTANTS
  Absent = Absent
  All = All
  Projects <- MCProjects
  Keys <- MCKeys
  Values = {"red", "blue", "green", "shop", "project", "alpha", "beta", "gamma", "core"}
  Container = "Project"
  RequiredKeys = {"team", "product"}
  ProjectKeys = {"team"}
  Baseline <- MCBaseline
  Seed = "product"
  Resources <- MCResources
  ProjectOf <- MCProjectOf
  TypeOf <- MCTypeOf
  EngineProject = "core"
  Active <- MCProjects
  Marks <- MCMarks
  Rank <- MCRank
  Supported = {"Project", "Disk", "storage.googleapis.com/Bucket"}
  ApiOf <- MCTypeOf
  Enabled <- MCEnabled
  ExcludedProjects = {"alpha", "core"}
  Excluded = {"registryBucket"}
  Defaults = {}
  Requests = {q1, q2}
  Askable = {All, "core"}
  Registries <- MCRegistries
  Estates <- MCEstates
  ClientOf <- MCClientOf
  Touched = {"alphaProject", "alphaDisk", "betaProject"}
  Events = {e1}
  UserValues = {Absent, "blue"}
  MaxTrouble = 1
SYMMETRY RequestSymmetry
INVARIANTS
  TypeOK
  RunFillsGaps
  AcceptedDetermines
  RemainingIsWaiting
  EstateOffByEvents
PROPERTIES
  AddsOnlyBoundValues
  RunKeepsValues
  RunStaysInScope
CHECK_DEADLOCK FALSE
