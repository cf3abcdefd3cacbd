SPECIFICATION FairSpec
CONSTANTS
  None = None
  Batches <- MCBatches
  Supported = {"cloudresourcemanager.googleapis.com/Project", "compute.googleapis.com/Disk", "storage.googleapis.com/Bucket"}
  Governed = {"alpha"}
  Exported = {"UpdateProject"}
  Slots = {s1, s2}
  MaxFaults = 2
INVARIANTS
  TypeOK
  AckedEventAccounted
  DuplicatesNeedFaults
  MutationsLeaveEvidence
  UpdatesNeedUsers
  AlertsMatchRows
PROPERTY EventsAcknowledged
CHECK_DEADLOCK FALSE
