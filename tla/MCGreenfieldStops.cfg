SPECIFICATION Spec
CONSTANTS
  None = None
  Batches <- StopsBatches
  Supported = {"cloudresourcemanager.googleapis.com/Project", "compute.googleapis.com/Disk", "storage.googleapis.com/Bucket"}
  Governed = {"alpha"}
  Exported = {}
  Slots = {s1}
  MaxFaults = 1
INVARIANT FailureContained
CHECK_DEADLOCK FALSE
