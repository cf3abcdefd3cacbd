SPECIFICATION Spec
CONSTANTS
  Files = {"shop"}
  Threads = {t1, t2}
  Readers = {"greenfield", "brownfield"}
  Sharing <- Mixed
  Forcing = {"brownfield"}
  TTL = 2
  MaxLoad = 1
  MaxTime = 3
  MaxVersion = 1
PROPERTIES
  RefreshSticks
