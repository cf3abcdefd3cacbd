SPECIFICATION Spec
CONSTANTS
  Files = {shop, cart}
  Threads = {t1, t2}
  Readers = {"greenfield", "brownfield"}
  Sharing <- BothUses
  Forcing = {"brownfield"}
  TTL = 1
  MaxLoad = 1
  MaxTime = 4
  MaxVersion = 1
INVARIANTS
  TypeOK
PROPERTIES
  AnswersFreshEnough
  LoadReadsBucket
SYMMETRY Alike
