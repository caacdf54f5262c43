CONSTANTS
  t1 = t1
  t2 = t2
  Threads = {t1, t2}
  Drivers = {"scullc", "scullp", "sculld", "scullv"}
  Orders = {0, 1}
  Quanta = {1, 2}
  Qsets = {1, 2}
  FewOrders = {0}
  FewQsets = {2}
  Counts = {2}
  MaxPos = 4
  MaxVmas = 1
  MaxWork = 1
  Smp = FALSE
SYMMETRY Symmetry
SPECIFICATION Spec
CONSTRAINT CallBound
INVARIANTS
  AccessesInBlock
  NothingLost
  MappingShowsFile
PROPERTY MappedKept
CHECK_DEADLOCK FALSE
