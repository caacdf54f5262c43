CONSTANTS
  r1 = r1
  r2 = r2
  w1 = w1
  w2 = w2
  Readers = {r1,r2}
  N = 2
  U = 2
  T = 2
  MaxIrq = 5
  Writers = {w1, w2}
  M = 4
  Lengths = {1, 2, 4}
  MaxBytes = 7
  Loops = 2
  MaxData = 3
  Limit = 2
SYMMETRY Symmetry
CONSTRAINTS
  UntilTorn
  OneLateReader
SPECIFICATION Spec
INVARIANTS
  SleepersWoken
  DataInOrder
  WorkGoesOn
  NothingInstalled
CHECK_DEADLOCK FALSE
