SPECIFICATION QuietSpec
CONSTANTS
  f1 = f1
  f2 = f2
  b1 = b1
  b2 = b2
  Files = {f1, f2}
  Bytes = {b1, b2}
  Junk = Junk
  Quanta = {1, 2}
  Qsets = {2}
  SCULL_QUANTUM = 1
  SCULL_QSET = 2
  Data <- Pairs
  Counts = {2}
  MaxSize = 3
SYMMETRY Symmetric
PROPERTIES IsFile
