SPECIFICATION Spec
CONSTANTS
  f1 = f1
  f2 = f2
  f3 = f3
  b1 = b1
  b2 = b2
  Files = {f1, f2}
  Free = Free
  Junk = Junk
  Bytes = {b1}
  Sizes = {3}
  Modes <- OneWay
  MaxSize = 3
  Notified = {}
  Data <- OneByte
  MaxCount = 1
SYMMETRY Symmetric
VIEW Control
INVARIANTS WritersWoken
