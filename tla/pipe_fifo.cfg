SPECIFICATION QuietSpec
CONSTANTS
  f1 = f1
  f2 = f2
  f3 = f3
  b1 = b1
  b2 = b2
  Files = {f1, f2}
  Free = Free
  Junk = Junk
  Bytes = {b1, b2}
  Sizes = {2, 3}
  Modes <- AndNonblock
  MaxSize = 3
  Notified = {f1}
  Data <- TwoBytes
  MaxCount = 2
INVARIANTS WritersWoken
PROPERTIES IsFifo ReadsReturn WritesReturn
