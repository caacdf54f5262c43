CONSTANTS
  Files = {f1, f2, f3}
  MaxUrbs = 2
  Sectors = 3
  MaxWrites = 2
  MaxCount = 4
  Size = 4
  FifoSizes = {0, 4}
  MaxChars = 5
  Data = {1, 2, 3}
  Null = Null
  MaxNodes = 4
  MaxZaps = 2
SPECIFICATION Spec
INVARIANTS
  ObjectHeld
  InvalidatedIdle
  DataKept
  TimerWhileOpen
  CharsSent
  ListLinked
  OneBuilder
  PadsCanLink
PROPERTIES
  ListImplemented
  CallsEnd
CHECK_DEADLOCK FALSE
