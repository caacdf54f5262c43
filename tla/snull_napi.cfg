SPECIFICATION QuietSpec
CONSTANTS
  d1 = d1
  d2 = d2
  p1 = p1
  p2 = p2
  q1 = q1
  q2 = q2
  Devs = {d1, d2}
  Packets = {p1, p2, q1}
  Home <- Home21
  Pool <- Pool21
  NoPacket = NoPacket
  Napi = {TRUE}
  Lockups = {0}
INVARIANTS AllProcessed
CHECK_DEADLOCK FALSE
