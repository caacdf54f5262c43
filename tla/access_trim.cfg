SPECIFICATION FairSpec
CONSTANTS
  p1 = p1
  p2 = p2
  p3 = p3
  u1 = u1
  u2 = u2
  t1 = t1
  t2 = t2
  Procs = {p1, p2, p3}
  Free = Free
  Kinds = {"user"}
  Root = Root
  Uid <- MCUid
  Euid <- MCEuid
  Capable = {}
  Tty <- MCTty
  NoTty = NoTty
  MaxClones = 2
INVARIANTS TrimAlone
