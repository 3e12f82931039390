SPECIFICATION Spec
CONSTANTS
  r1 = r1
  r2 = r2
  r3 = r3
  u1 = u1
  Ops = {r1, r2, u1}
  UnrefOps = {u1}
  Size <- OneBig
  MaxRecords = 1
  Capacity = 8
  MaxThrows = 0
  MaxRejections = 0
INVARIANTS
  NoResponseLost
CHECK_DEADLOCK FALSE
