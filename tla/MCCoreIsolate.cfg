SPECIFICATION FairSpec
CONSTANTS
  r1 = r1
  r2 = r2
  r3 = r3
  u1 = u1
  Ops = {r1, r2, r3, u1}
  UnrefOps = {u1}
  Size <- OneBig
  MaxRecords = 4
  Capacity = 12
  MaxThrows = 1
  MaxRejections = 1
INVARIANTS
  NoResponseLost
  Ordered
  DoneMeansAnswered
  NoLostWakeup
  RejectionReported
PROPERTIES
  Answered
CHECK_DEADLOCK FALSE
