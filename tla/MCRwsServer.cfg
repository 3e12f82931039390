SPECIFICATION FairSpec
CONSTANTS
  r1 = r1
  r2 = r2
  r3 = r3
  Requests = {r1, r2, r3}
  Capacity = 1
  Disconnects = TRUE
  Closes = TRUE
INVARIANTS
  InOnePlace
  PollAwake
PROPERTIES
  Served
CHECK_DEADLOCK FALSE
