SPECIFICATION FairSpec
CONSTANTS
  t1 = t1
  t2 = t2
  i1 = i1
  Timers = {t1, t2, i1}
  Intervals = {i1}
  Delays <- SmallDelays
  TimeoutMax = 7
  MaxTime = 3
  ClearsFiring = FALSE
INVARIANTS
  NoTimerForgotten
  AlarmIsFirst
  FireInOrder
PROPERTIES
  TimeoutSettles
CHECK_DEADLOCK FALSE
