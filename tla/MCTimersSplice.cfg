SPECIFICATION Spec
CONSTANTS
  t1 = t1
  t2 = t2
  i1 = i1
  Timers = {t1, t2, i1}
  Intervals = {i1}
  Delays <- SmallDelays
  TimeoutMax = 7
  MaxTime = 2
  ClearsFiring = TRUE
INVARIANTS
  NoTimerForgotten
CHECK_DEADLOCK FALSE
