SPECIFICATION FairSpec
CONSTANTS
  main = main
  a = a
  b = b
  c = c
  old = old
  L0 = L0
  L1 = L1
  L2 = L2
  Specifiers = {main, a, b, c, old}
  Found <- Redirect
  Programs <- FaultyPrograms
  Loads = {L0, L1, L2}
  MainLoad = L0
  MainSpecifier = main
  MaxConcurrent = 2
  PrepareMayFail = TRUE
INVARIANTS
  CompleteOrShared
  NeverDrained
  FetchedOnce
  OkMeansEvaluated
  FailureToldOnce
PROPERTIES
  ImportsSettle
CHECK_DEADLOCK FALSE
