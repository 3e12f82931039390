SPECIFICATION FairSpec
CONSTANTS
  MaxPosts = 2
  MaxEvents = 2
  ClosesEarly = TRUE
  HostCalls = {"post", "terminate"}
INVARIANTS
  Reaped
  InboxOpen
  NoSpuriousError
PROPERTIES
  JoinReturns
  CloseReported
  MessageHandled
CHECK_DEADLOCK FALSE
