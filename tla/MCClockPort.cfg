CONSTANTS
  Clients = {c1, c2}
  RequestIDs = {0, 2}
  MaxCalls = 3
  MaxStops = 1
  MaxRestarts = 1
  Timeouts = TRUE
  Shutdown = TRUE
SPECIFICATION FairSpec
INVARIANTS
  TypeOK
  FramesStayWhole
  OwnAnswerUnlessSwallowed
PROPERTIES
  EveryCallEnds
  LostPortIsReplaced
  ShutdownCompletes
CHECK_DEADLOCK FALSE
