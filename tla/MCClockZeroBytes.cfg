CONSTANTS
  Clients = {c1, c2}
  RequestIDs = {0}
  MaxCalls = 4
  MaxStops = 1
  MaxRestarts = 0
  Timeouts = TRUE
  Shutdown = FALSE
SPECIFICATION Spec
INVARIANT
  ZeroBytesIsEof
CHECK_DEADLOCK FALSE
