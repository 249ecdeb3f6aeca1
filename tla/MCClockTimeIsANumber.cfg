CONSTANTS
  Clients = {c1}
  RequestIDs = {0}
  MaxCalls = 4
  MaxStops = 1
  MaxRestarts = 0
  Timeouts = FALSE
  Shutdown = FALSE
SPECIFICATION Spec
INVARIANT
  TimeIsANumber
CHECK_DEADLOCK FALSE
