CONSTANTS
  Poppers = {p1, p2, p3}
  HonoursDiscard = TRUE
  EmptyResult = "null"
  MaxMsg = 3
  MaxPops = 5
SPECIFICATION FairSpec
INVARIANTS
  NoLostWakeup
  EveryMessageOnce
PROPERTIES
  MessageMeetsWaiter
  PopReturns
CHECK_DEADLOCK FALSE
