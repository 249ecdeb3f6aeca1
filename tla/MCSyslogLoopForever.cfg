CONSTANTS
  Days = {d1, d2}
  NoDay = NoDay
  MaxMsg = 3
  MaxChanges = 1
  Consoles = {FALSE}
SPECIFICATION ServerSpec
INVARIANT LoopForever
CHECK_DEADLOCK FALSE
