CONSTANTS
  Days = {d1, d2}
  NoDay = NoDay
  MaxMsg = 2
  MaxChanges = 2
  Consoles = {FALSE}
SPECIFICATION FairSpec
INVARIANTS
  ServiceTypeOK
  StoppedMeansSilent
  ClosedMeansTerminating
  OneStopInTransit
PROPERTIES
  StatusOnlyAdvances
  StopIsAnswered
CHECK_DEADLOCK FALSE
