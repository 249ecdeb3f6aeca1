CONSTANTS
  Days = {d1, d2, d3}
  NoDay = NoDay
  MaxMsg = 4
  MaxChanges = 3
  Consoles = {TRUE, FALSE}
SPECIFICATION FairServerSpec
INVARIANTS
  TypeOK
  EveryDatagramOnce
  KilledByRotation
  NewHandleStaysOpen
PROPERTIES
  ArrivedIsReceived
CHECK_DEADLOCK FALSE
