CONSTANTS
  Size = 3
  Values = {a, b}
  MaxCall = 4
SPECIFICATION FairSpec
INVARIANTS
  CursorsAgree
  CopiesInOrder
PROPERTIES
  IsBoundedFifo
  CallsReturn
