SPECIFICATION Spec
CONSTANTS
  Numbers = {18, 23, 31}
  MaxLen = 5
  Names <- SourceNames
  First = 1
  Runs = {r1, r2, r3}
  MaxSessions = 2
INVARIANTS
  SortInvariant
  Stable
  TimesAscend
  TablesAgree
  CodeTellsResult
PROPERTY
  EveryRunExits
\* A script ends.
CHECK_DEADLOCK FALSE
