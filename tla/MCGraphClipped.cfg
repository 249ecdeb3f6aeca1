SPECIFICATION GraphSpec
CONSTANTS
  Touched = {"v1", "v2", "label21"}
  Widths = {4, 80}
  Lengths = {11, 12}
INVARIANT
  ClippedOnlyCollapsed
\* A program that is left alone is at rest.
CHECK_DEADLOCK FALSE
