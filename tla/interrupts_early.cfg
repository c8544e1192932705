CONSTANTS
  Lines = {32, 33, 46}
  Ints = {}
  Faults = {}
  ReportLines = 2
  DebugLines = 1
  MaxDepth = 8
  QuietBoot = FALSE
SPECIFICATION Spec
INVARIANT PrintFindsScreen
CHECK_DEADLOCK FALSE
