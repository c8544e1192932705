CONSTANTS
  Lines = {32, 33, 46}
  Ints = {49, 50, 200}
  Faults = {13, 14}
  ReportLines = 4
  DebugLines = 2
  MaxDepth = 8
  QuietBoot = TRUE
SPECIFICATION FairSpec
INVARIANTS TypeOK PrintFindsScreen ScreenNotReentered HandlersAvoidHeap
PROPERTIES PanicReports EveryLineServed
CHECK_DEADLOCK FALSE
