CONSTANTS
  Word = 128
  AfterComma = 2
  junk = junk
  Rows = 3
  Cols = 5
  CursorRange = 32
  Half = 64
  MaxCalls = 3
  Characters <- MCCharacters
  Requests <- MCRequests
  SystemCalls <- MCSystemCalls
  Strings <- MCStrings
SPECIFICATION FairSpec
INVARIANTS CallLeavesNoTrace TemplateExpanded NumbersReadBack FootprintBounded
PROPERTIES WritesNearBuffer ImplementsTerminal OffScreenReturns CallsReturn
