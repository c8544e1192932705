CONSTANTS
  SectorBytes = 8
  CountRange = 4
  EcxRange = 64
  MaxReads = 2
  Modules <- ShortModules
SPECIFICATION Spec
INVARIANT LoadsModule
CHECK_DEADLOCK FALSE
