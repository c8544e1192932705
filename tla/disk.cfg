CONSTANTS
  SectorBytes = 8
  CountRange = 4
  EcxRange = 64
  MaxReads = 3
  Modules <- SomeModules
SPECIFICATION FairSpec
INVARIANTS ModuleLoaded DataInOrder
PROPERTIES ReadEnds
CHECK_DEADLOCK FALSE
