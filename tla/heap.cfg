CONSTANTS
  HeapStart = 1
  HeapEnd = 10
  HeaderSize = 1
  Word = 64
  Sizes = {1, 4}
  Contexts = {c1, c2}
  Masked = TRUE
  Careful = TRUE
  HandlerHalts = FALSE
SPECIFICATION FairSpec
INVARIANTS ListInOrder BlocksDisjoint SizeRecoverable HeapInv ThrowMeansNoGap BestFit ReturnsFreshBlock
PROPERTIES OperationsReturn ImplementsHeapSpec
