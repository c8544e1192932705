CONSTANTS
  HeapStart = 1
  HeapEnd = 14
  HeaderSize = 2
  Word = 64
  Sizes = {1}
  Contexts = {c1, c2}
  Masked = FALSE
  Careful = TRUE
  HandlerHalts = TRUE
SPECIFICATION Spec
INVARIANT ReturnsFreshBlock
CHECK_DEADLOCK FALSE
