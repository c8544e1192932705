CONSTANTS
  HeapStart = 1
  HeapEnd = 14
  HeaderSize = 2
  Word = 64
  Sizes = {1, 2}
  Contexts = {c1}
  Masked = TRUE
  Careful = FALSE
  HandlerHalts = FALSE
SPECIFICATION Spec
INVARIANT BlocksDisjoint
