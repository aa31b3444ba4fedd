SPECIFICATION Spec
CONSTANTS
  Streams <- MCTokens
  Digits = {"1", "2", "3"}
  Failures = 0
  MayDrain = TRUE
  DrainsInToken = TRUE
INVARIANTS
  DocumentsInOrder
CHECK_DEADLOCK FALSE
