SPECIFICATION Spec
CONSTANTS
  NumOps = 1
  Reads = 1
  Patient = TRUE
  MaxLost = 0
INVARIANT
  LineOutlivesOpModes
CHECK_DEADLOCK FALSE
