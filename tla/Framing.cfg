SPECIFICATION Spec
CONSTANTS
  Base = 8
  Start <- StartBytes
  HeadLen = 5
  Buffer = 12
  Bodies <- SomeBodies
  MaxFrames = 4
  MaxNoise = 1
INVARIANTS
  InStep Recovers
CHECK_DEADLOCK FALSE
