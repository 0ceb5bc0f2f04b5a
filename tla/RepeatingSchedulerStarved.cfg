SPECIFICATION Spec
CONSTANTS
  Caller = {c1}
  OrderLists <- Harmonic
  MaxTimers = 1
  CheckDur = 5
  DropDur = 1
  DozeDur = 200
  NapDur = 100
  MaxLate = 0
  MaxPanics = 0
  Horizon = 100
  Few = 2
INVARIANT
  FewMissed
CHECK_DEADLOCK FALSE
