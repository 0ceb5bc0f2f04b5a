SPECIFICATION Spec
CONSTANTS
  Caller = {c1, c2}
  OrderLists <- MCOrderLists
  MaxTimers = 2
  CheckDur = 4
  DropDur = 1
  DozeDur = 6
  NapDur = 3
  MaxLate = 1
  MaxPanics = 1
  Horizon = 36
  Few = 0
INVARIANTS
  OnlyCurrent
  TurnsApart
  OnTime
  KillPrompt
CHECK_DEADLOCK FALSE
