SPECIFICATION PoolFairSpec
CONSTANTS
  Job = {j1, j2, j3, j4}
  MaxPanics = 2
  NoJob = NoJob
INVARIANTS
  NeverBehindASleeper
PROPERTY
  OneTimerEach
