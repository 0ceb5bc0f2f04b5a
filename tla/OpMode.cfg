SPECIFICATION FairSpec
CONSTANTS
  NumOps = 2
  Reads = 1
  Patient = TRUE
  MaxLost = 1
INVARIANTS
  
  StopsWhenKilled
  ReactorBeforeMain
  HooksOfTheLiving
  
  ReadsKept
PROPERTIES
  EndsWhenClosed
  
CHECK_DEADLOCK FALSE
