SPECIFICATION Spec
CONSTANTS
  t1 = t1
  t2 = t2
  NumMotors = 2
  Thread = {t1, t2}
  Instances <- MCInstances
  Power = {0, 1, 3}
  RunMode = {0, 1}
  ZeroPower = {0, 1}
  Threshold = 1
  Caching = TRUE
  MaxOpen = 1
  Skip = Skip
INVARIANTS
  
  
  BehaviorAsAsked
