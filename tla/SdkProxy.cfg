SPECIFICATION Spec
CONSTANTS
  s1 = s1
  s2 = s2
  SdkTxn = {s1, s2}
  SdkQueries = {}
  BlazeTxn = {b1}
  Query = query
  Leftover = leftover
  None = None
  NumIds = 4
  SdkNum <- MCSdkNum
  LeftNum = 1
  Leftovers = 1
  Timely = TRUE
  MaxLost = 0
INVARIANTS
  
  BlazeGetsItsOwn
  
  
