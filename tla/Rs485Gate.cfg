SPECIFICATION FairSpec
CONSTANTS
  BlazeCall = {b1, b2}
  SdkCall = {s1}
  ParentCall = {p1}
  WaitTime = 2
  AnswerTime = 3
  MaxLost = 2
  None = None
INVARIANTS
  GateAccount
  TokenKept
PROPERTIES
  ServedUnlessLost
