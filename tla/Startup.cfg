SPECIFICATION Spec
CONSTANTS
  Ctrl = 173
  Ex = 2
  Parent <- MCParent
  Commanded <- MCCommanded
  Plants <- MCPlants
  SdkExchanges <- MCSdkExchanges
  BlazeExchanges <- MCBlazeExchanges
  SdkNum = 9
  ProxyNum = 250
  BlazeNum = 251
  Alone = TRUE
  Readers <- MCReaders
  HeadAsked = 4
  RestAsked = 64
  MaxLost = 1
INVARIANTS
  HubsKnown
  AnswerKept
  AsMeant
  
  Recognised
CHECK_DEADLOCK FALSE
