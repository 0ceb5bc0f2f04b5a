SPECIFICATION Spec
CONSTANTS
  octoquad = octoquad
  pinpoint = pinpoint
  Device = {octoquad, pinpoint}
  Asked <- BothAsked
  Pinpoint = {pinpoint}
  Link = {"hub0"}
  LinkOf <- AllOnOne
  Num = {n1, n2, n3, n4}
  Delay = 1
  Rate = 3
  PauseTime = 2
  AnswerTime = 1
  MaxStray = 1
SYMMETRY Symmetry
INVARIANTS
  TypeOK StraysBounded OneReadAtATime OwnData ChainKept
