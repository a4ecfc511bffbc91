SPECIFICATION Spec
CONSTANTS
  AOut = AOut
  AIn = AIn
  PayloadSize = 2
  LoopSize = 2
  kMesgBufSIze = 4
  Period = 3
  Rounds = 2
  Messages = 2
CHECK_DEADLOCK FALSE
INVARIANTS MismatchMeansLoss NoFalsePass NeverNegative
PROPERTIES TestEnds
