SPECIFICATION Spec
CONSTANTS
  BodyKinds <- CatchAndTurn
  OtherSupport = {}
  CatchBanCycle = 5
  MayLose = {}
  MayMiss = FALSE
  MaxCycle = 3
  MaxLoss = 0
INVARIANT CatchIsRemembered
CHECK_DEADLOCK FALSE
