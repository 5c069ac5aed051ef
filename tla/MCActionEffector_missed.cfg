SPECIFICATION Spec
CONSTANTS
  BodyKinds <- KickAndTurn
  OtherSupport = {}
  CatchBanCycle = 5
  MayLose = {}
  MayMiss = TRUE
  MaxCycle = 3
  MaxLoss = 0
INVARIANT EffectIsReal
CHECK_DEADLOCK FALSE
