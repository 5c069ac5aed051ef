SPECIFICATION Spec
CONSTANTS
  BodyKinds <- KickAndTurn
  OtherSupport = {}
  CatchBanCycle = 5
  MayLose = {"command", "body_command", "sense_body"}
  MayMiss = FALSE
  MaxCycle = 3
  MaxLoss = 1
INVARIANTS TypeOK EffectIsReal AlarmsAreLosses
CHECK_DEADLOCK FALSE
