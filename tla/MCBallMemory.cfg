SPECIFICATION Spec
CONSTANTS
  SelfPosThr = 3
  FaceThr = 2
  BallPosThr = 3
  BallVelThr = 3
  Confs <- MCConfs
INVARIANTS TypeOK DifferenceSpansItsSteps DifferenceIsUndisturbed MissedBallIsForgotten
\* The last cycle ends the run.
CHECK_DEADLOCK FALSE
