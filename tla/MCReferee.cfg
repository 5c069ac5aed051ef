SPECIFICATION Spec
CONSTANTS
  TeamSize = 2
  OurSide = "LEFT"
  Order <- MCOrder
  Wishes <- MCWishes
  MaxCycle = 1
  MaxPlay = 3
  MaxKicks = 3
  MaxNet = 2
  Echoes = {2}
INVARIANTS TypeOK KickTakerIsInTurn ScoreIsKept CatchIsKnown
CHECK_DEADLOCK FALSE
