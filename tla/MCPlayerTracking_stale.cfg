SPECIFICATION Spec
CONSTANTS
  Objects = {p1, p2}
  TeamSize = 2
  SelfUnum = 1
  OurGoalie = 1
  TheirGoalie = 1
  PosCountThr = 3
  Forgotten = 1000
  OldCount = 2
  GhostThr = 1
  GhostWeight = 10
  MaxTotal = 2
  MaxHeard = 1
  Modes = {"play_on"}
  Reaching = {"opponents"}
  Carded = {"opponents"}
SYMMETRY Symmetry
INVARIANT KickableOpponentExists
CHECK_DEADLOCK FALSE
