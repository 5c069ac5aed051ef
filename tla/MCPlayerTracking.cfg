SPECIFICATION Spec
CONSTANTS
  Objects = {p1, p2, p3}
  TeamSize = 2
  SelfUnum = 1
  OurGoalie = 1
  TheirGoalie = 1
  PosCountThr = 2
  Forgotten = 1000
  OldCount = 1
  GhostThr = 0
  GhostWeight = 10
  MaxTotal = 2
  MaxHeard = 1
  Modes = {"play_on"}
  Reaching = {"opponents"}
  Carded = {"teammates"}
SYMMETRY Symmetry
INVARIANT TypeOK
INVARIANT NumbersAreUnique
INVARIANT OneGoalie
INVARIANT UnknownAreNameless
INVARIANT KickablesExist
PROPERTY SeenNumberStands
CHECK_DEADLOCK FALSE
