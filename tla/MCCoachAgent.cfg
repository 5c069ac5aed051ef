SPECIFICATION Spec
CONSTANTS
  IntervalMSec = 10
  ServerWait = 2
  CLangWinSize = 2
  CLangWin = 1
  GameLength = 2
  CoachSayCountMax = 1
  FreeformWaitPeriod = 1
  FreeformSendPeriod = 1
  SubsMax = 1
  MaxCycle = 4
  MaxStep = 4
  MaxNet = 2
  MaxExtra = 4
INVARIANT TypeOK
INVARIANT CLangWithinWindow
INVARIANT FreeformWithinAllowance
INVARIANT SubstitutesCounted
INVARIANT NoThinkIsLeft
PROPERTY GivesUpUnanswered
CHECK_DEADLOCK FALSE
