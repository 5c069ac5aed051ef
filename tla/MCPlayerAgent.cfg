SPECIFICATION Spec
CONSTANTS
  SynchMode = FALSE
  WaitThrSynchView = 10
  WaitThrNoSynchView = 20
  SynchSeeOffset = 0
  SynchOffset = 60
  IntervalMSec = 10
  ServerWait = 4
  SeeVerdicts <- MCSeeVerdicts
  MaxCycle = 2
  MaxStep = 3
  MaxNet = 2
  MaxExtra = 2
  MaxFaults = 1
INVARIANT TypeOK
INVARIANT DeadlineIsMet
PROPERTY CycleNeverGoesBack
PROPERTY OneDecisionPerRunningCycle
PROPERTY SecondDecisionNeedsReferee
PROPERTY TakesTurns
CHECK_DEADLOCK FALSE
