SPECIFICATION FairSpec
CONSTANTS
  SynchMode = TRUE
  WaitThrSynchView = 10
  WaitThrNoSynchView = 20
  SynchSeeOffset = 0
  SynchOffset = 60
  IntervalMSec = 10
  ServerWait = 4
  SeeVerdicts <- MCSeeVerdicts
  MaxCycle = 2
  MaxStep = 3
  MaxNet = 2
  MaxExtra = 2
  MaxFaults = 0
PROPERTY SecondDecisionNeedsReferee
PROPERTY ThinkIsAnswered
PROPERTY ServerDownIsNoticed
CHECK_DEADLOCK FALSE
