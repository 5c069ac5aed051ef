SPECIFICATION FairSpec
CONSTANTS
  WaitThrSynchView = 79
  WaitThrNoSynchView = 75
  SynchSeeOffset = 0
  SynchOffset = 60
  Cycles = 6
  NormalViewTimeThr = 15
  Confs <- MCStoppages
PROPERTY SynchIsFound
