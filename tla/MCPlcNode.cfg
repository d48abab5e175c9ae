SPECIFICATION FairSpec
CONSTANTS
  green = green
  red = red
  StartCoils = {green, red}
  ResetCoil = reset
  Output <- MCOutput
  Requests = {"idle", "moving", "e_stop", "watchdog", "unsupported"}
  StallLimit = 2
  MaxTimers = 2
INVARIANTS EveryOnCoilIsDue
PROPERTIES LatchFreezesOutputs EStopComesBack
CHECK_DEADLOCK FALSE
