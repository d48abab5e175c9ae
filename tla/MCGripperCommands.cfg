CONSTANTS
  None = None
  Callers = {k1, k2}
  Streams = {}
  IdSpace = 2
  MaxCommands = 3
  MaxBreaks = 1
SPECIFICATION Spec
INVARIANTS SuccessMeansWritten WaitersAreWaiting
SYMMETRY Perms
CHECK_DEADLOCK FALSE
