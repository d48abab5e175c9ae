CONSTANTS
  None = None
  Conns = {s1, s2, s3, s4}
  Attempts = 2
  MaxFaults = 2
SPECIFICATION LinkSpec
INVARIANTS OnlineIsRead
PROPERTIES LinkComesBack
CHECK_DEADLOCK FALSE
