CONSTANTS
  MaxSpot = 2
  StableFrames = 2
  Keep = 2
  None = None
  Wrong = Wrong
SPECIFICATION Spec
INVARIANTS TypeOK ReadyIsFresh TwoMotionsAfterEStop
PROPERTIES StillHandIsOffered
CHECK_DEADLOCK FALSE
