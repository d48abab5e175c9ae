CONSTANTS
  Tools = {t1}
  t1 = t1
  None = None
  MaxUtterances = 2
  RawDepth = 1
  Handlers = 2
SPECIFICATION FairSpec
INVARIANTS DeafInMotion SpokenIsGranted
PROPERTIES TextsAreServed
CHECK_DEADLOCK FALSE
