SPECIFICATION FairSpec
CONSTANTS
  Jobs = {a, b}
  NoJob = NoJob
INVARIANTS AnnouncedWhileRunning AtMostOneStepLate SuccessMeansEmptyHanded
PROPERTY JobsEnd
CHECK_DEADLOCK FALSE
