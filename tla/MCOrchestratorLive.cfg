SPECIFICATION FairSpec
CONSTANTS
  Tools = {t1}
  NoTool = NoTool
  Threads = {a}
  NoThread = NoThread
  MaxGoals = 1
  MaxS7Logs = 1
CONSTRAINT BoundedAlone
PROPERTY EveryIntentEnds
CHECK_DEADLOCK FALSE
