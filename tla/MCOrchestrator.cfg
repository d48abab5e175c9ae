SPECIFICATION Spec
CONSTANTS
  Tools = {t1}
  NoTool = NoTool
  Threads = {a, b}
  NoThread = NoThread
  MaxGoals = 2
  MaxS7Logs = 0
CONSTRAINT Bounded
SYMMETRY Interchangeable
INVARIANTS MovingLampIsTrue
PROPERTY ImplementsCycle
CHECK_DEADLOCK FALSE
