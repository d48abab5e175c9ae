CONSTANTS
  Runners = {r1, r2}
  Asker = r2
  Launchable = {"vision_open_0", "vision_close_0", "vision_close_1", "open_1", "close_0",
                "open_0v2", "close_0v2", "vision_fetch", "vision_return",
                "socket_fetch", "socket_return", "home", "unknown"}
  MaxLaunches = 2
  StableFrames = 2
SPECIFICATION Spec
INVARIANTS RecordIsTrue AtMostOneCommandAfterEStop GripsAtRest QuietRunsLeaveOrder
PROPERTIES NeverDragsADrawer RunsEnd
CONSTRAINT OneRunsOneAsks
CHECK_DEADLOCK FALSE
