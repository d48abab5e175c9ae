SPECIFICATION PanelsFairSpec
CONSTANTS
  Pages = {p1, p2}
  MaxChanges = 1
  MaxFailures = 1
  MaxQueue = 1
  MaxSends = 2
INVARIANTS OpenPagesAreServed
PROPERTIES GhostsGo PageCatchesUp
CHECK_DEADLOCK FALSE
