SPECIFICATION FairSpec
CONSTANTS
  None = None
  Tools = {t1}
  Clients = {c1}
  Timeout = 2
  Grace = 1
  TTL = 0
  MaxClock = 3
  MaxLog = 2
INVARIANTS EscalationIsPaced AlertRowsAreReal LogExplainsSnapshot CachedGrantIsRecent
PROPERTIES ImplementsLifecycle EscalationHappens
CHECK_DEADLOCK FALSE
