SPECIFICATION TracksSpec
CONSTANTS
  None = None
  Tools = {t1}
  Places = {6, 11, 18}
  MaxDets = 2
  MaxTwins = 1
  MinHits = 3
  MaxMisses = 2
  MaxDist = 10
  Cols = 2
  HalfSlot = 6
INVARIANTS
  TracksTypeOK
  ShownWasSeen
  TakenSlotNotOffered
  StillToolIsShownOnce
